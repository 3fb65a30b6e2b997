---------------------------- MODULE TrackerProofs ----------------------------
(***************************************************************************)
(* Theorems about EventTracker, for any number of events, reports, failing *)
(* queries and batch sizes, whatever tables the database has.              *)
(***************************************************************************)
EXTENDS TrackedReport, ReportProofs, FiniteSetTheorems, SequenceTheorems, TLAPS

Writing == {"bulk", "single", "legacy"}

(* Who is at work when: a task has events to write exactly while it is     *)
(* writing, the loop writes its own batch only, reports are over before    *)
(* the loop is cancelled, and the last flush finds the queue empty.        *)
Flow ==
  /\ \A t \in Task : todo[t] # <<>> <=> stage[t] \in Writing
  /\ stage[Loop] # "idle" => loop \in {"write", "last"}
  /\ loop = "off" => queue = <<>>
  /\ loop \in {"off", "get", "ended"} => batch = <<>>
  /\ stop # "flushing" => stage[Closer] = "idle"
  /\ stop \notin {"up", "quitting"} => \A r \in Report : stage[r] = "idle"
  /\ stop \in {"ending", "down"} => queue = <<>>
  /\ loop \in {"last", "ended"} => stop \in {"ending", "down"}
  /\ stop = "down" => loop \in {"off", "ended"}
  /\ stop = "up" => dropped = {}

(* What the loop has still to write is in its batch, and the rest of a     *)
(* batch that is being written is stored.                                  *)
Batches ==
  /\ ToSet(todo[Loop]) \subseteq ToSet(batch)
  /\ loop \in {"write", "last"} => \A e \in ToSet(batch) : e \in ToSet(todo[Loop]) \/ Stored(e)

(* Without a fault, the memory is used only when there is no table, and    *)
(* bot_events only when there is no other.                                 *)
Clean ==
  /\ faults = 0 /\ usable # {} => /\ memory = <<>>
                                  /\ \A t \in Task : stage[t] = "legacy" => "events" \notin usable
  /\ usable = {} => \A table \in Table : rows[table] = <<>>

(* What a report owes is being flushed by it, or stored; once it has read, *)
(* it is shown.                                                            *)
Owed(r) == 1..due[r] \ held[r]
Shows(r) == \A e \in Owed(r) : \/ e \in ToSet(shown[r].events) \cup ToSet(rows["events"])
                               \/ faults > 0

Reporting(r) ==
  /\ stage[r] \in Writing \cup {"read"} =>
       /\ shown[r].from = "nowhere"
       /\ \A e \in Owed(r) : e \in ToSet(todo[r]) \/ Stored(e)
  /\ stage[r] = "logs" => Shows(r)
  /\ stage[r] = "idle" /\ shown[r].from # "nowhere" => Shows(r)

IInv == TypeOK /\ Flow /\ Batches /\ Clean /\ NoEventLost /\ \A r \in Report : Reporting(r)

-----------------------------------------------------------------------------
(* Sequences.                                                              *)
LEMMA SetOfEmpty == ToSet(<<>>) = {}
BY DEF ToSet

LEMMA SetOfAppend ==
  ASSUME NEW S, NEW s \in Seq(S), NEW e \in S
  PROVE  Append(s, e) \in Seq(S) /\ ToSet(Append(s, e)) = ToSet(s) \cup {e} /\ Append(s, e) # <<>>
<1>1. /\ Append(s, e) \in Seq(S) /\ DOMAIN Append(s, e) = 1..(Len(s) + 1) /\ Len(s) \in Nat
      /\ DOMAIN s = 1..Len(s) /\ Append(s, e)[Len(s) + 1] = e /\ Append(s, e) # <<>>
      /\ \A i \in 1..Len(s) : Append(s, e)[i] = s[i]
  OBVIOUS
<1>. QED
  BY <1>1 DEF ToSet

LEMMA SetOfConcat ==
  ASSUME NEW S, NEW s \in Seq(S), NEW t \in Seq(S)
  PROVE  s \o t \in Seq(S) /\ ToSet(s \o t) = ToSet(s) \cup ToSet(t)
<1>1. /\ s \o t \in Seq(S) /\ Len(s) \in Nat /\ Len(t) \in Nat
      /\ DOMAIN s = 1..Len(s) /\ DOMAIN t = 1..Len(t) /\ DOMAIN (s \o t) = 1..(Len(s) + Len(t))
      /\ \A i \in 1..Len(s) : (s \o t)[i] = s[i]
      /\ \A i \in 1..Len(t) : (s \o t)[Len(s) + i] = t[i]
  OBVIOUS
<1>2. ToSet(s \o t) \subseteq ToSet(s) \cup ToSet(t)
  <2>. SUFFICES ASSUME NEW i \in 1..(Len(s) + Len(t))
                PROVE  (s \o t)[i] \in ToSet(s) \cup ToSet(t)
    BY <1>1 DEF ToSet
  <2>1. CASE i \in 1..Len(s)
    BY <1>1, <2>1 DEF ToSet
  <2>2. CASE i \notin 1..Len(s)
    <3>1. i - Len(s) \in 1..Len(t) /\ i = Len(s) + (i - Len(s))
      BY <1>1, <2>2
    <3>. QED
      BY <1>1, <3>1 DEF ToSet
  <2>. QED
    BY <2>1, <2>2
<1>3. \A i \in 1..Len(s) : i \in 1..(Len(s) + Len(t))
  BY <1>1
<1>4. \A i \in 1..Len(t) : Len(s) + i \in 1..(Len(s) + Len(t))
  BY <1>1
<1>5. ToSet(s) \subseteq ToSet(s \o t) /\ ToSet(t) \subseteq ToSet(s \o t)
  BY <1>1, <1>3, <1>4 DEF ToSet
<1>. QED
  BY <1>1, <1>2, <1>5

LEMMA EventConcat ==
  ASSUME NEW s \in Seq(Event), NEW t \in Seq(Event)
  PROVE  s \o t \in Seq(Event) /\ ToSet(s \o t) = ToSet(s) \cup ToSet(t)
BY SetOfConcat

LEMMA SetOfTail ==
  ASSUME NEW S, NEW s \in Seq(S), s # <<>>
  PROVE  /\ Head(s) \in S /\ Tail(s) \in Seq(S) /\ ToSet(s) = {Head(s)} \cup ToSet(Tail(s))
         /\ Tail(s) = <<>> <=> Len(s) = 1
<1>1. /\ Len(s) \in Nat /\ Len(s) > 0 /\ DOMAIN s = 1..Len(s) /\ Head(s) = s[1] /\ Head(s) \in S
      /\ Tail(s) \in Seq(S) /\ Len(Tail(s)) = Len(s) - 1 /\ DOMAIN Tail(s) = 1..(Len(s) - 1)
      /\ \A i \in 1..(Len(s) - 1) : Tail(s)[i] = s[i + 1]
  OBVIOUS
<1>2. \A i \in 1..Len(s) : i = 1 \/ (i - 1 \in 1..(Len(s) - 1) /\ Tail(s)[i - 1] = s[i])
  BY <1>1
<1>3. ToSet(s) \subseteq {Head(s)} \cup ToSet(Tail(s))
  <2>. SUFFICES ASSUME NEW i \in 1..Len(s) PROVE s[i] \in {Head(s)} \cup ToSet(Tail(s))
    BY <1>1 DEF ToSet
  <2>. QED
    BY <1>1, <1>2 DEF ToSet
<1>4. {Head(s)} \cup ToSet(Tail(s)) \subseteq ToSet(s)
  BY <1>1 DEF ToSet
<1>5. Tail(s) = <<>> <=> Len(s) = 1
  <2>1. Tail(s) = <<>> <=> Len(Tail(s)) = 0
    BY <1>1, EmptySeq
  <2>. QED
    BY <1>1, <2>1
<1>. QED
  BY <1>1, <1>3, <1>4, <1>5

LEMMA SetOfSplit ==
  ASSUME NEW S, NEW s \in Seq(S), NEW n \in 0..Len(s)
  PROVE  /\ SubSeq(s, 1, n) \in Seq(S) /\ SubSeq(s, n + 1, Len(s)) \in Seq(S)
         /\ ToSet(s) = ToSet(SubSeq(s, 1, n)) \cup ToSet(SubSeq(s, n + 1, Len(s)))
         /\ Len(SubSeq(s, 1, n)) = n
<1>. DEFINE a == SubSeq(s, 1, n)
            b == SubSeq(s, n + 1, Len(s))
<1>1. /\ Len(s) \in Nat /\ n \in Nat /\ n <= Len(s) /\ DOMAIN s = 1..Len(s)
      /\ a \in Seq(S) /\ Len(a) = n /\ DOMAIN a = 1..n /\ \A i \in 1..n : a[i] = s[i]
  OBVIOUS
<1>2. /\ b \in Seq(S) /\ Len(b) = Len(s) - n /\ DOMAIN b = 1..(Len(s) - n)
      /\ \A i \in 1..(Len(s) - n) : b[i] = s[n + i]
  <2>1. \A i \in (n + 1)..Len(s) : s[i] \in S
    BY <1>1, ElementOfSeq
  <2>2. n + 1 \in Int /\ Len(s) \in Int
    BY <1>1
  <2>3. /\ b \in Seq(S) /\ Len(b) = IF n + 1 <= Len(s) THEN Len(s) - (n + 1) + 1 ELSE 0
        /\ \A i \in 1..(Len(s) - (n + 1) + 1) : b[i] = s[n + 1 + i - 1]
    BY <2>1, <2>2, SubSeqProperties
  <2>. HIDE DEF a, b
  <2>4. b \in Seq(S) /\ Len(b) = Len(s) - n
    <3>1. CASE n + 1 <= Len(s)
      BY <1>1, <2>3, <3>1
    <3>2. CASE ~(n + 1 <= Len(s))
      <4>1. Len(s) \in Nat /\ n \in Nat /\ n <= Len(s)
        BY <1>1
      <4>2. n = Len(s) /\ Len(s) - n = 0
        BY ONLY <3>2, <4>1
      <4>. QED
        BY <2>3, <3>2, <4>2
    <3>. QED
      BY <3>1, <3>2
  <2>5. DOMAIN b = 1..Len(b)
    BY <2>4, LenProperties
  <2>6. Len(s) - (n + 1) + 1 = Len(s) - n /\ \A i \in Int : n + 1 + i - 1 = n + i
    BY <1>1
  <2>. QED
    BY <2>3, <2>4, <2>5, <2>6
<1>. HIDE DEF a, b
<1>3. \A i \in 1..Len(s) : i \in 1..n \/ (i - n \in 1..(Len(s) - n) /\ b[i - n] = s[i])
  BY <1>1, <1>2
<1>4. ToSet(s) \subseteq ToSet(a) \cup ToSet(b)
  BY <1>1, <1>2, <1>3 DEF ToSet
<1>5. ToSet(a) \cup ToSet(b) \subseteq ToSet(s)
  <2>1. \A i \in 1..n : i \in 1..Len(s)
    BY <1>1
  <2>2. \A i \in 1..(Len(s) - n) : n + i \in 1..Len(s)
    BY <1>1
  <2>3. ToSet(a) \subseteq ToSet(s)
    BY <1>1, <2>1 DEF ToSet
  <2>4. ToSet(b) \subseteq ToSet(s)
    <3>. SUFFICES ASSUME NEW i \in 1..(Len(s) - n) PROVE b[i] \in ToSet(s)
      BY <1>2 DEF ToSet
    <3>1. b[i] = s[n + i] /\ n + i \in 1..Len(s)
      BY <1>2, <2>2
    <3>. QED
      BY <1>1, <3>1 DEF ToSet
  <2>. QED
    BY <2>3, <2>4
<1>. QED
  BY <1>1, <1>2, <1>4, <1>5 DEF a, b

LEMMA SetOfType ==
  ASSUME NEW S, NEW s \in Seq(S)
  PROVE  ToSet(s) \subseteq S
BY DEF ToSet

LEMMA WiderSeq ==
  ASSUME NEW S, NEW T, NEW s \in Seq(S)
  PROVE  s \in Seq(S \cup T)
OBVIOUS

-----------------------------------------------------------------------------
(* What is stored stays stored, and a fault is never forgotten.            *)
Grows == /\ \A table \in Table : ToSet(rows[table]) \subseteq ToSet(rows'[table])
         /\ ToSet(memory) \subseteq ToSet(memory')
         /\ faults <= faults'

LEMMA StoredStays ==
  ASSUME Grows
  PROVE  \A e : Stored(e) => Stored(e)'
BY DEF Grows, Stored, InTables, Table

LEMMA NothingMoves ==
  ASSUME TypeOK, UNCHANGED <<rows, memory, faults>>
  PROVE  Grows
<1>1. faults \in Nat
  BY DEF TypeOK
<1>. QED
  BY <1>1 DEF Grows

(* A report that a step does not touch.                                    *)
LEMMA ReportAside ==
  ASSUME TypeOK, TypeOK', Grows, NEW r \in Report, Reporting(r),
         stage'[r] = stage[r], todo'[r] = todo[r], shown'[r] = shown[r],
         due'[r] = due[r], held'[r] = held[r]
  PROVE  Reporting(r)'
<1>1. Owed(r)' = Owed(r)
  BY DEF Owed
<1>2. \A e : Stored(e) => Stored(e)'
  BY StoredStays
<1>3. faults > 0 => faults' > 0
  BY DEF TypeOK, Grows
<1>4. Shows(r) => Shows(r)'
  BY <1>1, <1>3 DEF Shows, Grows, Table
<1>. QED
  BY <1>1, <1>2, <1>4 DEF Reporting

LEMMA InsertFacts ==
  ASSUME TypeOK, NEW table \in Table, NEW new \in Seq(Event), NEW reply \in Reply,
         Insert(table, new, reply)
  PROVE  /\ rows' \in [Table -> Seq(Event \cup Foreign)] /\ unanswered' \in [Event -> Nat]
         /\ faults' \in 0..MaxFaults /\ faults <= faults'
         /\ \A t \in Table : ToSet(rows[t]) \subseteq ToSet(rows'[t])
         /\ reply = "ok" => table \in usable /\ ToSet(new) \subseteq ToSet(rows'[table])
         /\ reply # "ok" /\ table \in usable => faults' # 0
         /\ usable = {} => rows' = rows
<1>1. /\ rows \in [Table -> Seq(Event \cup Foreign)] /\ unanswered \in [Event -> Nat]
      /\ faults \in 0..MaxFaults /\ MaxFaults \in Nat /\ faults \in Nat
  BY TrackerAssumption DEF TypeOK
<1>2. CASE table \notin usable
  BY <1>1, <1>2 DEF Insert
<1>3. CASE table \in usable
  <2>1. Charged(reply)
    BY <1>3 DEF Insert
  <2>2. /\ faults' \in 0..MaxFaults /\ faults <= faults'
        /\ reply # "ok" => faults' # 0
    BY <1>1, <2>1 DEF Charged
  <2>3. unanswered' \in [Event -> Nat]
    <3>1. CASE reply # "lost"
      BY <1>1, <1>3, <3>1 DEF Insert
    <3>2. CASE reply = "lost"
      <4>. DEFINE add(e) == IF e \in ToSet(new) THEN 1 ELSE 0
      <4>1. \A e \in Event : add(e) \in Nat
        OBVIOUS
      <4>2. \A e \in Event : unanswered[e] + add(e) \in Nat
        <5>. HIDE DEF add
        <5>. QED
          BY <1>1, <4>1
      <4>3. unanswered' = [e \in Event |-> unanswered[e] + add(e)]
        BY <1>3, <3>2 DEF Insert
      <4>. HIDE DEF add
      <4>. QED
        BY <4>2, <4>3
    <3>. QED
      BY <3>1, <3>2
  <2>4. rows[table] \in Seq(Event \cup Foreign) /\ new \in Seq(Event \cup Foreign)
    BY <1>1, WiderSeq
  <2>5. /\ rows[table] \o new \in Seq(Event \cup Foreign)
        /\ ToSet(rows[table] \o new) = ToSet(rows[table]) \cup ToSet(new)
    BY <2>4, SetOfConcat
  <2>6. rows' = IF reply = "refused" THEN rows ELSE [rows EXCEPT ![table] = rows[table] \o new]
    BY <1>3 DEF Insert
  <2>7. /\ rows' \in [Table -> Seq(Event \cup Foreign)]
        /\ \A t \in Table : ToSet(rows[t]) \subseteq ToSet(rows'[t])
        /\ reply = "ok" => ToSet(new) \subseteq ToSet(rows'[table])
    <3>1. CASE reply = "refused"
      BY <1>1, <2>6, <3>1
    <3>2. CASE reply # "refused"
      BY <1>1, <2>5, <2>6, <3>2
    <3>. QED
      BY <3>1, <3>2
  <2>. QED
    BY <1>3, <2>2, <2>3, <2>7
<1>. QED
  BY <1>2, <1>3

-----------------------------------------------------------------------------
(* What each query of a task's write does: the events it leaves to be      *)
(* written are some of those there were, and the others are stored.        *)
Wrote(t) ==
  /\ Grows /\ Running(t)
  /\ UNCHANGED <<usable, queue, loop, batch, logs, stop, reports, tracked, rewritten, dropped>>
  /\ todo' \in [Task -> Seq(Event)] /\ todo' = [todo EXCEPT ![t] = todo'[t]]
  /\ stage' = [stage EXCEPT ![t] = stage'[t]]
  /\ stage[t] \in Writing /\ stage'[t] \in {"single", "legacy"} \cup {AfterFlush(t)}
  /\ stage'[t] \in Writing <=> todo'[t] # <<>>
  /\ ToSet(todo'[t]) \subseteq ToSet(todo[t])
  /\ \A e \in ToSet(todo[t]) : e \in ToSet(todo'[t]) \/ Stored(e)'

LEMMA Destinations ==
  ASSUME NEW t \in Task
  PROVE  /\ AfterFlush(t) \in {"idle", "read"} /\ AfterFlush(t) \notin Writing
         /\ t \in {Loop, Closer} => AfterFlush(t) = "idle"
         /\ t \in Report => AfterFlush(t) = "read"
BY TrackerAssumption DEF AfterFlush, Writing, Task

LEMMA FirstOfTodo ==
  ASSUME TypeOK, Flow, NEW t \in Task, stage[t] \in Writing
  PROVE  /\ todo[t] \in Seq(Event) /\ todo[t] # <<>> /\ Head(todo[t]) \in Event
         /\ Tail(todo[t]) \in Seq(Event)
         /\ ToSet(todo[t]) = {Head(todo[t])} \cup ToSet(Tail(todo[t]))
         /\ Tail(todo[t]) = <<>> <=> Len(todo[t]) = 1
         /\ <<Head(todo[t])>> \in Seq(Event) /\ ToSet(<<Head(todo[t])>>) = {Head(todo[t])}
<1>1. todo[t] \in Seq(Event) /\ todo[t] # <<>>
  BY DEF TypeOK, Flow
<1>2. /\ Head(todo[t]) \in Event /\ Tail(todo[t]) \in Seq(Event)
      /\ ToSet(todo[t]) = {Head(todo[t])} \cup ToSet(Tail(todo[t]))
      /\ Tail(todo[t]) = <<>> <=> Len(todo[t]) = 1
  BY <1>1, SetOfTail
<1>3. <<Head(todo[t])>> \in Seq(Event) /\ ToSet(<<Head(todo[t])>>) = {Head(todo[t])}
  BY <1>2 DEF ToSet
<1>. QED
  BY <1>1, <1>2, <1>3

LEMMA NextEventFacts ==
  ASSUME TypeOK, Flow, NEW t \in Task, stage[t] \in Writing, NextEvent(t)
  PROVE  /\ todo' \in [Task -> Seq(Event)] /\ todo' = [todo EXCEPT ![t] = todo'[t]]
         /\ todo'[t] = Tail(todo[t])
         /\ stage' = [stage EXCEPT ![t] = stage'[t]]
         /\ stage'[t] \in {"single", "legacy"} \cup {AfterFlush(t)}
         /\ stage'[t] \in Writing <=> todo'[t] # <<>>
         /\ stage'[t] # "legacy"
<1>1. todo \in [Task -> Seq(Event)] /\ DOMAIN stage = Task
  BY DEF TypeOK
<1>2. Tail(todo[t]) \in Seq(Event) /\ (Tail(todo[t]) = <<>> <=> Len(todo[t]) = 1)
  BY FirstOfTodo
<1>3. todo' = [todo EXCEPT ![t] = Tail(todo[t])]
  BY DEF NextEvent
<1>4. stage' = [stage EXCEPT ![t] = IF Len(todo[t]) = 1 THEN AfterFlush(t) ELSE "single"]
  BY DEF NextEvent
<1>5. /\ todo'[t] = Tail(todo[t])
      /\ stage'[t] = IF Len(todo[t]) = 1 THEN AfterFlush(t) ELSE "single"
  BY <1>1, <1>3, <1>4
<1>6. AfterFlush(t) \notin Writing /\ AfterFlush(t) # "legacy"
  BY Destinations
<1>. QED
  BY <1>1, <1>2, <1>3, <1>4, <1>5, <1>6 DEF Writing

LEMMA BatchWritten ==
  ASSUME TypeOK, Flow, NEW t \in Task, InsertBatch(t)
  PROVE  /\ Wrote(t) /\ memory' \in Seq(Event) /\ memory' = memory
         /\ rows' \in [Table -> Seq(Event \cup Foreign)] /\ unanswered' \in [Event -> Nat]
         /\ faults' \in 0..MaxFaults
         /\ usable = {} => rows' = rows
         /\ stage'[t] # "legacy"
<1>1. stage[t] = "bulk" /\ Running(t)
  BY DEF InsertBatch
<1>2. PICK reply \in Reply :
        /\ Insert("events", todo[t], reply)
        /\ IF reply = "ok"
           THEN /\ stage' = [stage EXCEPT ![t] = AfterFlush(t)]
                /\ todo' = [todo EXCEPT ![t] = <<>>]
           ELSE stage' = [stage EXCEPT ![t] = "single"] /\ UNCHANGED todo
  BY DEF InsertBatch
<1>3. /\ todo \in [Task -> Seq(Event)] /\ DOMAIN stage = Task /\ todo[t] # <<>>
      /\ memory \in Seq(Event) /\ "events" \in Table /\ todo[t] \in Seq(Event)
      /\ <<>> \in Seq(Event)
  BY <1>1 DEF TypeOK, Flow, Table, Writing
<1>4. /\ UNCHANGED <<usable, queue, loop, batch, logs, memory, stop, reports, tracked, rewritten, dropped>>
  BY DEF InsertBatch
<1>5. /\ rows' \in [Table -> Seq(Event \cup Foreign)] /\ unanswered' \in [Event -> Nat]
      /\ faults' \in 0..MaxFaults /\ faults <= faults'
      /\ \A table \in Table : ToSet(rows[table]) \subseteq ToSet(rows'[table])
      /\ reply = "ok" => ToSet(todo[t]) \subseteq ToSet(rows'["events"])
      /\ usable = {} => rows' = rows
  BY <1>2, <1>3, InsertFacts
<1>6. Grows
  BY <1>4, <1>5 DEF Grows
<1>7. AfterFlush(t) \notin Writing /\ AfterFlush(t) # "legacy"
  BY Destinations
<1>8. /\ todo' \in [Task -> Seq(Event)] /\ todo' = [todo EXCEPT ![t] = todo'[t]]
      /\ stage' = [stage EXCEPT ![t] = stage'[t]]
      /\ stage'[t] \in {"single", "legacy"} \cup {AfterFlush(t)}
      /\ stage'[t] \in Writing <=> todo'[t] # <<>>
      /\ ToSet(todo'[t]) \subseteq ToSet(todo[t])
      /\ \A e \in ToSet(todo[t]) : e \in ToSet(todo'[t]) \/ Stored(e)'
      /\ stage'[t] # "legacy"
  <2>1. CASE reply = "ok"
    <3>1. todo' = [todo EXCEPT ![t] = <<>>] /\ stage' = [stage EXCEPT ![t] = AfterFlush(t)]
      BY <1>2, <2>1
    <3>2. todo'[t] = <<>> /\ stage'[t] = AfterFlush(t)
      BY <1>3, <3>1
    <3>3. \A e \in ToSet(todo[t]) : Stored(e)'
      BY <1>5, <2>1 DEF Stored, InTables
    <3>. QED
      BY <1>3, <1>7, <3>1, <3>2, <3>3, SetOfEmpty
  <2>2. CASE reply # "ok"
    <3>1. todo' = todo /\ stage' = [stage EXCEPT ![t] = "single"]
      BY <1>2, <2>2
    <3>. QED
      BY <1>3, <3>1 DEF Writing
  <2>. QED
    BY <2>1, <2>2
<1>. QED
  BY <1>1, <1>3, <1>4, <1>5, <1>6, <1>8 DEF Wrote, Writing

LEMMA OneWritten ==
  ASSUME TypeOK, Flow, NEW t \in Task, InsertOne(t)
  PROVE  /\ Wrote(t) /\ memory' \in Seq(Event) /\ memory' = memory
         /\ rows' \in [Table -> Seq(Event \cup Foreign)] /\ unanswered' \in [Event -> Nat]
         /\ faults' \in 0..MaxFaults
         /\ usable = {} => rows' = rows
         /\ stage'[t] = "legacy" /\ faults' = 0 => "events" \notin usable
<1>1. stage[t] = "single" /\ stage[t] \in Writing /\ Running(t)
  BY DEF InsertOne, Writing
<1>0. PICK e0 \in Event : e0 = Head(todo[t])
  BY <1>1, FirstOfTodo
<1>2. PICK reply \in Reply :
        /\ Insert("events", <<e0>>, reply)
        /\ IF reply = "ok" THEN NextEvent(t)
           ELSE stage' = [stage EXCEPT ![t] = "legacy"] /\ UNCHANGED todo
  BY <1>0 DEF InsertOne
<1>3. /\ todo[t] # <<>> /\ <<e0>> \in Seq(Event) /\ ToSet(<<e0>>) = {e0}
      /\ ToSet(todo[t]) = {e0} \cup ToSet(Tail(todo[t]))
  BY <1>0, <1>1, FirstOfTodo
<1>4. /\ todo \in [Task -> Seq(Event)] /\ DOMAIN stage = Task
      /\ memory \in Seq(Event) /\ "events" \in Table
  BY DEF TypeOK, Table
<1>5. UNCHANGED <<usable, queue, loop, batch, logs, memory, stop, reports, tracked, rewritten, dropped>>
  BY DEF InsertOne
<1>6. /\ rows' \in [Table -> Seq(Event \cup Foreign)] /\ unanswered' \in [Event -> Nat]
      /\ faults' \in 0..MaxFaults /\ faults <= faults'
      /\ \A table \in Table : ToSet(rows[table]) \subseteq ToSet(rows'[table])
      /\ reply = "ok" => ToSet(<<e0>>) \subseteq ToSet(rows'["events"])
      /\ reply # "ok" /\ "events" \in usable => faults' # 0
      /\ usable = {} => rows' = rows
  BY <1>2, <1>3, <1>4, InsertFacts
<1>7. Grows
  BY <1>5, <1>6 DEF Grows
<1>8. /\ todo' \in [Task -> Seq(Event)] /\ todo' = [todo EXCEPT ![t] = todo'[t]]
      /\ stage' = [stage EXCEPT ![t] = stage'[t]]
      /\ stage'[t] \in {"single", "legacy"} \cup {AfterFlush(t)}
      /\ stage'[t] \in Writing <=> todo'[t] # <<>>
      /\ ToSet(todo'[t]) \subseteq ToSet(todo[t])
      /\ \A e \in ToSet(todo[t]) : e \in ToSet(todo'[t]) \/ Stored(e)'
      /\ stage'[t] = "legacy" /\ faults' = 0 => "events" \notin usable
  <2>1. CASE reply = "ok"
    <3>1. NextEvent(t)
      BY <1>2, <2>1
    <3>2. /\ todo' \in [Task -> Seq(Event)] /\ todo' = [todo EXCEPT ![t] = todo'[t]]
          /\ todo'[t] = Tail(todo[t])
          /\ stage' = [stage EXCEPT ![t] = stage'[t]]
          /\ stage'[t] \in {"single", "legacy"} \cup {AfterFlush(t)}
          /\ stage'[t] \in Writing <=> todo'[t] # <<>>
          /\ stage'[t] # "legacy"
      BY <1>1, <3>1, NextEventFacts
    <3>3. Stored(e0)'
      BY <1>3, <1>6, <2>1 DEF Stored, InTables
    <3>4. ToSet(todo'[t]) = ToSet(Tail(todo[t]))
      BY <3>2
    <3>5. \A e \in ToSet(todo[t]) : e \in ToSet(todo'[t]) \/ Stored(e)'
      BY <1>3, <3>3, <3>4
    <3>6. ToSet(todo'[t]) \subseteq ToSet(todo[t])
      BY <1>3, <3>4
    <3>. QED
      BY <3>2, <3>5, <3>6
  <2>2. CASE reply # "ok"
    <3>1. todo' = todo /\ stage' = [stage EXCEPT ![t] = "legacy"]
      BY <1>2, <2>2
    <3>. QED
      BY <1>3, <1>4, <1>6, <2>2, <3>1 DEF Writing
  <2>. QED
    BY <2>1, <2>2
<1>. QED
  BY <1>1, <1>4, <1>5, <1>6, <1>7, <1>8 DEF Wrote

LEMMA LegacyWritten ==
  ASSUME TypeOK, Flow, NEW t \in Task, InsertLegacy(t)
  PROVE  /\ Wrote(t) /\ memory' \in Seq(Event)
         /\ rows' \in [Table -> Seq(Event \cup Foreign)] /\ unanswered' \in [Event -> Nat]
         /\ faults' \in 0..MaxFaults
         /\ usable = {} => rows' = rows
         /\ stage'[t] # "legacy"
         /\ faults' = 0 /\ "bot_events" \in usable => memory' = memory
         /\ stage[t] = "legacy"
<1>1. stage[t] = "legacy" /\ stage[t] \in Writing /\ Running(t)
  BY DEF InsertLegacy, Writing
<1>0. PICK e0 \in Event : e0 = Head(todo[t])
  BY <1>1, FirstOfTodo
<1>2. PICK reply \in Reply :
        /\ Insert("bot_events", <<e0>>, reply)
        /\ memory' = IF reply = "ok" THEN memory ELSE Append(memory, e0)
  BY <1>0 DEF InsertLegacy
<1>3. /\ <<e0>> \in Seq(Event) /\ ToSet(<<e0>>) = {e0} /\ e0 \in Event
      /\ ToSet(todo[t]) = {e0} \cup ToSet(Tail(todo[t]))
  BY <1>0, <1>1, FirstOfTodo
<1>4. memory \in Seq(Event) /\ "bot_events" \in Table
  BY DEF TypeOK, Table
<1>5. UNCHANGED <<usable, queue, loop, batch, logs, stop, reports, tracked, rewritten, dropped>>
  BY DEF InsertLegacy
<1>6. /\ rows' \in [Table -> Seq(Event \cup Foreign)] /\ unanswered' \in [Event -> Nat]
      /\ faults' \in 0..MaxFaults /\ faults <= faults'
      /\ \A table \in Table : ToSet(rows[table]) \subseteq ToSet(rows'[table])
      /\ reply = "ok" => ToSet(<<e0>>) \subseteq ToSet(rows'["bot_events"])
      /\ reply # "ok" /\ "bot_events" \in usable => faults' # 0
      /\ usable = {} => rows' = rows
  BY <1>2, <1>3, <1>4, InsertFacts
<1>7. /\ memory' \in Seq(Event) /\ ToSet(memory) \subseteq ToSet(memory')
      /\ reply # "ok" => e0 \in ToSet(memory')
      /\ faults' = 0 /\ "bot_events" \in usable => memory' = memory
  <2>1. CASE reply = "ok"
    BY <1>2, <1>4, <2>1
  <2>2. CASE reply # "ok"
    BY <1>2, <1>3, <1>4, <1>6, <2>2, SetOfAppend
  <2>. QED
    BY <2>1, <2>2
<1>8. Grows
  BY <1>6, <1>7 DEF Grows
<1>9. Stored(e0)'
  BY <1>3, <1>6, <1>7 DEF Stored, InTables
<1>10. NextEvent(t)
  BY DEF InsertLegacy
<1>11. /\ todo' \in [Task -> Seq(Event)] /\ todo' = [todo EXCEPT ![t] = todo'[t]]
       /\ todo'[t] = Tail(todo[t])
       /\ stage' = [stage EXCEPT ![t] = stage'[t]]
       /\ stage'[t] \in {"single", "legacy"} \cup {AfterFlush(t)}
       /\ stage'[t] \in Writing <=> todo'[t] # <<>>
       /\ stage'[t] # "legacy"
  BY <1>1, <1>10, NextEventFacts
<1>12. \A e \in ToSet(todo[t]) : e \in ToSet(todo'[t]) \/ Stored(e)'
  BY <1>3, <1>9, <1>11
<1>. QED
  BY <1>1, <1>3, <1>5, <1>6, <1>7, <1>8, <1>11, <1>12 DEF Wrote

LEMMA WriteKeeps ==
  ASSUME IInv, NEW t \in Task, Write(t)
  PROVE  IInv'
<1>1. TypeOK /\ Flow /\ Batches /\ Clean /\ NoEventLost /\ \A r \in Report : Reporting(r)
  BY DEF IInv
<1>2. /\ Wrote(t) /\ memory' \in Seq(Event)
      /\ rows' \in [Table -> Seq(Event \cup Foreign)] /\ unanswered' \in [Event -> Nat]
      /\ faults' \in 0..MaxFaults /\ (usable = {} => rows' = rows)
      /\ stage'[t] = "legacy" /\ faults' = 0 => "events" \notin usable
      /\ \/ memory' = memory
         \/ stage[t] = "legacy" /\ (faults' = 0 => "bot_events" \notin usable)
  <2>1. CASE InsertBatch(t)
    BY <1>1, <2>1, BatchWritten
  <2>2. CASE InsertOne(t)
    BY <1>1, <2>2, OneWritten
  <2>3. CASE InsertLegacy(t)
    <3>1. /\ Wrote(t) /\ memory' \in Seq(Event)
          /\ rows' \in [Table -> Seq(Event \cup Foreign)] /\ unanswered' \in [Event -> Nat]
          /\ faults' \in 0..MaxFaults /\ (usable = {} => rows' = rows)
          /\ stage'[t] # "legacy" /\ stage[t] = "legacy"
          /\ faults' = 0 /\ "bot_events" \in usable => memory' = memory
      BY <1>1, <2>3, LegacyWritten
    <3>. QED
      BY <3>1
  <2>. QED
    BY <2>1, <2>2, <2>3 DEF Write
<1>3. /\ Grows /\ Running(t) /\ todo' \in [Task -> Seq(Event)]
      /\ stage[t] \in Writing /\ stage'[t] \in {"single", "legacy"} \cup {AfterFlush(t)}
      /\ stage'[t] \in Writing <=> todo'[t] # <<>>
      /\ ToSet(todo'[t]) \subseteq ToSet(todo[t])
      /\ \A e \in ToSet(todo[t]) : e \in ToSet(todo'[t]) \/ Stored(e)'
      /\ UNCHANGED <<usable, queue, loop, batch, logs, stop, shown, due, held, tracked, rewritten, dropped>>
  BY <1>2 DEF Wrote, reports
<1>4. \A u \in Task : u # t => stage'[u] = stage[u] /\ todo'[u] = todo[u]
  BY <1>1, <1>2 DEF Wrote, TypeOK
<1>5. \A e : Stored(e) => Stored(e)'
  BY <1>3, StoredStays
<1>6. DOMAIN stage = Task /\ DOMAIN stage' = Task /\ stage' = [stage EXCEPT ![t] = stage'[t]]
  BY <1>1, <1>2 DEF Wrote, TypeOK
<1>7. /\ AfterFlush(t) \in {"idle", "read"} /\ AfterFlush(t) \notin Writing
      /\ t \in {Loop, Closer} => AfterFlush(t) = "idle"
      /\ t \in Report => AfterFlush(t) = "read"
  BY Destinations
<1>8. TypeOK'
  <2>1. stage' \in [Task -> {"idle", "bulk", "single", "legacy", "read", "logs"}]
    BY <1>1, <1>3, <1>6, <1>7 DEF TypeOK
  <2>2. \A u \in {Loop, Closer} : stage'[u] \notin {"read", "logs"}
    BY <1>1, <1>3, <1>4, <1>7 DEF TypeOK, Task
  <2>. QED
    BY <1>1, <1>2, <1>3, <2>1, <2>2 DEF TypeOK
<1>9. Flow'
  <2>1. \A u \in Task : todo'[u] # <<>> <=> stage'[u] \in Writing
    BY <1>1, <1>3, <1>4 DEF Flow
  <2>2. stage'[Loop] # "idle" => loop' \in {"write", "last"}
    <3>1. CASE t = Loop
      BY <1>1, <1>3, <3>1 DEF Flow, Writing
    <3>2. CASE t # Loop
      BY <1>1, <1>3, <1>4, <3>2 DEF Flow, Task
    <3>. QED
      BY <3>1, <3>2
  <2>3. stop' # "flushing" => stage'[Closer] = "idle"
    <3>1. CASE t = Closer
      BY <1>3, <3>1, TrackerAssumption DEF Running
    <3>2. CASE t # Closer
      BY <1>1, <1>3, <1>4, <3>2 DEF Flow, Task
    <3>. QED
      BY <3>1, <3>2
  <2>4. stop' \notin {"up", "quitting"} => \A r \in Report : stage'[r] = "idle"
    <3>1. t \in Report => stop = "up"
      BY <1>3, TrackerAssumption DEF Running
    <3>. QED
      BY <1>1, <1>3, <1>4, <3>1 DEF Flow, Task
  <2>. QED
    BY <1>1, <1>3, <2>1, <2>2, <2>3, <2>4 DEF Flow
<1>10. Batches'
  <2>1. Loop \in Task
    BY DEF Task
  <2>2. \A e \in ToSet(todo[Loop]) : e \in ToSet(todo'[Loop]) \/ Stored(e)'
    BY <1>3, <1>4, <2>1
  <2>3. ToSet(todo'[Loop]) \subseteq ToSet(todo[Loop])
    BY <1>3, <1>4, <2>1
  <2>. QED
    BY <1>1, <1>3, <1>5, <2>2, <2>3 DEF Batches
<1>11. Clean'
  <2>1. faults' = 0 => faults = 0
    BY <1>1, <1>2, <1>3, TrackerAssumption DEF Grows, TypeOK
  <2>2. ASSUME faults' = 0, usable # {} PROVE memory' = <<>>
    <3>1. memory = <<>> /\ (stage[t] = "legacy" => "events" \notin usable)
      BY <1>1, <2>1, <2>2 DEF Clean
    <3>2. usable \subseteq Insertion /\ ("records" \in usable => "bot_events" \in usable)
      BY <1>1, TrackerAssumption DEF TypeOK
    <3>3. "events" \in usable \/ "bot_events" \in usable
      BY <2>2, <3>2 DEF Table, Insertion
    <3>. QED
      BY <1>2, <2>2, <3>1, <3>3
  <2>3. ASSUME faults' = 0, usable # {}, NEW u \in Task, stage'[u] = "legacy"
        PROVE  "events" \notin usable
    BY <1>1, <1>2, <1>4, <2>1, <2>3 DEF Clean
  <2>4. usable = {} => \A table \in Table : rows'[table] = <<>>
    BY <1>1, <1>2 DEF Clean
  <2>. QED
    BY <1>3, <2>2, <2>3, <2>4 DEF Clean
<1>12. NoEventLost'
  <2>. SUFFICES ASSUME NEW e \in 1..tracked
                PROVE  \/ e \in ToSet(queue) \cup ToSet(batch) \cup dropped
                       \/ \E u \in Task : e \in ToSet(todo'[u])
                       \/ Stored(e)'
    BY <1>3 DEF NoEventLost
  <2>1. \/ e \in ToSet(queue) \cup ToSet(batch) \cup dropped
        \/ \E u \in Task : e \in ToSet(todo[u])
        \/ Stored(e)
    BY <1>1 DEF NoEventLost
  <2>2. ASSUME NEW u \in Task, e \in ToSet(todo[u])
        PROVE  (\E v \in Task : e \in ToSet(todo'[v])) \/ Stored(e)'
    BY <1>3, <1>4, <2>2
  <2>. QED
    BY <1>5, <2>1, <2>2
<1>13. ASSUME NEW r \in Report PROVE Reporting(r)'
  <2>1. r \in Task /\ Reporting(r)
    BY <1>1 DEF Task
  <2>2. CASE r # t
    BY <1>1, <1>3, <1>4, <1>8, <2>1, <2>2, ReportAside
  <2>3. CASE r = t
    <3>1. stage'[r] \in Writing \cup {"read"} /\ stage[r] \in Writing
      BY <1>3, <1>7, <2>3 DEF Writing
    <3>2. shown'[r].from = "nowhere"
      BY <1>3, <2>1, <3>1 DEF Reporting
    <3>3. \A e \in Owed(r) : e \in ToSet(todo'[r]) \/ Stored(e)'
      BY <1>3, <1>5, <2>1, <2>3, <3>1 DEF Reporting
    <3>4. Owed(r)' = Owed(r)
      BY <1>3 DEF Owed
    <3>5. stage'[r] # "idle" /\ stage'[r] # "logs"
      BY <3>1 DEF Writing
    <3>. QED
      BY <3>1, <3>2, <3>3, <3>4, <3>5 DEF Reporting
  <2>. QED
    BY <2>2, <2>3
<1>. QED
  BY <1>8, <1>9, <1>10, <1>11, <1>12, <1>13 DEF IInv

-----------------------------------------------------------------------------
(* The steps of the loop between its writes, and of track.                 *)
LEMMA QuietKeeps ==
  ASSUME IInv, TypeOK', UNCHANGED <<usable, rows, memory, faults>>,
         \A t \in Task : stage'[t] = "legacy" => stage[t] = "legacy",
         \A r \in Report : /\ stage'[r] = stage[r] /\ todo'[r] = todo[r] /\ shown'[r] = shown[r]
                           /\ due'[r] = due[r] /\ held'[r] = held[r]
  PROVE  /\ Clean' /\ \A r \in Report : Reporting(r)'
         /\ \A e : Stored(e)' <=> Stored(e)
<1>1. TypeOK /\ Clean /\ \A r \in Report : Reporting(r)
  BY DEF IInv
<1>2. Grows
  BY <1>1, NothingMoves
<1>3. \A r \in Report : Reporting(r)'
  BY <1>1, <1>2, ReportAside
<1>4. Clean'
  BY <1>1 DEF Clean
<1>5. \A e : Stored(e)' <=> Stored(e)
  BY DEF Stored, InTables
<1>. QED
  BY <1>3, <1>4, <1>5

LEMMA FlushFacts ==
  ASSUME TypeOK, NEW t \in Task, NEW b \in Seq(Event), Flush(t, b)
  PROVE  /\ todo' \in [Task -> Seq(Event)] /\ todo'[t] = b
         /\ stage' \in [Task -> {"idle", "bulk", "single", "legacy", "read", "logs"}]
         /\ \A u \in {Loop, Closer} : stage'[u] \notin {"read", "logs"}
         /\ stage'[t] = IF b = <<>> THEN AfterFlush(t) ELSE "bulk"
         /\ stage'[t] \in Writing <=> todo'[t] # <<>>
         /\ \A u \in Task : u # t => todo'[u] = todo[u] /\ stage'[u] = stage[u]
         /\ \A u \in Task : stage'[u] = "legacy" => stage[u] = "legacy"
<1>1. /\ todo \in [Task -> Seq(Event)]
      /\ stage \in [Task -> {"idle", "bulk", "single", "legacy", "read", "logs"}]
      /\ \A u \in {Loop, Closer} : stage[u] \notin {"read", "logs"}
  BY DEF TypeOK
<1>2. /\ AfterFlush(t) \in {"idle", "read"} /\ AfterFlush(t) \notin Writing
      /\ t \in {Loop, Closer} => AfterFlush(t) = "idle"
  BY Destinations
<1>3. /\ todo' = [todo EXCEPT ![t] = b]
      /\ stage' = [stage EXCEPT ![t] = IF b = <<>> THEN AfterFlush(t) ELSE "bulk"]
  BY DEF Flush
<1>4. /\ todo' \in [Task -> Seq(Event)] /\ todo'[t] = b
      /\ stage' \in [Task -> {"idle", "bulk", "single", "legacy", "read", "logs"}]
      /\ stage'[t] = IF b = <<>> THEN AfterFlush(t) ELSE "bulk"
      /\ \A u \in Task : u # t => todo'[u] = todo[u] /\ stage'[u] = stage[u]
  BY <1>1, <1>2, <1>3
<1>5. \A u \in {Loop, Closer} : stage'[u] \notin {"read", "logs"}
  BY <1>1, <1>2, <1>4 DEF Task
<1>6. stage'[t] \in Writing <=> todo'[t] # <<>>
  BY <1>2, <1>4 DEF Writing
<1>7. \A u \in Task : stage'[u] = "legacy" => stage[u] = "legacy"
  BY <1>2, <1>4
<1>. QED
  BY <1>4, <1>5, <1>6, <1>7

LEMMA TrackKeeps ==
  ASSUME IInv, Track
  PROVE  IInv'
<1>1. TypeOK /\ Flow /\ Batches /\ NoEventLost
  BY DEF IInv
<1>2. tracked \in Nat /\ tracked' = tracked + 1 /\ tracked' \in Event /\ tracked' \in 0..MaxEvents
  BY <1>1, TrackerAssumption DEF Track, TypeOK, Event
<1>3. /\ queue' \in Seq(Event) /\ ToSet(queue') = ToSet(queue) \cup {tracked'}
  <2>. PICK new \in Event : new = tracked'
    BY <1>2
  <2>1. queue' = Append(queue, new) /\ queue \in Seq(Event)
    BY <1>1 DEF Track, TypeOK
  <2>. QED
    BY <2>1, SetOfAppend
<1>4. /\ UNCHANGED <<usable, batch, stage, todo, rows, logs, memory, stop, shown, due, held,
                     unanswered, rewritten, dropped, faults>>
      /\ stop = "up" /\ loop' = IF loop = "off" THEN "get" ELSE loop
  BY DEF Track, reports
<1>5. TypeOK'
  BY <1>1, <1>2, <1>3, <1>4 DEF TypeOK
<1>6. /\ Clean' /\ \A r \in Report : Reporting(r)'
      /\ \A e : Stored(e)' <=> Stored(e)
  BY <1>4, <1>5, QuietKeeps
<1>7. Flow'
  BY <1>1, <1>4 DEF Flow
<1>8. Batches'
  BY <1>1, <1>4, <1>6 DEF Batches
<1>9. NoEventLost'
  <2>1. \A e \in 1..tracked' : e \in 1..tracked \/ e = tracked'
    BY <1>2
  <2>. QED
    BY <1>1, <1>3, <1>4, <1>6, <2>1 DEF NoEventLost
<1>. QED
  BY <1>5, <1>6, <1>7, <1>8, <1>9 DEF IInv

LEMMA TakeKeeps ==
  ASSUME IInv, NEW n \in 0..Len(queue), Take(n), queue # <<>>, loop \in {"get", "collect"},
         UNCHANGED <<usable, rows, logs, memory, stop, reports, history, faults>>
  PROVE  IInv'
<1>1. TypeOK /\ Flow /\ Batches /\ NoEventLost
  BY DEF IInv
<1>2. queue \in Seq(Event) /\ batch \in Seq(Event)
  BY <1>1 DEF TypeOK
<1>3. /\ SubSeq(queue, 1, n) \in Seq(Event) /\ SubSeq(queue, n + 1, Len(queue)) \in Seq(Event)
      /\ ToSet(queue) = ToSet(SubSeq(queue, 1, n)) \cup ToSet(SubSeq(queue, n + 1, Len(queue)))
  BY <1>2, SetOfSplit
<1>4. batch' = batch \o SubSeq(queue, 1, n) /\ queue' = SubSeq(queue, n + 1, Len(queue))
  BY DEF Take
<1>5. /\ batch' \in Seq(Event) /\ queue' \in Seq(Event)
      /\ ToSet(queue) \subseteq ToSet(batch') \cup ToSet(queue') /\ ToSet(batch) \subseteq ToSet(batch')
  <2>. PICK a \in Seq(Event), b \in Seq(Event) : /\ a = SubSeq(queue, 1, n)
                                                 /\ b = SubSeq(queue, n + 1, Len(queue))
    BY <1>3
  <2>1. batch \o a \in Seq(Event) /\ ToSet(batch \o a) = ToSet(batch) \cup ToSet(a)
    <3>. PICK c \in Seq(Event) : c = batch
      BY <1>2
    <3>1. c \o a \in Seq(Event) /\ ToSet(c \o a) = ToSet(c) \cup ToSet(a)
      BY EventConcat
    <3>. QED
      BY <3>1
  <2>2. batch' = batch \o a /\ queue' = b /\ ToSet(queue) = ToSet(a) \cup ToSet(b)
    BY <1>3, <1>4
  <2>3. ToSet(batch') = ToSet(batch) \cup ToSet(a) /\ ToSet(queue') = ToSet(b)
    BY <2>1, <2>2
  <2>. QED
    BY <2>1, <2>2, <2>3
<1>6. Loop \in Task /\ stage[Loop] = "idle" /\ todo[Loop] = <<>> /\ stop \notin {"ending", "down"}
  BY <1>1 DEF Flow, Task, Writing
<1>7. /\ todo' \in [Task -> Seq(Event)]
      /\ stage' \in [Task -> {"idle", "bulk", "single", "legacy", "read", "logs"}]
      /\ \A u \in {Loop, Closer} : stage'[u] \notin {"read", "logs"}
      /\ stage'[Loop] \in Writing <=> todo'[Loop] # <<>>
      /\ \A u \in Task : u # Loop => todo'[u] = todo[u] /\ stage'[u] = stage[u]
      /\ \A u \in Task : stage'[u] = "legacy" => stage[u] = "legacy"
      /\ \/ loop' = "write" /\ todo'[Loop] = batch'
         \/ loop' = "collect" /\ todo'[Loop] = <<>> /\ stage'[Loop] = "idle"
  <2>1. CASE Flush(Loop, batch') /\ loop' = "write"
    <3>. PICK b \in Seq(Event) : b = batch'
      BY <1>5
    <3>1. Flush(Loop, b)
      BY <2>1
    <3>. QED
      BY <1>1, <1>6, <2>1, <3>1, FlushFacts
  <2>2. CASE UNCHANGED <<stage, todo>> /\ loop' = "collect"
    BY <1>1, <1>6, <2>2 DEF TypeOK, Writing
  <2>. QED
    BY <2>1, <2>2 DEF Take
<1>8. /\ loop' \in {"write", "collect"}
      /\ UNCHANGED <<usable, rows, logs, memory, stop, shown, due, held, tracked, unanswered,
                     rewritten, dropped, faults>>
  BY <1>7 DEF reports, history
<1>9. TypeOK'
  BY <1>1, <1>5, <1>7, <1>8 DEF TypeOK
<1>10. \A r \in Report : r \in Task /\ r # Loop /\ stage'[r] = stage[r] /\ todo'[r] = todo[r]
  BY <1>7, TrackerAssumption DEF Task
<1>11. /\ Clean' /\ \A r \in Report : Reporting(r)'
       /\ \A e : Stored(e)' <=> Stored(e)
  BY <1>7, <1>8, <1>9, <1>10, QuietKeeps
<1>12. Flow'
  <2>1. \A u \in Task : todo'[u] # <<>> <=> stage'[u] \in Writing
    BY <1>1, <1>7 DEF Flow
  <2>2. Closer \in Task /\ stage'[Closer] = stage[Closer]
    BY <1>7, TrackerAssumption DEF Task
  <2>3. stage'[Loop] # "idle" => loop' \in {"write", "last"}
    BY <1>7
  <2>. QED
    BY <1>1, <1>6, <1>8, <1>10, <2>1, <2>2, <2>3 DEF Flow
<1>13. Batches'
  BY <1>7, SetOfEmpty DEF Batches
<1>14. NoEventLost'
  <2>1. \A u \in Task : u = Loop => ToSet(todo[u]) = {}
    BY <1>6, SetOfEmpty
  <2>. QED
    BY <1>1, <1>5, <1>7, <1>8, <1>11, <2>1 DEF NoEventLost
<1>. QED
  BY <1>9, <1>11, <1>12, <1>13, <1>14 DEF IInv

LEMMA GetKeeps ==
  ASSUME IInv, GetFirst \/ GetMore
  PROVE  IInv'
<1>1. queue \in Seq(Event) /\ BatchSize \in Nat \ {0} /\ Len(queue) \in Nat
  BY TrackerAssumption DEF IInv, TypeOK
<1>2. queue # <<>> => 1 \in 0..Len(queue)
  BY <1>1
<1>3. (IF Len(queue) < BatchSize THEN Len(queue) ELSE BatchSize) \in 0..Len(queue)
  BY <1>1
<1>4. CASE GetFirst
  BY <1>3, <1>4, TakeKeeps DEF GetFirst
<1>5. CASE GetMore
  BY <1>2, <1>5, TakeKeeps DEF GetMore
<1>. QED
  BY <1>4, <1>5

LEMMA IntervalOverKeeps ==
  ASSUME IInv, IntervalOver
  PROVE  IInv'
<1>1. TypeOK /\ Flow /\ Batches /\ NoEventLost
  BY DEF IInv
<1>2. /\ loop = "collect" /\ loop' = "write" /\ Flush(Loop, batch) /\ batch \in Seq(Event)
      /\ UNCHANGED <<usable, queue, batch, rows, logs, memory, stop, shown, due, held, tracked,
                     unanswered, rewritten, dropped, faults>>
  BY <1>1 DEF IntervalOver, reports, history, TypeOK
<1>3. Loop \in Task /\ stage[Loop] = "idle" /\ todo[Loop] = <<>>
  BY <1>1, <1>2 DEF Flow, Task, Writing
<1>4. /\ todo' \in [Task -> Seq(Event)] /\ todo'[Loop] = batch
      /\ stage' \in [Task -> {"idle", "bulk", "single", "legacy", "read", "logs"}]
      /\ \A u \in {Loop, Closer} : stage'[u] \notin {"read", "logs"}
      /\ stage'[Loop] \in Writing <=> todo'[Loop] # <<>>
      /\ \A u \in Task : u # Loop => todo'[u] = todo[u] /\ stage'[u] = stage[u]
      /\ \A u \in Task : stage'[u] = "legacy" => stage[u] = "legacy"
  BY <1>1, <1>2, <1>3, FlushFacts
<1>5. TypeOK'
  BY <1>1, <1>2, <1>4 DEF TypeOK
<1>6. \A r \in Report : r \in Task /\ r # Loop /\ stage'[r] = stage[r] /\ todo'[r] = todo[r]
  BY <1>4, TrackerAssumption DEF Task
<1>7. /\ Clean' /\ \A r \in Report : Reporting(r)'
      /\ \A e : Stored(e)' <=> Stored(e)
  BY <1>2, <1>4, <1>5, <1>6, QuietKeeps
<1>8. Flow'
  <2>1. \A u \in Task : todo'[u] # <<>> <=> stage'[u] \in Writing
    BY <1>1, <1>4 DEF Flow
  <2>2. Closer \in Task /\ stage'[Closer] = stage[Closer]
    BY <1>4, TrackerAssumption DEF Task
  <2>. QED
    BY <1>1, <1>2, <1>6, <2>1, <2>2 DEF Flow
<1>9. Batches'
  BY <1>2, <1>4 DEF Batches
<1>10. NoEventLost'
  <2>1. \A u \in Task : u = Loop => ToSet(todo[u]) = {}
    BY <1>3, SetOfEmpty
  <2>. QED
    BY <1>1, <1>2, <1>4, <1>7, <2>1 DEF NoEventLost
<1>. QED
  BY <1>5, <1>7, <1>8, <1>9, <1>10 DEF IInv

LEMMA FlushedKeeps ==
  ASSUME IInv, Flushed
  PROVE  IInv'
<1>1. TypeOK /\ Flow /\ Batches /\ NoEventLost
  BY DEF IInv
<1>2. /\ loop \in {"write", "last"} /\ stage[Loop] = "idle"
      /\ loop' = IF loop = "last" THEN "ended" ELSE "get"
      /\ batch' = <<>>
      /\ UNCHANGED <<usable, queue, stage, todo, rows, logs, memory, stop, shown, due, held,
                     tracked, unanswered, rewritten, dropped, faults>>
  BY DEF Flushed, reports, history
<1>3. Loop \in Task /\ todo[Loop] = <<>>
  BY <1>1, <1>2 DEF Flow, Task, Writing
<1>4. TypeOK'
  BY <1>1, <1>2 DEF TypeOK
<1>5. /\ Clean' /\ \A r \in Report : Reporting(r)'
      /\ \A e : Stored(e)' <=> Stored(e)
  BY <1>2, <1>4, QuietKeeps
<1>6. Flow'
  BY <1>1, <1>2 DEF Flow
<1>7. Batches'
  BY <1>2, <1>3, SetOfEmpty DEF Batches
<1>8. NoEventLost'
  <2>1. \A e \in ToSet(batch) : Stored(e)
    BY <1>1, <1>2, <1>3, SetOfEmpty DEF Batches
  <2>2. ToSet(batch') = {}
    BY <1>2, SetOfEmpty
  <2>. QED
    BY <1>1, <1>2, <1>5, <2>1, <2>2 DEF NoEventLost
<1>. QED
  BY <1>4, <1>5, <1>6, <1>7, <1>8 DEF IInv

-----------------------------------------------------------------------------
(* The steps of a report and of the ending process.                        *)
LEMMA BeginReportKeeps ==
  ASSUME IInv, NEW r \in Report, BeginReport(r)
  PROVE  IInv'
<1>1. TypeOK /\ Flow /\ Batches /\ Clean /\ NoEventLost /\ \A s \in Report : Reporting(s)
  BY DEF IInv
<1>2. /\ stop = "up" /\ stage[r] = "idle" /\ shown[r] = Unread
      /\ Flush(r, queue) /\ queue' = <<>> /\ queue \in Seq(Event)
      /\ due' = [due EXCEPT ![r] = tracked]
      /\ held' = [held EXCEPT ![r] = Held(r)]
      /\ UNCHANGED <<usable, loop, batch, rows, logs, memory, stop, shown, tracked, unanswered,
                     rewritten, dropped, faults>>
  BY <1>1 DEF BeginReport, FlushEvents, history, TypeOK
<1>3. r \in Task /\ r # Loop /\ r # Closer /\ Loop \in Task /\ Closer \in Task /\ todo[r] = <<>>
  BY <1>1, <1>2, TrackerAssumption DEF Flow, Task, Writing
<1>4. /\ todo' \in [Task -> Seq(Event)] /\ todo'[r] = queue
      /\ stage' \in [Task -> {"idle", "bulk", "single", "legacy", "read", "logs"}]
      /\ \A u \in {Loop, Closer} : stage'[u] \notin {"read", "logs"}
      /\ stage'[r] = IF queue = <<>> THEN AfterFlush(r) ELSE "bulk"
      /\ stage'[r] \in Writing <=> todo'[r] # <<>>
      /\ \A u \in Task : u # r => todo'[u] = todo[u] /\ stage'[u] = stage[u]
      /\ \A u \in Task : stage'[u] = "legacy" => stage[u] = "legacy"
  BY <1>1, <1>2, <1>3, FlushFacts
<1>5. stage'[r] \in {"read", "bulk"}
  BY <1>3, <1>4, Destinations
<1>6. /\ Held(r) \subseteq Event /\ tracked \in 0..MaxEvents
  <2>1. \A u \in Task : ToSet(todo[u]) \subseteq Event
    BY <1>1, SetOfType DEF TypeOK
  <2>2. ToSet(batch) \subseteq Event
    BY <1>1, SetOfType DEF TypeOK
  <2>. QED
    BY <1>1, <2>1, <2>2 DEF Held, TypeOK
<1>7. TypeOK'
  BY <1>1, <1>2, <1>4, <1>6 DEF TypeOK
<1>8. Grows /\ \A e : Stored(e)' <=> Stored(e)
  BY <1>1, <1>2, NothingMoves DEF Stored, InTables
<1>9. Flow'
  <2>1. \A u \in Task : todo'[u] # <<>> <=> stage'[u] \in Writing
    BY <1>1, <1>4 DEF Flow
  <2>2. stage'[Loop] = stage[Loop] /\ stage'[Closer] = stage[Closer]
    BY <1>3, <1>4
  <2>. QED
    BY <1>1, <1>2, <2>1, <2>2 DEF Flow
<1>10. Batches'
  <2>1. todo'[Loop] = todo[Loop]
    BY <1>3, <1>4
  <2>. QED
    BY <1>1, <1>2, <1>8, <2>1 DEF Batches
<1>11. Clean'
  BY <1>1, <1>2, <1>4 DEF Clean
<1>12. NoEventLost'
  <2>1. \A u \in Task : u = r => ToSet(todo[u]) = {}
    BY <1>3, SetOfEmpty
  <2>2. \A e \in ToSet(queue) : e \in ToSet(todo'[r])
    BY <1>4
  <2>. QED
    BY <1>1, <1>2, <1>3, <1>4, <1>8, <2>1, <2>2 DEF NoEventLost
<1>13. ASSUME NEW s \in Report PROVE Reporting(s)'
  <2>1. CASE s # r
    <3>1. /\ stage'[s] = stage[s] /\ todo'[s] = todo[s] /\ shown'[s] = shown[s]
          /\ due'[s] = due[s] /\ held'[s] = held[s] /\ Reporting(s)
      BY <1>1, <1>2, <1>4, <2>1 DEF Task, TypeOK
    <3>. QED
      BY <1>1, <1>7, <1>8, <3>1, ReportAside
  <2>2. CASE s = r
    <3>1. due'[r] = tracked /\ held'[r] = Held(r)
      BY <1>1, <1>2 DEF TypeOK
    <3>2. ASSUME NEW e \in 1..tracked, e \notin Held(r)
          PROVE  e \in ToSet(todo'[r]) \/ Stored(e)'
      <4>1. \/ e \in ToSet(queue) \cup ToSet(batch) \cup dropped
            \/ \E u \in Task : e \in ToSet(todo[u])
            \/ Stored(e)
        BY <1>1 DEF NoEventLost
      <4>2. e \notin ToSet(batch) /\ \A u \in Task : u # r => e \notin ToSet(todo[u])
        BY <3>2 DEF Held
      <4>3. dropped = {} /\ e \notin ToSet(todo[r])
        BY <1>1, <1>2, <1>3, SetOfEmpty DEF Flow
      <4>. QED
        BY <1>4, <1>8, <4>1, <4>2, <4>3
    <3>3. Owed(r)' = 1..tracked \ Held(r)
      BY <3>1 DEF Owed
    <3>4. shown'[r].from = "nowhere"
      BY <1>2 DEF Unread
    <3>5. \A e \in Owed(r)' : e \in ToSet(todo'[r]) \/ Stored(e)'
      BY <3>2, <3>3
    <3>. QED
      BY <1>5, <2>2, <3>4, <3>5 DEF Reporting
  <2>. QED
    BY <2>1, <2>2
<1>. QED
  BY <1>7, <1>9, <1>10, <1>11, <1>12, <1>13 DEF IInv

LEMMA ChargedFacts ==
  ASSUME TypeOK, NEW reply \in Reply, Charged(reply)
  PROVE  /\ faults' \in 0..MaxFaults /\ faults <= faults'
         /\ reply # "ok" => faults' > 0
BY TrackerAssumption DEF TypeOK, Charged

(* A report moves from one read to the next, or ends.                      *)
LEMMA ReadKeeps ==
  ASSUME IInv, NEW r \in Report, TypeOK', stage[r] \in {"read", "logs"},
         stage' = [stage EXCEPT ![r] = stage'[r]], stage'[r] \in {"logs", "idle"},
         shown' = [shown EXCEPT ![r] = shown'[r]], Shows(r)', Running(r),
         faults <= faults',
         UNCHANGED <<usable, queue, loop, batch, todo, rows, logs, memory, stop, due, held, history>>
  PROVE  IInv'
<1>1. TypeOK /\ Flow /\ Batches /\ Clean /\ NoEventLost /\ \A s \in Report : Reporting(s)
  BY DEF IInv
<1>2. r \in Task /\ r # Loop /\ r # Closer /\ Loop \in Task /\ Closer \in Task /\ stop = "up"
  BY TrackerAssumption DEF Running, Task
<1>3. \A u \in Task : u # r => stage'[u] = stage[u]
  BY <1>1 DEF TypeOK
<1>4. Grows /\ \A e : Stored(e)' <=> Stored(e)
  BY <1>1 DEF Grows, Stored, InTables
<1>5. Flow'
  <2>1. \A u \in Task : todo'[u] # <<>> <=> stage'[u] \in Writing
    BY <1>1, <1>2, <1>3 DEF Flow, Writing
  <2>2. stage'[Loop] = stage[Loop] /\ stage'[Closer] = stage[Closer]
    BY <1>2, <1>3
  <2>. QED
    BY <1>1, <1>2, <2>1, <2>2 DEF Flow, history
<1>6. Batches'
  BY <1>1, <1>4 DEF Batches
<1>7. Clean'
  <2>1. faults' = 0 => faults = 0
    BY <1>1 DEF TypeOK
  <2>2. \A u \in Task : stage'[u] = "legacy" => stage[u] = "legacy"
    BY <1>2, <1>3
  <2>. QED
    BY <1>1, <2>1, <2>2 DEF Clean
<1>8. NoEventLost'
  BY <1>1, <1>4 DEF NoEventLost, history
<1>9. ASSUME NEW s \in Report PROVE Reporting(s)'
  <2>1. CASE s # r
    <3>1. /\ stage'[s] = stage[s] /\ todo'[s] = todo[s] /\ shown'[s] = shown[s]
          /\ due'[s] = due[s] /\ held'[s] = held[s] /\ Reporting(s)
      BY <1>1, <1>2, <1>3, <2>1 DEF Task, TypeOK
    <3>. QED
      BY <1>1, <1>4, <3>1, ReportAside
  <2>2. CASE s = r
    BY <2>2 DEF Reporting, Writing
  <2>. QED
    BY <2>1, <2>2
<1>. QED
  BY <1>5, <1>6, <1>7, <1>8, <1>9 DEF IInv

LEMMA ReadEventsKeeps ==
  ASSUME IInv, NEW r \in Report, ReadEvents(r)
  PROVE  IInv'
<1>1. TypeOK /\ Flow /\ Clean /\ Reporting(r) /\ r \in Task
  BY DEF IInv, Task
<1>2. PICK reply \in {"ok", "refused"} :
       /\ IF usable = {} THEN reply = "refused" /\ UNCHANGED faults ELSE Charged(reply)
       /\ IF reply = "ok"
          THEN /\ stage' = [stage EXCEPT ![r] = "logs"]
               /\ shown' = [shown EXCEPT ![r].events = rows["bot_events"], ![r].from = "database"]
          ELSE /\ stage' = [stage EXCEPT ![r] = "idle"]
               /\ shown' = [shown EXCEPT ![r].events = memory, ![r].from = "memory"]
  BY DEF ReadEvents
<1>3. /\ Running(r) /\ stage[r] = "read"
      /\ UNCHANGED <<usable, queue, loop, batch, todo, rows, logs, memory, stop, due, held, history>>
  BY DEF ReadEvents
<1>4. /\ faults \in 0..MaxFaults /\ MaxFaults \in Nat /\ reply \in Reply
      /\ shown \in [Report -> [events : Seq(Event \cup Foreign), gens : Seq(Foreign),
                               from : {"nowhere", "database", "memory"}]]
      /\ stage \in [Task -> {"idle", "bulk", "single", "legacy", "read", "logs"}]
      /\ rows["bot_events"] \in Seq(Event \cup Foreign) /\ memory \in Seq(Event \cup Foreign)
  BY <1>1, TrackerAssumption, WiderSeq DEF TypeOK, Table, Reply
<1>5. /\ faults' \in 0..MaxFaults /\ faults <= faults'
      /\ usable # {} /\ reply # "ok" => faults' > 0
  <2>1. CASE usable = {}
    BY <1>2, <1>4, <2>1
  <2>2. CASE usable # {}
    BY <1>1, <1>2, <1>4, <2>2, ChargedFacts
  <2>. QED
    BY <2>1, <2>2
<1>6. /\ stage' = [stage EXCEPT ![r] = stage'[r]] /\ stage'[r] \in {"logs", "idle"}
      /\ shown' = [shown EXCEPT ![r] = shown'[r]]
      /\ shown'[r] \in [events : Seq(Event \cup Foreign), gens : Seq(Foreign),
                        from : {"nowhere", "database", "memory"}]
      /\ shown'[r].events = IF reply = "ok" THEN rows["bot_events"] ELSE memory
  <2>1. PICK read \in Seq(Event \cup Foreign), from \in {"database", "memory"} :
          /\ shown' = [shown EXCEPT ![r].events = read, ![r].from = from]
          /\ read = IF reply = "ok" THEN rows["bot_events"] ELSE memory
    BY <1>2, <1>4
  <2>2. shown' = [shown EXCEPT ![r] = [shown[r] EXCEPT !.events = read, !.from = from]]
    BY <1>4, <2>1
  <2>3. shown'[r] = [shown[r] EXCEPT !.events = read, !.from = from]
    BY <1>4, <2>2
  <2>4. /\ shown[r] \in [events : Seq(Event \cup Foreign), gens : Seq(Foreign),
                         from : {"nowhere", "database", "memory"}]
    BY <1>4
  <2>5. /\ shown'[r] \in [events : Seq(Event \cup Foreign), gens : Seq(Foreign),
                          from : {"nowhere", "database", "memory"}]
        /\ shown'[r].events = read
    BY <2>3, <2>4
  <2>6. stage' = [stage EXCEPT ![r] = stage'[r]] /\ stage'[r] \in {"logs", "idle"}
    BY <1>1, <1>2, <1>4
  <2>. QED
    BY <2>1, <2>2, <2>3, <2>5, <2>6
<1>7. TypeOK'
  <2>1. /\ stage' \in [Task -> {"idle", "bulk", "single", "legacy", "read", "logs"}]
        /\ shown' \in [Report -> [events : Seq(Event \cup Foreign), gens : Seq(Foreign),
                                  from : {"nowhere", "database", "memory"}]]
    BY <1>4, <1>6
  <2>2. \A u \in {Loop, Closer} : stage'[u] \notin {"read", "logs"}
    BY <1>1, <1>4, <1>6, TrackerAssumption DEF TypeOK, Task
  <2>. QED
    BY <1>1, <1>3, <1>5, <2>1, <2>2 DEF TypeOK, history
<1>8. Shows(r)'
  <2>. SUFFICES ASSUME NEW e \in Owed(r)
                PROVE  \/ e \in ToSet(shown'[r].events) \cup ToSet(rows["events"])
                       \/ faults' > 0
    BY <1>3 DEF Shows, Owed
  <2>1. Stored(e)
    <3>1. todo[r] = <<>>
      BY <1>1, <1>3 DEF Flow, Writing
    <3>. QED
      BY <1>1, <1>3, <3>1, SetOfEmpty DEF Reporting
  <2>2. \/ e \in ToSet(rows["events"]) \/ e \in ToSet(rows["bot_events"]) \/ e \in ToSet(memory)
    BY <2>1 DEF Stored, InTables
  <2>3. CASE usable = {}
    <3>1. rows["events"] = <<>> /\ rows["bot_events"] = <<>> /\ reply # "ok"
      BY <1>1, <1>2, <2>3 DEF Clean, Table
    <3>. QED
      BY <1>6, <2>2, <3>1, SetOfEmpty
  <2>4. CASE usable # {} /\ faults = 0
    <3>1. memory = <<>>
      BY <1>1, <2>4 DEF Clean
    <3>. QED
      BY <1>5, <1>6, <2>2, <2>4, <3>1, SetOfEmpty
  <2>5. CASE faults # 0
    BY <1>4, <1>5, <2>5
  <2>. QED
    BY <2>3, <2>4, <2>5
<1>. QED
  BY <1>3, <1>5, <1>6, <1>7, <1>8, ReadKeeps

LEMMA ReadLogsKeeps ==
  ASSUME IInv, NEW r \in Report, ReadLogs(r)
  PROVE  IInv'
<1>1. TypeOK /\ Flow /\ Clean /\ Reporting(r) /\ r \in Task
  BY DEF IInv, Task
<1>2. PICK reply \in {"ok", "refused"} :
       /\ Charged(reply)
       /\ shown' = IF reply = "ok" THEN [shown EXCEPT ![r].gens = logs]
                   ELSE [shown EXCEPT ![r].events = memory, ![r].from = "memory"]
  BY DEF ReadLogs
<1>3. /\ Running(r) /\ stage[r] = "logs" /\ stage' = [stage EXCEPT ![r] = "idle"]
      /\ UNCHANGED <<usable, queue, loop, batch, todo, rows, logs, memory, stop, due, held, history>>
  BY DEF ReadLogs
<1>4. /\ reply \in Reply /\ logs \in Seq(Foreign)
      /\ shown \in [Report -> [events : Seq(Event \cup Foreign), gens : Seq(Foreign),
                               from : {"nowhere", "database", "memory"}]]
      /\ stage \in [Task -> {"idle", "bulk", "single", "legacy", "read", "logs"}]
      /\ memory \in Seq(Event \cup Foreign)
  BY <1>1, WiderSeq DEF TypeOK, Reply
<1>5. /\ faults' \in 0..MaxFaults /\ faults <= faults' /\ (reply # "ok" => faults' > 0)
  BY <1>1, <1>2, <1>4, ChargedFacts
<1>6. /\ stage' = [stage EXCEPT ![r] = stage'[r]] /\ stage'[r] = "idle"
      /\ shown' = [shown EXCEPT ![r] = shown'[r]]
      /\ shown'[r] \in [events : Seq(Event \cup Foreign), gens : Seq(Foreign),
                        from : {"nowhere", "database", "memory"}]
      /\ reply = "ok" => shown'[r].events = shown[r].events
  <2>1. CASE reply = "ok"
    BY <1>1, <1>2, <1>3, <1>4, <2>1
  <2>2. CASE reply # "ok"
    BY <1>1, <1>2, <1>3, <1>4, <2>2
  <2>. QED
    BY <2>1, <2>2
<1>7. TypeOK'
  <2>1. /\ stage' \in [Task -> {"idle", "bulk", "single", "legacy", "read", "logs"}]
        /\ shown' \in [Report -> [events : Seq(Event \cup Foreign), gens : Seq(Foreign),
                                  from : {"nowhere", "database", "memory"}]]
    BY <1>3, <1>4, <1>6
  <2>2. \A u \in {Loop, Closer} : stage'[u] \notin {"read", "logs"}
    BY <1>1, <1>3, <1>4, <1>6 DEF TypeOK, Task
  <2>. QED
    BY <1>1, <1>3, <1>5, <2>1, <2>2 DEF TypeOK, history
<1>8. Shows(r)'
  <2>1. Shows(r)
    BY <1>1, <1>3 DEF Reporting
  <2>2. Owed(r)' = Owed(r) /\ rows' = rows
    BY <1>3 DEF Owed
  <2>3. CASE reply = "ok"
    <3>1. shown'[r].events = shown[r].events
      BY <1>6, <2>3
    <3>2. faults > 0 => faults' > 0
      BY <1>1, <1>5 DEF TypeOK
    <3>. QED
      BY <2>1, <2>2, <3>1, <3>2 DEF Shows
  <2>4. CASE reply # "ok"
    BY <1>5, <2>4 DEF Shows
  <2>. QED
    BY <2>3, <2>4
<1>. QED
  BY <1>3, <1>5, <1>6, <1>7, <1>8, ReadKeeps

LEMMA RecordElsewhereKeeps ==
  ASSUME IInv, NEW f \in Foreign, RecordElsewhere(f)
  PROVE  IInv'
<1>1. TypeOK /\ Flow /\ Batches /\ Clean /\ NoEventLost /\ \A r \in Report : Reporting(r)
  BY DEF IInv
<1>2. /\ "bot_events" \in usable
      /\ rows' = [rows EXCEPT !["bot_events"] = Append(rows["bot_events"], f)]
      /\ UNCHANGED <<usable, queue, loop, batch, stage, todo, logs, memory, stop, shown, due, held,
                     tracked, unanswered, rewritten, dropped, faults>>
  BY DEF RecordElsewhere, reports, history
<1>3. rows \in [Table -> Seq(Event \cup Foreign)] /\ "bot_events" \in Table
  BY <1>1 DEF TypeOK, Table
<1>4. /\ rows["bot_events"] \in Seq(Event \cup Foreign) /\ f \in Event \cup Foreign
  BY <1>3
<1>5. /\ Append(rows["bot_events"], f) \in Seq(Event \cup Foreign)
      /\ ToSet(Append(rows["bot_events"], f)) = ToSet(rows["bot_events"]) \cup {f}
  BY <1>4, SetOfAppend
<1>6. /\ rows' \in [Table -> Seq(Event \cup Foreign)]
      /\ \A table \in Table : ToSet(rows[table]) \subseteq ToSet(rows'[table])
  BY <1>2, <1>3, <1>5
<1>7. TypeOK'
  BY <1>1, <1>2, <1>6 DEF TypeOK
<1>8. Grows
  <2>1. faults \in Nat
    BY <1>1 DEF TypeOK
  <2>. QED
    BY <1>2, <1>6, <2>1 DEF Grows
<1>9. \A e : Stored(e) => Stored(e)'
  BY <1>8, StoredStays
<1>10. Flow'
  BY <1>1, <1>2 DEF Flow
<1>11. Batches'
  BY <1>1, <1>2, <1>9 DEF Batches
<1>12. Clean'
  BY <1>1, <1>2 DEF Clean
<1>13. NoEventLost'
  BY <1>1, <1>2, <1>9 DEF NoEventLost
<1>14. \A r \in Report : Reporting(r)'
  BY <1>1, <1>2, <1>7, <1>8, ReportAside
<1>. QED
  BY <1>7, <1>10, <1>11, <1>12, <1>13, <1>14 DEF IInv

LEMMA LogElsewhereKeeps ==
  ASSUME IInv, NEW f \in Foreign, LogElsewhere(f)
  PROVE  IInv'
<1>1. TypeOK /\ Flow /\ Batches /\ Clean /\ NoEventLost /\ \A r \in Report : Reporting(r)
  BY DEF IInv
<1>2. /\ logs' = Append(logs, f)
      /\ UNCHANGED <<usable, queue, loop, batch, stage, todo, rows, memory, stop, shown, due, held,
                     tracked, unanswered, rewritten, dropped, faults>>
  BY DEF LogElsewhere, reports, history
<1>3. logs \in Seq(Foreign)
  BY <1>1 DEF TypeOK
<1>4. logs' \in Seq(Foreign)
  BY <1>2, <1>3, SetOfAppend
<1>5. TypeOK'
  BY <1>1, <1>2, <1>4 DEF TypeOK
<1>6. Grows
  <2>1. faults \in Nat
    BY <1>1 DEF TypeOK
  <2>. QED
    BY <1>2, <2>1 DEF Grows
<1>7. \A e : Stored(e) => Stored(e)'
  BY <1>6, StoredStays
<1>8. Flow'
  BY <1>1, <1>2 DEF Flow
<1>9. Batches'
  BY <1>1, <1>2, <1>7 DEF Batches
<1>10. Clean'
  BY <1>1, <1>2 DEF Clean
<1>11. NoEventLost'
  BY <1>1, <1>2, <1>7 DEF NoEventLost
<1>12. \A r \in Report : Reporting(r)'
  BY <1>1, <1>2, <1>5, <1>6, ReportAside
<1>. QED
  BY <1>5, <1>8, <1>9, <1>10, <1>11, <1>12 DEF IInv

LEMMA ShutdownKeeps ==
  ASSUME IInv, Shutdown
  PROVE  IInv'
<1>1. TypeOK /\ Flow /\ Batches /\ NoEventLost /\ \A r \in Report : Reporting(r)
  BY DEF IInv
<1>2. /\ stop = "up" /\ stop' = "flushing" /\ \A r \in Report : stage[r] = "idle"
      /\ Flush(Closer, queue) /\ queue' = <<>> /\ queue \in Seq(Event)
      /\ UNCHANGED <<usable, loop, batch, rows, logs, memory, shown, due, held, tracked, unanswered,
                     rewritten, dropped, faults>>
  BY <1>1 DEF Shutdown, FlushEvents, reports, history, TypeOK
<1>3. Closer \in Task /\ Loop \in Task /\ Loop # Closer /\ todo[Closer] = <<>>
  BY <1>1, <1>2, TrackerAssumption DEF Flow, Task, Writing
<1>4. /\ todo' \in [Task -> Seq(Event)] /\ todo'[Closer] = queue
      /\ stage' \in [Task -> {"idle", "bulk", "single", "legacy", "read", "logs"}]
      /\ \A u \in {Loop, Closer} : stage'[u] \notin {"read", "logs"}
      /\ stage'[Closer] \in Writing <=> todo'[Closer] # <<>>
      /\ \A u \in Task : u # Closer => todo'[u] = todo[u] /\ stage'[u] = stage[u]
      /\ \A u \in Task : stage'[u] = "legacy" => stage[u] = "legacy"
  BY <1>1, <1>2, <1>3, FlushFacts
<1>5. TypeOK'
  BY <1>1, <1>2, <1>4 DEF TypeOK
<1>6. \A r \in Report : r \in Task /\ r # Closer /\ stage'[r] = stage[r] /\ todo'[r] = todo[r]
  BY <1>4, TrackerAssumption DEF Task
<1>7. /\ Clean' /\ \A r \in Report : Reporting(r)'
      /\ \A e : Stored(e)' <=> Stored(e)
  BY <1>2, <1>4, <1>5, <1>6, QuietKeeps
<1>8. Flow'
  <2>1. \A u \in Task : todo'[u] # <<>> <=> stage'[u] \in Writing
    BY <1>1, <1>4 DEF Flow
  <2>2. stage'[Loop] = stage[Loop]
    BY <1>3, <1>4
  <2>. QED
    BY <1>1, <1>2, <1>6, <2>1, <2>2 DEF Flow
<1>9. Batches'
  <2>1. todo'[Loop] = todo[Loop]
    BY <1>3, <1>4
  <2>. QED
    BY <1>1, <1>2, <1>7, <2>1 DEF Batches
<1>10. NoEventLost'
  <2>1. \A u \in Task : u = Closer => ToSet(todo[u]) = {}
    BY <1>3, SetOfEmpty
  <2>. QED
    BY <1>1, <1>2, <1>3, <1>4, <1>7, <2>1 DEF NoEventLost
<1>. QED
  BY <1>5, <1>7, <1>8, <1>9, <1>10 DEF IInv

LEMMA QuitOrExitKeeps ==
  ASSUME IInv, Quit \/ Exit
  PROVE  IInv'
<1>1. TypeOK /\ Flow /\ Batches /\ NoEventLost
  BY DEF IInv
<1>2. /\ UNCHANGED <<usable, queue, loop, batch, stage, todo, rows, logs, memory, shown, due, held,
                     tracked, unanswered, rewritten, dropped, faults>>
      /\ \/ stop = "up" /\ stop' = "quitting"
         \/ stop = "ending" /\ stop' = "down" /\ loop \in {"off", "ended"}
  BY DEF Quit, Exit, reports, history
<1>3. TypeOK'
  BY <1>1, <1>2 DEF TypeOK
<1>4. /\ Clean' /\ \A r \in Report : Reporting(r)'
      /\ \A e : Stored(e)' <=> Stored(e)
  BY <1>2, <1>3, QuietKeeps
<1>5. Flow'
  BY <1>1, <1>2 DEF Flow
<1>6. Batches'
  BY <1>1, <1>2, <1>4 DEF Batches
<1>7. NoEventLost'
  BY <1>1, <1>2, <1>4 DEF NoEventLost
<1>. QED
  BY <1>3, <1>4, <1>5, <1>6, <1>7 DEF IInv

(* A query that is cut short adds what it was writing, or nothing.         *)
LEMMA CutShortFacts ==
  ASSUME TypeOK, Flow, NEW t \in Task, CutShort(t), UNCHANGED <<memory, faults>>
  PROVE  /\ rows' \in [Table -> Seq(Event \cup Foreign)] /\ Grows
         /\ usable = {} => rows' = rows
<1>1. /\ rows \in [Table -> Seq(Event \cup Foreign)] /\ faults \in Nat
      /\ InFlight(t)[1] \in Table
  BY TrackerAssumption DEF TypeOK, InFlight, Table
<1>2. CASE rows' = rows
  BY <1>1, <1>2 DEF Grows
<1>3. CASE rows' # rows
  <2>1. /\ InFlight(t)[1] \in usable
        /\ rows' = [rows EXCEPT ![InFlight(t)[1]] = rows[InFlight(t)[1]] \o InFlight(t)[2]]
    BY <1>3 DEF CutShort
  <2>2. InFlight(t)[2] \in Seq(Event)
    <3>1. CASE stage[t] = "bulk"
      BY <3>1 DEF InFlight, TypeOK
    <3>2. CASE stage[t] \in {"single", "legacy"}
      <4>1. <<Head(todo[t])>> \in Seq(Event)
        BY <3>2, FirstOfTodo DEF Writing
      <4>. QED
        BY <3>2, <4>1 DEF InFlight
    <3>3. CASE stage[t] \notin {"bulk", "single", "legacy"}
      BY <3>3 DEF InFlight
    <3>. QED
      BY <3>1, <3>2, <3>3
  <2>3. PICK table \in Table, new \in Seq(Event) : rows' = [rows EXCEPT ![table] = rows[table] \o new]
    BY <1>1, <2>1, <2>2
  <2>4. rows[table] \in Seq(Event \cup Foreign) /\ new \in Seq(Event \cup Foreign)
    BY <1>1, WiderSeq
  <2>5. /\ rows[table] \o new \in Seq(Event \cup Foreign)
        /\ ToSet(rows[table] \o new) = ToSet(rows[table]) \cup ToSet(new)
    BY <2>4, SetOfConcat
  <2>6. /\ rows' \in [Table -> Seq(Event \cup Foreign)]
        /\ \A s \in Table : ToSet(rows[s]) \subseteq ToSet(rows'[s])
    BY <1>1, <2>3, <2>5
  <2>7. Grows
    BY <1>1, <2>6 DEF Grows
  <2>8. usable # {}
    BY <2>1
  <2>. QED
    BY <2>6, <2>7, <2>8
<1>. QED
  BY <1>2, <1>3

LEMMA CancelReportKeeps ==
  ASSUME IInv, NEW r \in Report, CancelReport(r)
  PROVE  IInv'
<1>1. TypeOK /\ Flow /\ Batches /\ Clean /\ NoEventLost /\ \A s \in Report : Reporting(s)
  BY DEF IInv
<1>2. /\ stop = "quitting" /\ stage[r] # "idle" /\ CutShort(r)
      /\ dropped' = dropped \cup ToSet(todo[r])
      /\ stage' = [stage EXCEPT ![r] = "idle"] /\ todo' = [todo EXCEPT ![r] = <<>>]
      /\ UNCHANGED <<usable, queue, loop, batch, logs, memory, stop, shown, due, held,
                     tracked, unanswered, rewritten, faults>>
  BY DEF CancelReport, reports
<1>3. r \in Task /\ r # Loop /\ r # Closer /\ Loop \in Task /\ Closer \in Task
  BY TrackerAssumption DEF Task
<1>4. /\ rows' \in [Table -> Seq(Event \cup Foreign)] /\ Grows
      /\ usable = {} => rows' = rows
  BY <1>1, <1>2, <1>3, CutShortFacts
<1>5. /\ todo' \in [Task -> Seq(Event)] /\ todo'[r] = <<>> /\ stage'[r] = "idle"
      /\ stage' \in [Task -> {"idle", "bulk", "single", "legacy", "read", "logs"}]
      /\ \A u \in Task : u # r => todo'[u] = todo[u] /\ stage'[u] = stage[u]
  BY <1>1, <1>2, <1>3 DEF TypeOK
<1>6. ToSet(todo[r]) \subseteq Event
  BY <1>1, <1>3, SetOfType DEF TypeOK
<1>7. TypeOK'
  <2>1. \A u \in {Loop, Closer} : stage'[u] \notin {"read", "logs"}
    BY <1>1, <1>3, <1>5 DEF TypeOK
  <2>2. dropped' \subseteq Event
    BY <1>1, <1>2, <1>6 DEF TypeOK
  <2>. QED
    BY <1>1, <1>2, <1>4, <1>5, <2>1, <2>2 DEF TypeOK
<1>8. \A e : Stored(e) => Stored(e)'
  BY <1>4, StoredStays
<1>9. Flow'
  <2>1. \A u \in Task : todo'[u] # <<>> <=> stage'[u] \in Writing
    BY <1>1, <1>5 DEF Flow, Writing
  <2>2. stage'[Loop] = stage[Loop] /\ stage'[Closer] = stage[Closer]
    BY <1>3, <1>5
  <2>. QED
    BY <1>1, <1>2, <2>1, <2>2 DEF Flow
<1>10. Batches'
  <2>1. todo'[Loop] = todo[Loop]
    BY <1>3, <1>5
  <2>. QED
    BY <1>1, <1>2, <1>8, <2>1 DEF Batches
<1>11. Clean'
  <2>1. \A u \in Task : stage'[u] = "legacy" => stage[u] = "legacy"
    BY <1>5
  <2>. QED
    BY <1>1, <1>2, <1>4, <2>1 DEF Clean
<1>12. NoEventLost'
  <2>1. ASSUME NEW u \in Task, NEW e \in ToSet(todo[u])
        PROVE  e \in ToSet(todo'[u]) \/ e \in dropped'
    BY <1>2, <1>5, <2>1
  <2>. QED
    BY <1>1, <1>2, <1>8, <2>1 DEF NoEventLost
<1>13. ASSUME NEW s \in Report PROVE Reporting(s)'
  <2>1. CASE s # r
    <3>1. /\ stage'[s] = stage[s] /\ todo'[s] = todo[s] /\ Reporting(s)
      BY <1>1, <1>5, <2>1 DEF Task
    <3>. QED
      BY <1>1, <1>2, <1>4, <1>7, <3>1, ReportAside
  <2>2. CASE s = r
    <3>1. shown[r].from # "nowhere" => stage[r] = "logs"
      BY <1>1, <1>2, <1>3 DEF Reporting, Writing, TypeOK
    <3>2. shown[r].from # "nowhere" => Shows(r)
      BY <1>1, <3>1 DEF Reporting
    <3>3. Owed(r)' = Owed(r) /\ shown' = shown
      BY <1>2 DEF Owed
    <3>4. Shows(r) => Shows(r)'
      BY <1>2, <1>4, <3>3 DEF Shows, Grows, Table
    <3>. QED
      BY <1>5, <2>2, <3>2, <3>3, <3>4 DEF Reporting, Writing
  <2>. QED
    BY <2>1, <2>2
<1>. QED
  BY <1>7, <1>9, <1>10, <1>11, <1>12, <1>13 DEF IInv

LEMMA CancelLoopKeeps ==
  ASSUME IInv, CancelLoop
  PROVE  IInv'
<1>1. TypeOK /\ Flow /\ Batches /\ Clean /\ NoEventLost /\ \A r \in Report : Reporting(r)
  BY DEF IInv
<1>2. /\ stop \in {"flushing", "quitting"} /\ stop' = "ending" /\ stage[Closer] = "idle"
      /\ \A r \in Report : stage[r] = "idle"
      /\ UNCHANGED <<usable, logs, memory, shown, due, held, tracked, unanswered, dropped, faults>>
  BY <1>1 DEF CancelLoop, Flow, reports
<1>3. CASE loop = "off"
  <2>1. UNCHANGED <<queue, loop, batch, stage, todo, rows, rewritten>> /\ queue = <<>>
    BY <1>1, <1>3 DEF CancelLoop, Flow
  <2>2. TypeOK'
    BY <1>1, <1>2, <2>1 DEF TypeOK
  <2>3. /\ Clean' /\ \A r \in Report : Reporting(r)'
        /\ \A e : Stored(e)' <=> Stored(e)
    BY <1>2, <2>1, <2>2, QuietKeeps
  <2>4. Flow'
    BY <1>1, <1>2, <1>3, <2>1 DEF Flow
  <2>5. Batches'
    BY <1>1, <2>1, <2>3 DEF Batches
  <2>6. NoEventLost'
    BY <1>1, <1>2, <2>1, <2>3 DEF NoEventLost
  <2>. QED
    BY <2>2, <2>3, <2>4, <2>5, <2>6 DEF IInv
<1>4. CASE loop # "off"
  <2>1. /\ CutShort(Loop) /\ rewritten' = (IF loop = "write" THEN ToSet(batch) ELSE {})
        /\ batch' = batch \o queue /\ queue' = <<>>
        /\ loop' = "last" /\ Flush(Loop, batch')
    BY <1>4 DEF CancelLoop
  <2>2. batch \in Seq(Event) /\ queue \in Seq(Event) /\ Loop \in Task /\ Closer \in Task
    BY <1>1 DEF TypeOK, Task
  <2>3. batch' \in Seq(Event) /\ ToSet(batch') = ToSet(batch) \cup ToSet(queue)
    <3>. PICK a \in Seq(Event), b \in Seq(Event) : a = batch /\ b = queue
      BY <2>2
    <3>1. a \o b \in Seq(Event) /\ ToSet(a \o b) = ToSet(a) \cup ToSet(b)
      BY SetOfConcat
    <3>. QED
      BY <2>1, <3>1
  <2>4. /\ rows' \in [Table -> Seq(Event \cup Foreign)] /\ Grows
        /\ usable = {} => rows' = rows
    BY <1>1, <1>2, <2>1, <2>2, CutShortFacts
  <2>5. /\ todo' \in [Task -> Seq(Event)] /\ todo'[Loop] = batch'
        /\ stage' \in [Task -> {"idle", "bulk", "single", "legacy", "read", "logs"}]
        /\ \A u \in {Loop, Closer} : stage'[u] \notin {"read", "logs"}
        /\ stage'[Loop] \in Writing <=> todo'[Loop] # <<>>
        /\ \A u \in Task : u # Loop => todo'[u] = todo[u] /\ stage'[u] = stage[u]
        /\ \A u \in Task : stage'[u] = "legacy" => stage[u] = "legacy"
    <3>. PICK b \in Seq(Event) : b = batch'
      BY <2>3
    <3>1. Flush(Loop, b)
      BY <2>1
    <3>. QED
      BY <1>1, <2>2, <3>1, FlushFacts
  <2>6. ToSet(batch) \subseteq Event
    BY <2>2, SetOfType
  <2>7. TypeOK'
    BY <1>1, <1>2, <2>1, <2>3, <2>4, <2>5, <2>6 DEF TypeOK
  <2>8. \A e : Stored(e) => Stored(e)'
    BY <2>4, StoredStays
  <2>9. \A r \in Report : r \in Task /\ r # Loop /\ stage'[r] = stage[r] /\ todo'[r] = todo[r]
    BY <2>5, TrackerAssumption DEF Task
  <2>10. Flow'
    <3>1. \A u \in Task : todo'[u] # <<>> <=> stage'[u] \in Writing
      BY <1>1, <2>5 DEF Flow
    <3>2. stage'[Closer] = stage[Closer]
      BY <2>2, <2>5, TrackerAssumption
    <3>. QED
      BY <1>1, <1>2, <2>1, <2>9, <3>1, <3>2 DEF Flow
  <2>11. Batches'
    BY <2>5 DEF Batches
  <2>12. Clean'
    BY <1>1, <1>2, <2>4, <2>5 DEF Clean
  <2>13. NoEventLost'
    <3>1. \A u \in Task : \A e \in ToSet(todo[u]) : e \in ToSet(batch') \/ e \in ToSet(todo'[u])
      BY <1>1, <2>3, <2>5 DEF Batches
    <3>. QED
      BY <1>1, <1>2, <2>3, <2>8, <3>1 DEF NoEventLost
  <2>14. \A r \in Report : Reporting(r)'
    BY <1>1, <1>2, <2>4, <2>7, <2>9, ReportAside
  <2>. QED
    BY <2>7, <2>10, <2>11, <2>12, <2>13, <2>14 DEF IInv
<1>. QED
  BY <1>3, <1>4

-----------------------------------------------------------------------------
LEMMA InitHolds ==
  ASSUME Init
  PROVE  IInv
<1>1. TypeOK
  BY TrackerAssumption DEF Init, TypeOK, Task, Unread
<1>2. Flow
  BY DEF Init, Flow, Task, Writing
<1>3. Batches
  <2>1. todo[Loop] = <<>> /\ batch = <<>> /\ loop = "off"
    BY DEF Init, Task
  <2>. QED
    BY <2>1, SetOfEmpty DEF Batches
<1>4. Clean
  BY DEF Init, Clean
<1>5. NoEventLost
  BY DEF Init, NoEventLost
<1>6. \A r \in Report : Reporting(r)
  BY DEF Init, Reporting, Writing, Unread, Task
<1>. QED
  BY <1>1, <1>2, <1>3, <1>4, <1>5, <1>6 DEF IInv

LEMMA NextKeeps ==
  ASSUME IInv, [Next]_vars
  PROVE  IInv'
<1>1. ASSUME NEW t \in Task, Write(t) PROVE IInv'
  BY <1>1, WriteKeeps
<1>2. CASE Track
  BY <1>2, TrackKeeps
<1>3. CASE \E e \in Foreign : RecordElsewhere(e) \/ LogElsewhere(e)
  BY <1>3, RecordElsewhereKeeps, LogElsewhereKeeps
<1>4. CASE LoopStep
  BY <1>1, <1>4, GetKeeps, IntervalOverKeeps, FlushedKeeps DEF LoopStep, Task
<1>5. CASE \E r \in Report : BeginReport(r) \/ ReportStep(r) \/ CancelReport(r)
  BY <1>1, <1>5, BeginReportKeeps, ReadEventsKeeps, ReadLogsKeeps, CancelReportKeeps
     DEF ReportStep, Task
<1>6. CASE Shutdown \/ Write(Closer) \/ Quit \/ CancelLoop \/ Exit
  BY <1>1, <1>6, ShutdownKeeps, QuitOrExitKeeps, CancelLoopKeeps DEF Task
<1>7. CASE UNCHANGED vars
  <2>1. UNCHANGED <<usable, queue, loop, batch, stage, todo, rows, logs, memory, stop, shown, due,
                    held, tracked, unanswered, rewritten, dropped, faults>>
    BY <1>7 DEF vars, reports, history
  <2>2. TypeOK /\ Flow /\ Batches /\ NoEventLost
    BY DEF IInv
  <2>3. TypeOK'
    BY <2>1, <2>2 DEF TypeOK
  <2>4. /\ Clean' /\ \A r \in Report : Reporting(r)'
        /\ \A e : Stored(e)' <=> Stored(e)
    BY <2>1, <2>3, QuietKeeps
  <2>5. Flow'
    BY <2>1, <2>2 DEF Flow
  <2>6. Batches'
    BY <2>1, <2>2, <2>4 DEF Batches
  <2>7. NoEventLost'
    BY <2>1, <2>2, <2>4 DEF NoEventLost
  <2>. QED
    BY <2>3, <2>4, <2>5, <2>6, <2>7 DEF IInv
<1>. QED
  BY <1>2, <1>3, <1>4, <1>5, <1>6, <1>7 DEF Next, Over

LEMMA Invariance == Spec => []IInv
<1>1. Init => IInv
  BY InitHolds
<1>2. IInv /\ [Next]_vars => IInv'
  BY NextKeeps
<1>. QED
  BY <1>1, <1>2, PTL DEF Spec

(* Types, for any number of events, reports and tables.                    *)
THEOREM TypeCorrect == Spec => []TypeOK
<1>1. IInv => TypeOK
  BY DEF IInv
<1>. QED
  BY <1>1, Invariance, PTL

(* No event handed to track is lost, whatever queries fail and whenever    *)
(* the process ends (tracker.py:64-150, supabase_client.py:429-508).       *)
THEOREM EventsAreKept == Spec => []NoEventLost
<1>1. IInv => NoEventLost
  BY DEF IInv
<1>. QED
  BY <1>1, Invariance, PTL

(* An ordered end leaves every event in a table, unless a query failed     *)
(* (shutdown_event_tracker, tracker.py:138-150).                           *)
THEOREM EndPersists == Spec => []ShutdownPersists
<1>1. ASSUME IInv, stop = "down", usable # {}, faults = 0, NEW e \in 1..tracked \ dropped
      PROVE  InTables(e)
  <2>1. /\ queue = <<>> /\ batch = <<>> /\ memory = <<>>
        /\ stage[Loop] = "idle" /\ stage[Closer] = "idle" /\ \A r \in Report : stage[r] = "idle"
    BY <1>1 DEF IInv, Flow, Clean
  <2>2. \A t \in Task : todo[t] = <<>>
    BY <1>1, <2>1 DEF IInv, Flow, Task, Writing
  <2>3. \/ e \in ToSet(queue) \cup ToSet(batch)
        \/ \E t \in Task : e \in ToSet(todo[t])
        \/ Stored(e)
    BY <1>1 DEF IInv, NoEventLost
  <2>. QED
    BY <2>1, <2>2, <2>3, SetOfEmpty DEF Stored
<1>2. IInv => ShutdownPersists
  BY <1>1 DEF ShutdownPersists
<1>. QED
  BY <1>2, Invariance, PTL

(* A report shows all that was tracked before it began but what another    *)
(* task held then (supabase_client.py:501-508, 615-666).                   *)
THEOREM ReportsShow == Spec => []ReportMissesOnlyHeld
<1>1. IInv => ReportMissesOnlyHeld
  BY DEF IInv, Reporting, Shows, Owed, ReportMissesOnlyHeld
<1>. QED
  BY <1>1, Invariance, PTL
-----------------------------------------------------------------------------
(* How often an event is stored.                                           *)

Distinct(s) == \A i, j \in DOMAIN s : s[i] = s[j] => i = j

(* An event is in hand while somebody has still to write it: it waits in   *)
(* the queue, in the batch the loop collects, or in a flush.               *)
InHand(e) ==
  \/ e \in ToSet(queue)
  \/ loop = "collect" /\ e \in ToSet(batch)
  \/ \E t \in Task : e \in ToSet(todo[t])

(* It is in one place, once.                                               *)
OnePlace ==
  /\ Distinct(queue) /\ Distinct(batch) /\ \A t \in Task : Distinct(todo[t])
  /\ ToSet(queue) \cap ToSet(batch) = {}
  /\ \A t \in Task : ToSet(queue) \cap ToSet(todo[t]) = {}
  /\ \A t \in Task \ {Loop} : ToSet(batch) \cap ToSet(todo[t]) = {}
  /\ \A t, u \in Task : t # u => ToSet(todo[t]) \cap ToSet(todo[u]) = {}

Untouched ==
  \A e \in Event : e > tracked => ~InHand(e) /\ e \notin ToSet(batch) /\ Copies(e) = 0

Again(e) == IF e \in rewritten THEN 1 ELSE 0

(* While it is in hand, each copy was stored by a write without an answer. *)
Bound(e) == Copies(e) <= unanswered[e] + Again(e) + (IF InHand(e) THEN 0 ELSE 1)

OnceInv ==
  /\ OnePlace /\ Untouched
  /\ loop \notin {"last", "ended"} => rewritten = {}
  /\ \A e \in Event : Bound(e)

OnceVars == <<queue, loop, batch, todo, rows, memory, tracked, unanswered, rewritten>>

LEMMA OnceStays == OnceInv /\ UNCHANGED OnceVars => OnceInv'
BY DEF OnceVars, OnceInv, OnePlace, Untouched, Bound, Again, InHand, Copies

-----------------------------------------------------------------------------
(* Sequences that hold an element once, and how often one holds another.   *)
LEMMA DistinctEmpty == Distinct(<<>>)
BY DEF Distinct

LEMMA DistinctConcat ==
  ASSUME NEW S, NEW s \in Seq(S), NEW t \in Seq(S), Distinct(s), Distinct(t),
         ToSet(s) \cap ToSet(t) = {}
  PROVE  Distinct(s \o t)
<1>1. /\ Len(s) \in Nat /\ Len(t) \in Nat /\ DOMAIN s = 1..Len(s) /\ DOMAIN t = 1..Len(t)
      /\ DOMAIN (s \o t) = 1..(Len(s) + Len(t))
      /\ \A i \in 1..Len(s) : (s \o t)[i] = s[i]
      /\ \A i \in 1..Len(t) : (s \o t)[Len(s) + i] = t[i]
  OBVIOUS
<1>2. \A i \in 1..(Len(s) + Len(t)) :
        \/ i \in 1..Len(s) /\ (s \o t)[i] = s[i]
        \/ ~(i \in 1..Len(s)) /\ i - Len(s) \in 1..Len(t) /\ (s \o t)[i] = t[i - Len(s)]
  <2>. SUFFICES ASSUME NEW i \in 1..(Len(s) + Len(t)), i \notin 1..Len(s)
                PROVE  i - Len(s) \in 1..Len(t) /\ (s \o t)[i] = t[i - Len(s)]
    BY <1>1
  <2>1. i - Len(s) \in 1..Len(t) /\ i = Len(s) + (i - Len(s))
    BY <1>1
  <2>. QED
    BY <1>1, <2>1
<1>3. \A i \in 1..Len(s), j \in 1..Len(t) : s[i] # t[j]
  BY <1>1 DEF ToSet
<1>. SUFFICES ASSUME NEW i \in 1..(Len(s) + Len(t)), NEW j \in 1..(Len(s) + Len(t)),
                     (s \o t)[i] = (s \o t)[j]
              PROVE  i = j
  BY <1>1 DEF Distinct
<1>4. CASE i \in 1..Len(s) /\ j \in 1..Len(s)
  BY <1>1, <1>4 DEF Distinct
<1>5. CASE i \notin 1..Len(s) /\ j \notin 1..Len(s)
  <2>1. i - Len(s) = j - Len(s)
    BY <1>1, <1>2, <1>5 DEF Distinct
  <2>. QED
    BY <1>1, <2>1
<1>6. CASE i \in 1..Len(s) /\ j \notin 1..Len(s)
  BY <1>2, <1>3, <1>6
<1>7. CASE i \notin 1..Len(s) /\ j \in 1..Len(s)
  BY <1>2, <1>3, <1>7
<1>. QED
  BY <1>4, <1>5, <1>6, <1>7

LEMMA DistinctOne ==
  ASSUME NEW e
  PROVE  Distinct(<<e>>) /\ ToSet(<<e>>) = {e}
<1>1. DOMAIN <<e>> = {1} /\ <<e>>[1] = e
  OBVIOUS
<1>. QED
  BY <1>1 DEF Distinct, ToSet

LEMMA DistinctTail ==
  ASSUME NEW S, NEW s \in Seq(S), s # <<>>, Distinct(s)
  PROVE  Distinct(Tail(s)) /\ Head(s) \notin ToSet(Tail(s))
<1>1. /\ Len(s) \in Nat /\ Len(s) > 0 /\ DOMAIN s = 1..Len(s) /\ Head(s) = s[1]
      /\ DOMAIN Tail(s) = 1..(Len(s) - 1)
      /\ \A i \in 1..(Len(s) - 1) : Tail(s)[i] = s[i + 1]
  OBVIOUS
<1>2. \A i \in 1..(Len(s) - 1) : i + 1 \in 1..Len(s) /\ i + 1 # 1
  BY <1>1
<1>3. \A i, j \in 1..(Len(s) - 1) : s[i + 1] = s[j + 1] => i = j
  BY <1>1, <1>2 DEF Distinct
<1>4. \A i \in 1..(Len(s) - 1) : s[i + 1] # s[1]
  BY <1>1, <1>2 DEF Distinct
<1>. QED
  BY <1>1, <1>3, <1>4 DEF Distinct, ToSet

LEMMA DistinctSplit ==
  ASSUME NEW S, NEW s \in Seq(S), NEW n \in 0..Len(s), Distinct(s)
  PROVE  /\ Distinct(SubSeq(s, 1, n)) /\ Distinct(SubSeq(s, n + 1, Len(s)))
         /\ ToSet(SubSeq(s, 1, n)) \cap ToSet(SubSeq(s, n + 1, Len(s))) = {}
<1>. DEFINE a == SubSeq(s, 1, n)
            b == SubSeq(s, n + 1, Len(s))
<1>1. /\ Len(s) \in Nat /\ n \in Nat /\ n <= Len(s) /\ DOMAIN s = 1..Len(s)
      /\ DOMAIN a = 1..n /\ \A i \in 1..n : a[i] = s[i]
  OBVIOUS
<1>2. DOMAIN b = 1..(Len(s) - n) /\ \A i \in 1..(Len(s) - n) : b[i] = s[n + i]
  <2>1. \A i \in (n + 1)..Len(s) : s[i] \in S
    BY <1>1, ElementOfSeq
  <2>2. n + 1 \in Int /\ Len(s) \in Int
    BY <1>1
  <2>3. /\ b \in Seq(S) /\ Len(b) = IF n + 1 <= Len(s) THEN Len(s) - (n + 1) + 1 ELSE 0
        /\ \A i \in 1..(Len(s) - (n + 1) + 1) : b[i] = s[n + 1 + i - 1]
    BY <2>1, <2>2, SubSeqProperties
  <2>. HIDE DEF a, b
  <2>4. b \in Seq(S) /\ Len(b) = Len(s) - n
    <3>1. CASE n + 1 <= Len(s)
      BY <1>1, <2>3, <3>1
    <3>2. CASE ~(n + 1 <= Len(s))
      <4>1. Len(s) \in Nat /\ n \in Nat /\ n <= Len(s)
        BY <1>1
      <4>2. n = Len(s) /\ Len(s) - n = 0
        BY ONLY <3>2, <4>1
      <4>. QED
        BY <2>3, <3>2, <4>2
    <3>. QED
      BY <3>1, <3>2
  <2>5. DOMAIN b = 1..Len(b)
    BY <2>4, LenProperties
  <2>6. Len(s) - (n + 1) + 1 = Len(s) - n /\ \A i \in Int : n + 1 + i - 1 = n + i
    BY <1>1
  <2>. QED
    BY <2>3, <2>4, <2>5, <2>6
<1>. HIDE DEF a, b
<1>3. Distinct(a)
  BY <1>1 DEF Distinct
<1>4. Distinct(b)
  <2>1. \A i \in 1..(Len(s) - n) : n + i \in 1..Len(s)
    BY <1>1
  <2>. SUFFICES ASSUME NEW i \in 1..(Len(s) - n), NEW j \in 1..(Len(s) - n), b[i] = b[j]
                PROVE  i = j
    BY <1>2 DEF Distinct
  <2>2. n + i = n + j
    BY <1>1, <1>2, <2>1 DEF Distinct
  <2>. QED
    BY <1>1, <2>2
<1>5. ToSet(a) \cap ToSet(b) = {}
  <2>. SUFFICES ASSUME NEW i \in 1..n, NEW j \in 1..(Len(s) - n), a[i] = b[j] PROVE FALSE
    BY <1>1, <1>2 DEF ToSet
  <2>1. i \in 1..Len(s) /\ n + j \in 1..Len(s) /\ i # n + j
    BY <1>1
  <2>. QED
    BY <1>1, <1>2, <2>1 DEF Distinct
<1>. QED
  BY <1>3, <1>4, <1>5 DEF a, b

LEMMA CountType ==
  ASSUME NEW S, NEW s \in Seq(S), NEW e
  PROVE  /\ IsFiniteSet({i \in DOMAIN s : s[i] = e}) /\ Count(s, e) \in Nat
         /\ e \notin ToSet(s) => Count(s, e) = 0
<1>1. DOMAIN s = 1..Len(s) /\ Len(s) \in Nat
  OBVIOUS
<1>2. IsFiniteSet(1..Len(s))
  BY <1>1, FS_Interval
<1>3. IsFiniteSet({i \in DOMAIN s : s[i] = e})
  BY <1>1, <1>2, FS_Subset
<1>4. e \notin ToSet(s) => {i \in DOMAIN s : s[i] = e} = {}
  BY DEF ToSet
<1>. QED
  BY <1>3, <1>4, FS_CardinalityType, FS_EmptySet DEF Count

(* What is added once is counted once more.                                *)
LEMMA CountConcat ==
  ASSUME NEW S, NEW s \in Seq(S), NEW t \in Seq(S), Distinct(t), NEW e
  PROVE  Count(s \o t, e) = Count(s, e) + IF e \in ToSet(t) THEN 1 ELSE 0
<1>. DEFINE P == {i \in DOMAIN s : s[i] = e}
            Q == {i \in DOMAIN (s \o t) : (s \o t)[i] = e}
<1>1. /\ Len(s) \in Nat /\ Len(t) \in Nat /\ DOMAIN s = 1..Len(s) /\ DOMAIN t = 1..Len(t)
      /\ DOMAIN (s \o t) = 1..(Len(s) + Len(t))
      /\ \A i \in 1..Len(s) : (s \o t)[i] = s[i]
      /\ \A i \in 1..Len(t) : (s \o t)[Len(s) + i] = t[i]
  OBVIOUS
<1>2. /\ \A i \in 1..Len(s) : i \in 1..(Len(s) + Len(t))
      /\ \A i \in 1..Len(t) : Len(s) + i \in 1..(Len(s) + Len(t)) /\ Len(s) + i \notin 1..Len(s)
      /\ \A i \in 1..(Len(s) + Len(t)) :
           i \in 1..Len(s) \/ (i - Len(s) \in 1..Len(t) /\ i = Len(s) + (i - Len(s)))
  BY <1>1
<1>3. IsFiniteSet(P) /\ Count(s, e) = Cardinality(P) /\ Cardinality(P) \in Nat
  BY CountType DEF Count
<1>4. Count(s \o t, e) = Cardinality(Q)
  BY DEF Count
<1>5. CASE e \notin ToSet(t)
  <2>1. \A i \in 1..Len(t) : t[i] # e
    BY <1>1, <1>5 DEF ToSet
  <2>2. \A i \in 1..(Len(s) + Len(t)) : i \notin 1..Len(s) => (s \o t)[i] # e
    BY <1>1, <1>2, <2>1
  <2>3. \A i : i \in Q <=> i \in P
    BY <1>1, <1>2, <2>2
  <2>4. Q = P
    <3>. HIDE DEF P, Q
    <3>. QED
      BY <2>3
  <2>. HIDE DEF P, Q
  <2>. QED
    BY <1>3, <1>4, <1>5, <2>4
<1>6. CASE e \in ToSet(t)
  <2>1. PICK k \in 1..Len(t) : t[k] = e
    BY <1>1, <1>6 DEF ToSet
  <2>2. \A i \in 1..Len(t) : t[i] = e => i = k
    BY <1>1, <2>1 DEF Distinct
  <2>3. \A i \in 1..(Len(s) + Len(t)) : i \notin 1..Len(s) => ((s \o t)[i] = e <=> i = Len(s) + k)
    BY <1>1, <1>2, <2>1, <2>2
  <2>4. Len(s) + k \in Q /\ Len(s) + k \notin P
    BY <1>1, <1>2, <2>1
  <2>5. \A i : i \in Q <=> i \in P \/ i = Len(s) + k
    BY <1>1, <1>2, <2>3, <2>4
  <2>. HIDE DEF P, Q
  <2>6. Q = P \cup {Len(s) + k}
    BY <2>5
  <2>7. Cardinality(Q) = Cardinality(P) + 1
    BY <1>3, <2>4, <2>6, FS_AddElement
  <2>. QED
    BY <1>3, <1>4, <1>6, <2>7
<1>. QED
  BY <1>5, <1>6

-----------------------------------------------------------------------------
(* What a step adds to the copies of an event.                             *)
One(e, seq) == IF e \in ToSet(seq) THEN 1 ELSE 0

LEMMA CopiesType ==
  ASSUME TypeOK, NEW e \in Event
  PROVE  /\ Copies(e) \in Nat /\ unanswered[e] \in Nat /\ Again(e) \in {0, 1}
         /\ \A table \in Table : Count(rows[table], e) \in Nat
         /\ Count(memory, e) \in Nat
<1>1. rows \in [Table -> Seq(Event \cup Foreign)] /\ memory \in Seq(Event)
  BY DEF TypeOK
<1>2. \A table \in Table : Count(rows[table], e) \in Nat
  BY <1>1, CountType
<1>3. Count(memory, e) \in Nat
  BY <1>1, CountType
<1>4. Copies(e) \in Nat
  <2>1. Count(rows["events"], e) \in Nat /\ Count(rows["bot_events"], e) \in Nat
    BY <1>2 DEF Table
  <2>. QED
    BY <1>3, <2>1 DEF Copies
<1>. QED
  BY <1>2, <1>3, <1>4 DEF TypeOK, Again

LEMMA OnceStored == TypeOK /\ OnceInv => StoredOnce
<1>. SUFFICES ASSUME TypeOK, OnceInv, NEW e \in Event
              PROVE  Copies(e) <= 1 + unanswered[e] + Again(e)
  BY DEF StoredOnce, Again
<1>1. Copies(e) <= unanswered[e] + Again(e) + (IF InHand(e) THEN 0 ELSE 1)
  BY DEF OnceInv, Bound
<1>2. Copies(e) \in Nat /\ unanswered[e] \in Nat /\ Again(e) \in {0, 1}
  BY CopiesType
<1>. QED
  BY <1>1, <1>2

LEMMA RowsCounts ==
  ASSUME TypeOK, NEW table \in Table, NEW new \in Seq(Event \cup Foreign), Distinct(new),
         rows' = [rows EXCEPT ![table] = rows[table] \o new], NEW e \in Event
  PROVE  Count(rows'["events"], e) + Count(rows'["bot_events"], e)
         = Count(rows["events"], e) + Count(rows["bot_events"], e) + One(e, new)
<1>1. rows \in [Table -> Seq(Event \cup Foreign)]
  BY DEF TypeOK
<1>2. Count(rows[table] \o new, e) = Count(rows[table], e) + One(e, new)
  BY <1>1, CountConcat DEF One
<1>3. Count(rows'[table], e) = Count(rows[table], e) + One(e, new)
  BY <1>1, <1>2
<1>4. \A s \in Table : s # table => rows'[s] = rows[s]
  BY <1>1
<1>5. \A s \in Table : Count(rows[s], e) \in Nat
  BY CopiesType
<1>6. One(e, new) \in {0, 1}
  BY DEF One
<1>7. CASE table = "events"
  <2>1. rows'["bot_events"] = rows["bot_events"]
    BY <1>4, <1>7 DEF Table
  <2>2. Count(rows["events"], e) \in Nat /\ Count(rows["bot_events"], e) \in Nat
    BY <1>5 DEF Table
  <2>. QED
    BY <1>3, <1>6, <1>7, <2>1, <2>2
<1>8. CASE table = "bot_events"
  <2>1. rows'["events"] = rows["events"]
    BY <1>4, <1>8 DEF Table
  <2>2. Count(rows["events"], e) \in Nat /\ Count(rows["bot_events"], e) \in Nat
    BY <1>5 DEF Table
  <2>. QED
    BY <1>3, <1>6, <1>8, <2>1, <2>2
<1>. QED
  BY <1>7, <1>8 DEF Table

(* The copies a query adds, those nobody heard of included.                *)
InTablesOf(e) == Count(rows["events"], e) + Count(rows["bot_events"], e)

LEMMA InsertCounts ==
  ASSUME TypeOK, NEW table \in Table, NEW new \in Seq(Event), Distinct(new), NEW reply \in Reply,
         Insert(table, new, reply), NEW e \in Event
  PROVE  /\ reply = "ok" => /\ InTablesOf(e)' = InTablesOf(e) + One(e, new)
                            /\ unanswered'[e] = unanswered[e]
         /\ reply = "lost" => /\ InTablesOf(e)' = InTablesOf(e) + One(e, new)
                              /\ unanswered'[e] = unanswered[e] + One(e, new)
         /\ reply = "refused" => /\ InTablesOf(e)' = InTablesOf(e)
                                 /\ unanswered'[e] = unanswered[e]
<1>1. CASE table \notin usable
  BY <1>1 DEF Insert, InTablesOf
<1>2. CASE table \in usable
  <2>1. reply = "refused" => rows' = rows
    BY <1>2 DEF Insert
  <2>2. reply # "refused" => InTablesOf(e)' = InTablesOf(e) + One(e, new)
    <3>. SUFFICES ASSUME reply # "refused" PROVE InTablesOf(e)' = InTablesOf(e) + One(e, new)
      OBVIOUS
    <3>1. rows' = [rows EXCEPT ![table] = rows[table] \o new]
      BY <1>2 DEF Insert
    <3>2. new \in Seq(Event \cup Foreign)
      BY WiderSeq
    <3>. QED
      BY <3>1, <3>2, RowsCounts DEF InTablesOf
  <2>3. reply # "lost" => unanswered' = unanswered
    BY <1>2 DEF Insert
  <2>4. reply = "lost" => unanswered'[e] = unanswered[e] + One(e, new)
    <3>. SUFFICES ASSUME reply = "lost" PROVE unanswered'[e] = unanswered[e] + One(e, new)
      OBVIOUS
    <3>1. unanswered' = [f \in Event |-> unanswered[f] + IF f \in ToSet(new) THEN 1 ELSE 0]
      BY <1>2 DEF Insert
    <3>. QED
      BY <3>1 DEF One
  <2>. QED
    BY <2>1, <2>2, <2>3, <2>4 DEF InTablesOf
<1>. QED
  BY <1>1, <1>2

(* A task t has only rest of its events left to write.  The others may     *)
(* have been stored once, and each event once more without an answer.      *)
LEMMA WritingCounts ==
  ASSUME TypeOK, TypeOK', Flow, OnceInv, NEW t \in Task, NEW rest \in Seq(Event),
         Distinct(rest), ToSet(rest) \subseteq ToSet(todo[t]),
         todo' = [todo EXCEPT ![t] = rest], UNCHANGED <<queue, loop, batch, tracked, rewritten>>,
         \A e \in Event :
           /\ e \notin ToSet(todo[t]) => Copies(e)' = Copies(e) /\ unanswered'[e] = unanswered[e]
           /\ e \in ToSet(rest) => Copies(e)' + unanswered[e] <= Copies(e) + unanswered'[e]
           /\ Copies(e)' + unanswered[e] <= Copies(e) + unanswered'[e] + 1
  PROVE  OnceInv'
<1>1. /\ todo \in [Task -> Seq(Event)] /\ todo'[t] = rest
      /\ \A u \in Task : u # t => todo'[u] = todo[u]
      /\ \A u \in Task : ToSet(todo'[u]) \subseteq ToSet(todo[u])
  BY DEF TypeOK
<1>2. OnePlace'
  <2>1. \A u \in Task : Distinct(todo'[u])
    BY <1>1 DEF OnceInv, OnePlace
  <2>2. /\ \A u \in Task : ToSet(queue) \cap ToSet(todo[u]) = {}
        /\ \A u \in Task \ {Loop} : ToSet(batch) \cap ToSet(todo[u]) = {}
        /\ \A u, v \in Task : u # v => ToSet(todo[u]) \cap ToSet(todo[v]) = {}
        /\ Distinct(queue) /\ Distinct(batch) /\ ToSet(queue) \cap ToSet(batch) = {}
    BY DEF OnceInv, OnePlace
  <2>. QED
    BY <1>1, <2>1, <2>2 DEF OnePlace
<1>3. \A e : InHand(e)' => InHand(e)
  BY <1>1 DEF InHand
<1>4. \A e \in ToSet(todo[t]) : InHand(e)
  BY DEF InHand
<1>5. \A e \in ToSet(todo[t]) : e \notin ToSet(rest) => ~InHand(e)'
  <2>. SUFFICES ASSUME NEW e \in ToSet(todo[t]), e \notin ToSet(rest) PROVE ~InHand(e)'
    OBVIOUS
  <2>1. e \notin ToSet(queue)
    BY DEF OnceInv, OnePlace
  <2>2. \A u \in Task : e \notin ToSet(todo'[u])
    BY <1>1 DEF OnceInv, OnePlace
  <2>3. ~(loop = "collect" /\ e \in ToSet(batch))
    <3>1. CASE t # Loop
      BY <3>1 DEF OnceInv, OnePlace
    <3>2. CASE t = Loop
      <4>1. todo[t] # <<>>
        BY SetOfEmpty
      <4>2. loop \in {"write", "last"}
        BY <3>2, <4>1 DEF Flow, Writing
      <4>. QED
        BY <4>2
    <3>. QED
      BY <3>1, <3>2
  <2>. QED
    BY <2>1, <2>2, <2>3 DEF InHand
<1>6. Untouched'
  <2>. SUFFICES ASSUME NEW e \in Event, e > tracked
                PROVE  ~InHand(e)' /\ e \notin ToSet(batch) /\ Copies(e)' = 0
    BY DEF Untouched
  <2>1. ~InHand(e) /\ e \notin ToSet(batch) /\ Copies(e) = 0
    BY DEF OnceInv, Untouched
  <2>. QED
    BY <1>3, <1>4, <2>1
<1>7. ASSUME NEW e \in Event PROVE Bound(e)'
  <2>1. /\ Copies(e) \in Nat /\ unanswered[e] \in Nat /\ Again(e) \in {0, 1}
        /\ Copies(e)' \in Nat /\ unanswered'[e] \in Nat /\ Again(e)' = Again(e)
    <3>1. Copies(e) \in Nat /\ unanswered[e] \in Nat /\ Again(e) \in {0, 1}
      BY CopiesType
    <3>2. (Copies(e) \in Nat)' /\ (unanswered[e] \in Nat)'
      BY CopiesType, PTL
    <3>. QED
      BY <3>1, <3>2 DEF Again
  <2>2. Copies(e) <= unanswered[e] + Again(e) + (IF InHand(e) THEN 0 ELSE 1)
    BY DEF OnceInv, Bound
  <2>3. Copies(e)' <= unanswered'[e] + Again(e) + (IF InHand(e)' THEN 0 ELSE 1)
    <3>1. CASE e \notin ToSet(todo[t])
      <4>1. InHand(e)' => InHand(e)
        BY <1>3
      <4>2. Copies(e)' = Copies(e) /\ unanswered'[e] = unanswered[e]
        BY <3>1
      <4>. QED
        BY <2>1, <2>2, <4>1, <4>2
    <3>2. CASE e \in ToSet(rest)
      <4>1. InHand(e)
        BY <1>4, <3>2
      <4>2. Copies(e)' + unanswered[e] <= Copies(e) + unanswered'[e]
        BY <3>2
      <4>. QED
        BY <2>1, <2>2, <4>1, <4>2
    <3>3. CASE e \in ToSet(todo[t]) /\ e \notin ToSet(rest)
      <4>1. InHand(e) /\ ~InHand(e)'
        BY <1>4, <1>5, <3>3
      <4>2. Copies(e)' + unanswered[e] <= Copies(e) + unanswered'[e] + 1
        OBVIOUS
      <4>. QED
        BY <2>1, <2>2, <4>1, <4>2
    <3>. QED
      BY <3>1, <3>2, <3>3
  <2>. QED
    BY <2>1, <2>3 DEF Bound
<1>8. loop' \notin {"last", "ended"} => rewritten' = {}
  BY DEF OnceInv
<1>. QED
  BY <1>2, <1>6, <1>7, <1>8 DEF OnceInv

(* Events that only change hands.                                          *)
LEMMA MovingCounts ==
  ASSUME TypeOK, OnceInv, OnePlace', UNCHANGED <<rows, memory, tracked, unanswered, rewritten>>,
         \A e \in Event : InHand(e)' => InHand(e),
         ToSet(batch') \subseteq ToSet(batch) \cup ToSet(queue),
         loop' \notin {"last", "ended"} => loop \notin {"last", "ended"}
  PROVE  OnceInv'
<1>1. \A e : Copies(e)' = Copies(e) /\ Again(e)' = Again(e)
  BY DEF Copies, Again
<1>2. Untouched'
  <2>. SUFFICES ASSUME NEW e \in Event, e > tracked
                PROVE  ~InHand(e)' /\ e \notin ToSet(batch') /\ Copies(e)' = 0
    BY DEF Untouched
  <2>1. ~InHand(e) /\ e \notin ToSet(batch) /\ Copies(e) = 0
    BY DEF OnceInv, Untouched
  <2>. QED
    BY <1>1, <2>1 DEF InHand
<1>3. ASSUME NEW e \in Event PROVE Bound(e)'
  <2>1. Copies(e) \in Nat /\ unanswered[e] \in Nat /\ Again(e) \in {0, 1}
    BY CopiesType
  <2>2. Copies(e) <= unanswered[e] + Again(e) + (IF InHand(e) THEN 0 ELSE 1)
    BY DEF OnceInv, Bound
  <2>3. InHand(e)' => InHand(e)
    OBVIOUS
  <2>4. Copies(e) <= unanswered[e] + Again(e) + (IF InHand(e)' THEN 0 ELSE 1)
    BY <2>1, <2>2, <2>3
  <2>. QED
    BY <1>1, <2>4 DEF Bound
<1>4. loop' \notin {"last", "ended"} => rewritten' = {}
  BY DEF OnceInv
<1>. QED
  BY <1>2, <1>3, <1>4 DEF OnceInv

(* Each query of a write.                                                  *)
LEMMA BatchOnce ==
  ASSUME TypeOK, TypeOK', Flow, OnceInv, NEW t \in Task, InsertBatch(t)
  PROVE  OnceInv'
<1>1. stage[t] \in Writing /\ UNCHANGED <<queue, loop, batch, memory, tracked, rewritten>>
  BY DEF InsertBatch, Writing
<1>2. PICK reply \in Reply :
        /\ Insert("events", todo[t], reply)
        /\ todo' = IF reply = "ok" THEN [todo EXCEPT ![t] = <<>>] ELSE todo
  BY DEF InsertBatch
<1>3. todo \in [Task -> Seq(Event)] /\ todo[t] \in Seq(Event) /\ Distinct(todo[t])
  BY DEF TypeOK, OnceInv, OnePlace
<1>4. ASSUME NEW e \in Event
      PROVE  /\ reply = "ok" => /\ Copies(e)' = Copies(e) + One(e, todo[t])
                                /\ unanswered'[e] = unanswered[e]
             /\ reply = "lost" => /\ Copies(e)' = Copies(e) + One(e, todo[t])
                                  /\ unanswered'[e] = unanswered[e] + One(e, todo[t])
             /\ reply = "refused" => Copies(e)' = Copies(e) /\ unanswered'[e] = unanswered[e]
             /\ Copies(e) \in Nat /\ unanswered[e] \in Nat /\ One(e, todo[t]) \in {0, 1}
             /\ e \notin ToSet(todo[t]) => One(e, todo[t]) = 0
  <2>. PICK new \in Seq(Event) : new = todo[t]
    BY <1>3
  <2>1. /\ reply = "ok" => /\ InTablesOf(e)' = InTablesOf(e) + One(e, new)
                           /\ unanswered'[e] = unanswered[e]
        /\ reply = "lost" => /\ InTablesOf(e)' = InTablesOf(e) + One(e, new)
                             /\ unanswered'[e] = unanswered[e] + One(e, new)
        /\ reply = "refused" => /\ InTablesOf(e)' = InTablesOf(e)
                                /\ unanswered'[e] = unanswered[e]
    BY <1>2, <1>3, InsertCounts DEF Table
  <2>2. /\ Copies(e) = InTablesOf(e) + Count(memory, e)
        /\ Copies(e)' = InTablesOf(e)' + Count(memory, e)
    BY <1>1 DEF Copies, InTablesOf
  <2>3. Copies(e) \in Nat /\ unanswered[e] \in Nat /\ Count(memory, e) \in Nat
    BY CopiesType
  <2>4. InTablesOf(e) \in Nat
    BY CopiesType DEF InTablesOf, Table
  <2>5. One(e, new) \in {0, 1} /\ (e \notin ToSet(new) => One(e, new) = 0)
    BY DEF One
  <2>. QED
    BY <2>1, <2>2, <2>3, <2>4, <2>5
<1>5. CASE reply = "ok"
  <2>1. todo' = [todo EXCEPT ![t] = <<>>]
    BY <1>2, <1>5
  <2>2. \A e \in Event :
          /\ e \notin ToSet(todo[t]) => Copies(e)' = Copies(e) /\ unanswered'[e] = unanswered[e]
          /\ Copies(e)' + unanswered[e] <= Copies(e) + unanswered'[e] + 1
    BY <1>4, <1>5
  <2>3. <<>> \in Seq(Event) /\ Distinct(<<>>) /\ ToSet(<<>>) = {}
    BY DistinctEmpty, SetOfEmpty
  <2>. QED
    BY <1>1, <2>1, <2>2, <2>3, WritingCounts
<1>6. CASE reply # "ok"
  <2>1. todo' = [todo EXCEPT ![t] = todo[t]]
    BY <1>2, <1>3, <1>6
  <2>2. \A e \in Event :
          /\ e \notin ToSet(todo[t]) => Copies(e)' = Copies(e) /\ unanswered'[e] = unanswered[e]
          /\ Copies(e)' + unanswered[e] <= Copies(e) + unanswered'[e]
          /\ Copies(e)' + unanswered[e] <= Copies(e) + unanswered'[e] + 1
    BY <1>4, <1>6 DEF Reply
  <2>. QED
    BY <1>1, <1>3, <2>1, <2>2, WritingCounts
<1>. QED
  BY <1>5, <1>6

(* A query for the first of the events left.                               *)
LEMMA FirstCounts ==
  ASSUME TypeOK, Flow, OnceInv, NEW t \in Task, stage[t] \in Writing,
         NEW table \in Table, NEW reply \in Reply,
         Insert(table, <<Head(todo[t])>>, reply), NEW e \in Event
  PROVE  /\ reply = "ok" => /\ InTablesOf(e)' = InTablesOf(e) + One(e, <<Head(todo[t])>>)
                            /\ unanswered'[e] = unanswered[e]
         /\ reply = "lost" => /\ InTablesOf(e)' = InTablesOf(e) + One(e, <<Head(todo[t])>>)
                              /\ unanswered'[e] = unanswered[e] + One(e, <<Head(todo[t])>>)
         /\ reply = "refused" => /\ InTablesOf(e)' = InTablesOf(e)
                                 /\ unanswered'[e] = unanswered[e]
         /\ One(e, <<Head(todo[t])>>) \in {0, 1} /\ InTablesOf(e) \in Nat
         /\ e \notin ToSet(todo[t]) \/ e \in ToSet(Tail(todo[t])) => One(e, <<Head(todo[t])>>) = 0
         /\ Tail(todo[t]) \in Seq(Event) /\ Distinct(Tail(todo[t]))
         /\ ToSet(Tail(todo[t])) \subseteq ToSet(todo[t])
<1>1. /\ todo[t] \in Seq(Event) /\ todo[t] # <<>> /\ Head(todo[t]) \in Event
      /\ Tail(todo[t]) \in Seq(Event) /\ <<Head(todo[t])>> \in Seq(Event)
      /\ ToSet(todo[t]) = {Head(todo[t])} \cup ToSet(Tail(todo[t]))
      /\ ToSet(<<Head(todo[t])>>) = {Head(todo[t])}
  BY FirstOfTodo
<1>2. Distinct(todo[t])
  BY DEF OnceInv, OnePlace
<1>3. Distinct(Tail(todo[t])) /\ Head(todo[t]) \notin ToSet(Tail(todo[t]))
  <2>. PICK s \in Seq(Event) : s = todo[t]
    BY <1>1
  <2>1. Distinct(Tail(s)) /\ Head(s) \notin ToSet(Tail(s))
    BY <1>1, <1>2, DistinctTail
  <2>. QED
    BY <2>1
<1>4. Distinct(<<Head(todo[t])>>)
  BY DistinctOne
<1>5. PICK new \in Seq(Event) : new = <<Head(todo[t])>>
  BY <1>1
<1>6. /\ reply = "ok" => /\ InTablesOf(e)' = InTablesOf(e) + One(e, new)
                         /\ unanswered'[e] = unanswered[e]
      /\ reply = "lost" => /\ InTablesOf(e)' = InTablesOf(e) + One(e, new)
                           /\ unanswered'[e] = unanswered[e] + One(e, new)
      /\ reply = "refused" => /\ InTablesOf(e)' = InTablesOf(e)
                              /\ unanswered'[e] = unanswered[e]
  BY <1>4, <1>5, InsertCounts
<1>7. /\ One(e, new) \in {0, 1}
      /\ e \notin ToSet(todo[t]) \/ e \in ToSet(Tail(todo[t])) => One(e, new) = 0
  BY <1>1, <1>3, <1>5 DEF One
<1>8. InTablesOf(e) \in Nat
  BY CopiesType DEF InTablesOf, Table
<1>. QED
  BY <1>1, <1>3, <1>5, <1>6, <1>7, <1>8

LEMMA OneOnce ==
  ASSUME TypeOK, TypeOK', Flow, OnceInv, NEW t \in Task, InsertOne(t)
  PROVE  OnceInv'
<1>1. stage[t] \in Writing /\ UNCHANGED <<queue, loop, batch, memory, tracked, rewritten>>
  BY DEF InsertOne, Writing
<1>2. PICK reply \in Reply :
        /\ Insert("events", <<Head(todo[t])>>, reply)
        /\ todo' = IF reply = "ok" THEN [todo EXCEPT ![t] = Tail(todo[t])] ELSE todo
  BY DEF InsertOne, NextEvent
<1>3. todo \in [Task -> Seq(Event)] /\ todo[t] \in Seq(Event) /\ Distinct(todo[t])
  BY DEF TypeOK, OnceInv, OnePlace
<1>4. ASSUME NEW e \in Event
      PROVE  /\ reply = "ok" => /\ Copies(e)' = Copies(e) + One(e, <<Head(todo[t])>>)
                                /\ unanswered'[e] = unanswered[e]
             /\ reply = "lost" => /\ Copies(e)' = Copies(e) + One(e, <<Head(todo[t])>>)
                                  /\ unanswered'[e] = unanswered[e] + One(e, <<Head(todo[t])>>)
             /\ reply = "refused" => Copies(e)' = Copies(e) /\ unanswered'[e] = unanswered[e]
             /\ Copies(e) \in Nat /\ unanswered[e] \in Nat
             /\ One(e, <<Head(todo[t])>>) \in {0, 1}
             /\ e \notin ToSet(todo[t]) \/ e \in ToSet(Tail(todo[t]))
                  => One(e, <<Head(todo[t])>>) = 0
             /\ Tail(todo[t]) \in Seq(Event) /\ Distinct(Tail(todo[t]))
             /\ ToSet(Tail(todo[t])) \subseteq ToSet(todo[t])
  <2>. PICK one : one = One(e, <<Head(todo[t])>>)
    OBVIOUS
  <2>1. /\ reply = "ok" => /\ InTablesOf(e)' = InTablesOf(e) + one
                           /\ unanswered'[e] = unanswered[e]
        /\ reply = "lost" => /\ InTablesOf(e)' = InTablesOf(e) + one
                             /\ unanswered'[e] = unanswered[e] + one
        /\ reply = "refused" => /\ InTablesOf(e)' = InTablesOf(e)
                                /\ unanswered'[e] = unanswered[e]
        /\ one \in {0, 1} /\ InTablesOf(e) \in Nat
        /\ e \notin ToSet(todo[t]) \/ e \in ToSet(Tail(todo[t])) => one = 0
        /\ Tail(todo[t]) \in Seq(Event) /\ Distinct(Tail(todo[t]))
        /\ ToSet(Tail(todo[t])) \subseteq ToSet(todo[t])
    BY <1>1, <1>2, FirstCounts DEF Table
  <2>2. /\ Copies(e) = InTablesOf(e) + Count(memory, e)
        /\ Copies(e)' = InTablesOf(e)' + Count(memory, e)
    BY <1>1 DEF Copies, InTablesOf
  <2>3. Copies(e) \in Nat /\ unanswered[e] \in Nat /\ Count(memory, e) \in Nat
    BY CopiesType
  <2>. QED
    BY <2>1, <2>2, <2>3
<1>5. CASE reply = "ok"
  <2>1. todo' = [todo EXCEPT ![t] = Tail(todo[t])]
    BY <1>2, <1>5
  <2>2. \A e \in Event :
          /\ e \notin ToSet(todo[t]) => Copies(e)' = Copies(e) /\ unanswered'[e] = unanswered[e]
          /\ e \in ToSet(Tail(todo[t])) => Copies(e)' + unanswered[e] <= Copies(e) + unanswered'[e]
          /\ Copies(e)' + unanswered[e] <= Copies(e) + unanswered'[e] + 1
    BY <1>4, <1>5
  <2>3. /\ Tail(todo[t]) \in Seq(Event) /\ Distinct(Tail(todo[t]))
        /\ ToSet(Tail(todo[t])) \subseteq ToSet(todo[t])
    <3>1. Head(todo[t]) \in Event
      BY <1>1, FirstOfTodo
    <3>. QED
      BY <1>4, <3>1
  <2>. QED
    BY <1>1, <2>1, <2>2, <2>3, WritingCounts
<1>6. CASE reply # "ok"
  <2>1. todo' = [todo EXCEPT ![t] = todo[t]]
    BY <1>2, <1>3, <1>6
  <2>2. \A e \in Event :
          /\ e \notin ToSet(todo[t]) => Copies(e)' = Copies(e) /\ unanswered'[e] = unanswered[e]
          /\ Copies(e)' + unanswered[e] <= Copies(e) + unanswered'[e]
          /\ Copies(e)' + unanswered[e] <= Copies(e) + unanswered'[e] + 1
    BY <1>4, <1>6 DEF Reply
  <2>. QED
    BY <1>1, <1>3, <2>1, <2>2, WritingCounts
<1>. QED
  BY <1>5, <1>6

LEMMA LegacyOnce ==
  ASSUME TypeOK, TypeOK', Flow, OnceInv, NEW t \in Task, InsertLegacy(t)
  PROVE  OnceInv'
<1>1. /\ stage[t] \in Writing /\ UNCHANGED <<queue, loop, batch, tracked, rewritten>>
      /\ todo' = [todo EXCEPT ![t] = Tail(todo[t])]
  BY DEF InsertLegacy, NextEvent, Writing
<1>2. PICK reply \in Reply :
        /\ Insert("bot_events", <<Head(todo[t])>>, reply)
        /\ memory' = IF reply = "ok" THEN memory ELSE Append(memory, Head(todo[t]))
  BY DEF InsertLegacy
<1>3. Head(todo[t]) \in Event /\ memory \in Seq(Event)
  BY <1>1, FirstOfTodo DEF TypeOK
<1>4. ASSUME NEW e \in Event
      PROVE  /\ e \notin ToSet(todo[t]) => Copies(e)' = Copies(e) /\ unanswered'[e] = unanswered[e]
             /\ e \in ToSet(Tail(todo[t])) =>
                  Copies(e)' + unanswered[e] <= Copies(e) + unanswered'[e]
             /\ Copies(e)' + unanswered[e] <= Copies(e) + unanswered'[e] + 1
             /\ Tail(todo[t]) \in Seq(Event) /\ Distinct(Tail(todo[t]))
             /\ ToSet(Tail(todo[t])) \subseteq ToSet(todo[t])
  <2>. PICK one : one = One(e, <<Head(todo[t])>>)
    OBVIOUS
  <2>1. /\ reply = "ok" => /\ InTablesOf(e)' = InTablesOf(e) + one
                           /\ unanswered'[e] = unanswered[e]
        /\ reply = "lost" => /\ InTablesOf(e)' = InTablesOf(e) + one
                             /\ unanswered'[e] = unanswered[e] + one
        /\ reply = "refused" => /\ InTablesOf(e)' = InTablesOf(e)
                                /\ unanswered'[e] = unanswered[e]
        /\ one \in {0, 1} /\ InTablesOf(e) \in Nat
        /\ e \notin ToSet(todo[t]) \/ e \in ToSet(Tail(todo[t])) => one = 0
        /\ Tail(todo[t]) \in Seq(Event) /\ Distinct(Tail(todo[t]))
        /\ ToSet(Tail(todo[t])) \subseteq ToSet(todo[t])
    BY <1>1, <1>2, FirstCounts DEF Table
  <2>2. /\ Copies(e) = InTablesOf(e) + Count(memory, e)
        /\ Copies(e)' = InTablesOf(e)' + Count(memory', e)
    BY DEF Copies, InTablesOf
  <2>3. Copies(e) \in Nat /\ unanswered[e] \in Nat /\ Count(memory, e) \in Nat
    BY CopiesType
  <2>4. reply # "ok" => Count(memory', e) = Count(memory, e) + one
    <3>. SUFFICES ASSUME reply # "ok" PROVE Count(memory', e) = Count(memory, e) + one
      OBVIOUS
    <3>1. memory' = Append(memory, Head(todo[t]))
      BY <1>2
    <3>2. PICK h \in Event, m \in Seq(Event) : h = Head(todo[t]) /\ m = memory
      BY <1>3
    <3>3. Append(m, h) = m \o <<h>> /\ <<h>> \in Seq(Event)
      BY AppendIsConcat
    <3>4. Distinct(<<h>>)
      BY DistinctOne
    <3>5. Count(m \o <<h>>, e) = Count(m, e) + One(e, <<h>>)
      BY <3>3, <3>4, CountConcat DEF One
    <3>. QED
      BY <3>1, <3>2, <3>3, <3>5
  <2>. QED
    BY <1>2, <2>1, <2>2, <2>3, <2>4 DEF Reply
<1>5. /\ Tail(todo[t]) \in Seq(Event) /\ Distinct(Tail(todo[t]))
      /\ ToSet(Tail(todo[t])) \subseteq ToSet(todo[t])
  BY <1>3, <1>4
<1>. QED
  BY <1>1, <1>4, <1>5, WritingCounts

-----------------------------------------------------------------------------
(* The other steps.                                                        *)
LEMMA TrackOnce ==
  ASSUME TypeOK, OnceInv, Track
  PROVE  OnceInv'
<1>1. tracked \in Nat /\ tracked' = tracked + 1 /\ tracked' \in Event
  BY TrackerAssumption DEF Track, TypeOK, Event
<1>2. PICK new \in Event : new = tracked' /\ new > tracked
  BY <1>1
<1>3. /\ UNCHANGED <<batch, todo, rows, memory, unanswered, rewritten>>
      /\ loop' = IF loop = "off" THEN "get" ELSE loop
      /\ queue' = Append(queue, new) /\ queue \in Seq(Event)
  BY <1>2 DEF Track, TypeOK
<1>4. /\ ~InHand(new) /\ new \notin ToSet(batch) /\ Copies(new) = 0
  BY <1>2 DEF OnceInv, Untouched
<1>5. ToSet(queue') = ToSet(queue) \cup {new} /\ Distinct(queue')
  <2>1. PICK q \in Seq(Event) : q = queue
    BY <1>3
  <2>2. ToSet(Append(q, new)) = ToSet(q) \cup {new}
    BY SetOfAppend
  <2>3. Append(q, new) = q \o <<new>> /\ <<new>> \in Seq(Event)
    BY AppendIsConcat
  <2>4. Distinct(<<new>>) /\ ToSet(<<new>>) = {new}
    BY DistinctOne
  <2>5. Distinct(q) /\ new \notin ToSet(q)
    BY <1>4, <2>1 DEF OnceInv, OnePlace, InHand
  <2>6. Distinct(q \o <<new>>)
    BY <2>3, <2>4, <2>5, DistinctConcat
  <2>. QED
    BY <1>3, <2>1, <2>2, <2>3, <2>6
<1>6. OnePlace'
  BY <1>3, <1>4, <1>5 DEF OnceInv, OnePlace, InHand
<1>7. /\ \A e : Copies(e)' = Copies(e) /\ Again(e)' = Again(e)
      /\ \A e : e # new => (InHand(e)' => InHand(e))
  BY <1>3, <1>5 DEF Copies, Again, InHand
<1>8. Untouched'
  <2>. SUFFICES ASSUME NEW e \in Event, e > tracked'
                PROVE  ~InHand(e)' /\ e \notin ToSet(batch) /\ Copies(e)' = 0
    BY <1>3 DEF Untouched
  <2>1. e > tracked /\ e # new
    BY <1>1, <1>2 DEF Event
  <2>. QED
    BY <1>7, <2>1 DEF OnceInv, Untouched
<1>9. ASSUME NEW e \in Event PROVE Bound(e)'
  <2>1. Copies(e) \in Nat /\ unanswered[e] \in Nat /\ Again(e) \in {0, 1}
    BY CopiesType
  <2>2. Copies(e) <= unanswered[e] + Again(e) + (IF InHand(e) THEN 0 ELSE 1)
    BY DEF OnceInv, Bound
  <2>3. Copies(e) <= unanswered[e] + Again(e) + (IF InHand(e)' THEN 0 ELSE 1)
    <3>1. CASE e = new
      <4>1. Copies(e) = 0
        BY <1>4, <3>1
      <4>. QED
        BY <2>1, <4>1
    <3>2. CASE e # new
      <4>1. InHand(e)' => InHand(e)
        BY <1>7, <3>2
      <4>. QED
        BY <2>1, <2>2, <4>1
    <3>. QED
      BY <3>1, <3>2
  <2>. QED
    BY <1>3, <1>7, <2>3 DEF Bound
<1>10. loop' \notin {"last", "ended"} => rewritten' = {}
  BY <1>3 DEF OnceInv
<1>. QED
  BY <1>6, <1>8, <1>9, <1>10 DEF OnceInv

LEMMA TakeOnce ==
  ASSUME TypeOK, Flow, OnceInv, NEW n \in 0..Len(queue), Take(n), loop \in {"get", "collect"},
         UNCHANGED <<rows, memory, tracked, unanswered, rewritten>>
  PROVE  OnceInv'
<1>. PICK q \in Seq(Event), b \in Seq(Event) : q = queue /\ b = batch
  BY DEF TypeOK
<1>. DEFINE x == SubSeq(q, 1, n)
            y == SubSeq(q, n + 1, Len(q))
<1>1. /\ x \in Seq(Event) /\ y \in Seq(Event) /\ ToSet(q) = ToSet(x) \cup ToSet(y)
  BY SetOfSplit
<1>2. /\ Distinct(x) /\ Distinct(y) /\ ToSet(x) \cap ToSet(y) = {}
  <2>1. Distinct(q)
    BY DEF OnceInv, OnePlace
  <2>. QED
    BY <2>1, DistinctSplit
<1>3. batch' = b \o x /\ queue' = y
  BY DEF Take
<1>. HIDE DEF x, y
<1>4. /\ b \o x \in Seq(Event) /\ ToSet(b \o x) = ToSet(b) \cup ToSet(x)
  BY <1>1, SetOfConcat
<1>5. Distinct(b \o x)
  <2>1. Distinct(b) /\ ToSet(b) \cap ToSet(x) = {}
    BY <1>1 DEF OnceInv, OnePlace
  <2>. QED
    BY <1>1, <1>2, <2>1, DistinctConcat
<1>6. Loop \in Task /\ todo[Loop] = <<>> /\ todo \in [Task -> Seq(Event)]
  BY DEF Flow, Task, Writing, TypeOK
<1>7. /\ \A u \in Task : u # Loop => todo'[u] = todo[u]
      /\ \/ loop' = "write" /\ todo'[Loop] = batch'
         \/ loop' = "collect" /\ todo'[Loop] = <<>>
  BY <1>6 DEF Take, Flush
<1>8. OnePlace'
  <2>1. Distinct(todo'[Loop]) /\ ToSet(todo'[Loop]) \subseteq ToSet(batch')
    BY <1>3, <1>5, <1>7, DistinctEmpty, SetOfEmpty
  <2>2. \A u \in Task : u # Loop => ToSet(batch') \cap ToSet(todo'[u]) = {}
    BY <1>1, <1>3, <1>4, <1>7 DEF OnceInv, OnePlace
  <2>3. \A u \in Task : Distinct(todo'[u])
    BY <1>7, <2>1 DEF OnceInv, OnePlace
  <2>4. ToSet(queue') \cap ToSet(batch') = {}
    BY <1>1, <1>2, <1>3, <1>4 DEF OnceInv, OnePlace
  <2>5. \A u \in Task : ToSet(queue') \cap ToSet(todo'[u]) = {}
    BY <1>1, <1>3, <1>7, <2>1, <2>4 DEF OnceInv, OnePlace
  <2>6. \A u, v \in Task : u # v => ToSet(todo'[u]) \cap ToSet(todo'[v]) = {}
    BY <1>7, <2>1, <2>2 DEF OnceInv, OnePlace
  <2>. QED
    BY <1>2, <1>3, <1>5, <2>2, <2>3, <2>4, <2>5, <2>6 DEF OnePlace
<1>9. \A e \in Event : InHand(e)' => InHand(e)
  <2>1. loop = "get" => ToSet(b) = {}
    BY SetOfEmpty DEF Flow
  <2>2. \A e \in ToSet(batch') : InHand(e)
    BY <1>1, <1>3, <1>4, <2>1 DEF InHand
  <2>3. \A e \in ToSet(queue') : InHand(e)
    BY <1>1, <1>3 DEF InHand
  <2>4. \A u \in Task : \A e \in ToSet(todo'[u]) : e \in ToSet(batch') \/ e \in ToSet(todo[u])
    BY <1>7, SetOfEmpty
  <2>. QED
    BY <2>2, <2>3, <2>4 DEF InHand
<1>10. ToSet(batch') \subseteq ToSet(batch) \cup ToSet(queue)
  BY <1>1, <1>3, <1>4
<1>. QED
  BY <1>8, <1>9, <1>10, MovingCounts

LEMMA GetOnce ==
  ASSUME TypeOK, Flow, OnceInv, GetFirst \/ GetMore
  PROVE  OnceInv'
<1>1. queue \in Seq(Event) /\ BatchSize \in Nat \ {0} /\ Len(queue) \in Nat
  BY TrackerAssumption DEF TypeOK
<1>2. queue # <<>> => 1 \in 0..Len(queue)
  BY <1>1
<1>3. (IF Len(queue) < BatchSize THEN Len(queue) ELSE BatchSize) \in 0..Len(queue)
  BY <1>1
<1>4. CASE GetFirst
  BY <1>3, <1>4, TakeOnce DEF GetFirst, history
<1>5. CASE GetMore
  BY <1>2, <1>5, TakeOnce DEF GetMore, history
<1>. QED
  BY <1>4, <1>5

LEMMA IntervalOverOnce ==
  ASSUME TypeOK, Flow, OnceInv, IntervalOver
  PROVE  OnceInv'
<1>1. /\ loop = "collect" /\ loop' = "write" /\ todo' = [todo EXCEPT ![Loop] = batch]
      /\ UNCHANGED <<queue, batch, rows, memory, tracked, unanswered, rewritten>>
  BY DEF IntervalOver, Flush, history
<1>2. Loop \in Task /\ todo \in [Task -> Seq(Event)]
  BY DEF Task, TypeOK
<1>3. todo'[Loop] = batch /\ \A u \in Task : u # Loop => todo'[u] = todo[u]
  BY <1>1, <1>2
<1>4. OnePlace'
  BY <1>1, <1>3 DEF OnceInv, OnePlace
<1>5. \A e \in Event : InHand(e)' => InHand(e)
  BY <1>1, <1>3 DEF InHand
<1>. QED
  BY <1>1, <1>4, <1>5, MovingCounts

LEMMA FlushedOnce ==
  ASSUME TypeOK, OnceInv, Flushed
  PROVE  OnceInv'
<1>1. /\ loop \in {"write", "last"} /\ loop' = IF loop = "last" THEN "ended" ELSE "get"
      /\ batch' = <<>>
      /\ UNCHANGED <<queue, todo, rows, memory, tracked, unanswered, rewritten>>
  BY DEF Flushed, history
<1>2. Distinct(<<>>) /\ ToSet(<<>>) = {}
  BY DistinctEmpty, SetOfEmpty
<1>3. OnePlace'
  BY <1>1, <1>2 DEF OnceInv, OnePlace
<1>4. \A e \in Event : InHand(e)' => InHand(e)
  BY <1>1 DEF InHand
<1>. QED
  BY <1>1, <1>2, <1>3, <1>4, MovingCounts

LEMMA FlushEventsOnce ==
  ASSUME TypeOK, Flow, OnceInv, NEW t \in Task, t # Loop, todo[t] = <<>>, FlushEvents(t),
         UNCHANGED <<loop, batch, rows, memory, tracked, unanswered, rewritten>>
  PROVE  OnceInv'
<1>1. queue' = <<>> /\ todo' = [todo EXCEPT ![t] = queue] /\ todo \in [Task -> Seq(Event)]
  BY DEF FlushEvents, Flush, TypeOK
<1>2. todo'[t] = queue /\ \A u \in Task : u # t => todo'[u] = todo[u]
  BY <1>1
<1>3. Distinct(<<>>) /\ ToSet(<<>>) = {}
  BY DistinctEmpty, SetOfEmpty
<1>4. OnePlace'
  BY <1>1, <1>2, <1>3 DEF OnceInv, OnePlace
<1>5. \A e \in Event : InHand(e)' => InHand(e)
  BY <1>1, <1>2, <1>3 DEF InHand
<1>. QED
  BY <1>4, <1>5, MovingCounts

LEMMA RecordElsewhereOnce ==
  ASSUME TypeOK, TypeOK', OnceInv, NEW e \in Foreign, RecordElsewhere(e)
  PROVE  OnceInv'
<1>1. /\ UNCHANGED <<queue, loop, batch, todo, memory, tracked, unanswered, rewritten>>
      /\ rows' = [rows EXCEPT !["bot_events"] = Append(rows["bot_events"], e)]
  BY DEF RecordElsewhere, history
<1>2. rows \in [Table -> Seq(Event \cup Foreign)] /\ "bot_events" \in Table
  BY DEF TypeOK, Table
<1>3. e \notin Event
  BY TrackerAssumption DEF Event, Foreign
<1>4. PICK new \in Event \cup Foreign : new = e
  OBVIOUS
<1>5. <<new>> \in Seq(Event \cup Foreign) /\ Distinct(<<new>>) /\ ToSet(<<new>>) = {new}
  BY DistinctOne
<1>6. rows' = [rows EXCEPT !["bot_events"] = rows["bot_events"] \o <<new>>]
  BY <1>1, <1>2, <1>4, AppendIsConcat
<1>7. ASSUME NEW f \in Event PROVE Copies(f)' = Copies(f)
  <2>1. InTablesOf(f)' = InTablesOf(f) + One(f, <<new>>)
    BY <1>2, <1>5, <1>6, RowsCounts DEF InTablesOf
  <2>2. One(f, <<new>>) = 0
    BY <1>3, <1>4, <1>5 DEF One
  <2>3. InTablesOf(f) \in Nat
    BY CopiesType DEF InTablesOf, Table
  <2>. QED
    BY <1>1, <2>1, <2>2, <2>3 DEF Copies, InTablesOf
<1>8. OnePlace' /\ \A f : InHand(f)' <=> InHand(f)
  BY <1>1 DEF OnceInv, OnePlace, InHand
<1>9. Untouched'
  BY <1>1, <1>7, <1>8 DEF OnceInv, Untouched
<1>10. \A f \in Event : Bound(f)'
  BY <1>1, <1>7, <1>8 DEF OnceInv, Bound, Again
<1>11. loop' \notin {"last", "ended"} => rewritten' = {}
  BY <1>1 DEF OnceInv
<1>. QED
  BY <1>8, <1>9, <1>10, <1>11 DEF OnceInv

LEMMA LogElsewhereOnce ==
  ASSUME OnceInv, NEW e \in Foreign, LogElsewhere(e)
  PROVE  OnceInv'
<1>1. UNCHANGED OnceVars
  BY DEF LogElsewhere, history, OnceVars
<1>. QED
  BY <1>1, OnceStays

(* A query that is cut short stores its events once more, or not.          *)
LEMMA CutShortCounts ==
  ASSUME TypeOK, Flow, OnceInv, NEW t \in Task, CutShort(t), UNCHANGED memory, NEW e \in Event
  PROVE  /\ Copies(e)' \in Nat /\ Copies(e) <= Copies(e)' /\ Copies(e)' <= Copies(e) + 1
         /\ e \notin ToSet(todo[t]) => Copies(e)' = Copies(e)
<1>1. rows \in [Table -> Seq(Event \cup Foreign)] /\ InFlight(t)[1] \in Table
  BY DEF TypeOK, InFlight, Table
<1>2. Copies(e) \in Nat /\ Count(memory, e) \in Nat /\ InTablesOf(e) \in Nat
  BY CopiesType DEF InTablesOf, Table
<1>3. CASE rows' = rows
  <2>1. Copies(e)' = Copies(e)
    BY <1>3 DEF Copies
  <2>. QED
    BY <1>2, <2>1
<1>4. CASE rows' # rows
  <2>1. /\ InFlight(t)[1] \in usable
        /\ rows' = [rows EXCEPT ![InFlight(t)[1]] = rows[InFlight(t)[1]] \o InFlight(t)[2]]
    BY <1>4 DEF CutShort
  <2>2. /\ InFlight(t)[2] \in Seq(Event) /\ Distinct(InFlight(t)[2])
        /\ ToSet(InFlight(t)[2]) \subseteq ToSet(todo[t])
    <3>1. CASE stage[t] = "bulk"
      <4>1. todo[t] \in Seq(Event) /\ Distinct(todo[t])
        BY DEF TypeOK, OnceInv, OnePlace
      <4>. QED
        BY <3>1, <4>1 DEF InFlight
    <3>2. CASE stage[t] \in {"single", "legacy"}
      <4>1. /\ <<Head(todo[t])>> \in Seq(Event)
            /\ ToSet(<<Head(todo[t])>>) \subseteq ToSet(todo[t])
        BY <3>2, FirstOfTodo DEF Writing
      <4>2. Distinct(<<Head(todo[t])>>)
        BY DistinctOne
      <4>. QED
        BY <3>2, <4>1, <4>2 DEF InFlight
    <3>3. CASE stage[t] \notin {"bulk", "single", "legacy"}
      <4>1. InFlight(t)[2] = <<>>
        BY <3>3 DEF InFlight
      <4>2. <<>> \in Seq(Event) /\ Distinct(<<>>) /\ ToSet(<<>>) = {}
        BY DistinctEmpty, SetOfEmpty
      <4>. QED
        BY <4>1, <4>2
    <3>. QED
      BY <3>1, <3>2, <3>3
  <2>3. PICK table \in Table, new \in Seq(Event) :
          /\ rows' = [rows EXCEPT ![table] = rows[table] \o new]
          /\ Distinct(new) /\ ToSet(new) \subseteq ToSet(todo[t])
    BY <1>1, <2>1, <2>2
  <2>4. new \in Seq(Event \cup Foreign)
    BY WiderSeq
  <2>5. InTablesOf(e)' = InTablesOf(e) + One(e, new)
    BY <2>3, <2>4, RowsCounts DEF InTablesOf
  <2>6. One(e, new) \in {0, 1} /\ (e \notin ToSet(todo[t]) => One(e, new) = 0)
    BY <2>3 DEF One
  <2>7. /\ Copies(e) = InTablesOf(e) + Count(memory, e)
        /\ Copies(e)' = InTablesOf(e)' + Count(memory, e)
    BY DEF Copies, InTablesOf
  <2>. QED
    BY <1>2, <2>5, <2>6, <2>7
<1>. QED
  BY <1>3, <1>4

LEMMA CancelReportOnce ==
  ASSUME TypeOK, TypeOK', Flow, OnceInv, NEW r \in Report, CancelReport(r)
  PROVE  OnceInv'
<1>1. /\ CutShort(r) /\ todo' = [todo EXCEPT ![r] = <<>>] /\ r \in Task
      /\ UNCHANGED <<queue, loop, batch, memory, tracked, unanswered, rewritten>>
  BY DEF CancelReport, Task
<1>2. \A e \in Event :
        /\ e \notin ToSet(todo[r]) => Copies(e)' = Copies(e) /\ unanswered'[e] = unanswered[e]
        /\ Copies(e)' + unanswered[e] <= Copies(e) + unanswered'[e] + 1
  <2>. SUFFICES ASSUME NEW e \in Event
                PROVE  /\ e \notin ToSet(todo[r]) =>
                            Copies(e)' = Copies(e) /\ unanswered'[e] = unanswered[e]
                       /\ Copies(e)' + unanswered[e] <= Copies(e) + unanswered'[e] + 1
    OBVIOUS
  <2>1. /\ Copies(e)' \in Nat /\ Copies(e)' <= Copies(e) + 1
        /\ e \notin ToSet(todo[r]) => Copies(e)' = Copies(e)
    BY <1>1, CutShortCounts
  <2>2. Copies(e) \in Nat /\ unanswered[e] \in Nat
    BY CopiesType
  <2>. QED
    BY <1>1, <2>1, <2>2
<1>3. <<>> \in Seq(Event) /\ Distinct(<<>>) /\ ToSet(<<>>) = {}
  BY DistinctEmpty, SetOfEmpty
<1>. QED
  BY <1>1, <1>2, <1>3, WritingCounts

(* The loop writes its whole batch again, and what was queued.             *)
LEMMA CancelLoopOnce ==
  ASSUME TypeOK, TypeOK', Flow, Batches, OnceInv, CancelLoop
  PROVE  OnceInv'
<1>1. CASE loop = "off"
  BY <1>1, OnceStays DEF CancelLoop, OnceVars
<1>2. CASE loop # "off"
  <2>1. /\ CutShort(Loop) /\ rewritten' = (IF loop = "write" THEN ToSet(batch) ELSE {})
        /\ batch' = batch \o queue /\ queue' = <<>> /\ loop' = "last"
        /\ todo' = [todo EXCEPT ![Loop] = batch'] /\ UNCHANGED <<memory, tracked, unanswered>>
    BY <1>2 DEF CancelLoop, Flush
  <2>2. /\ Loop \in Task /\ todo \in [Task -> Seq(Event)] /\ loop \notin {"last", "ended"}
        /\ queue \in Seq(Event) /\ batch \in Seq(Event)
    BY DEF CancelLoop, Flow, Task, TypeOK
  <2>3. /\ todo'[Loop] = batch' /\ \A u \in Task : u # Loop => todo'[u] = todo[u]
    BY <2>1, <2>2
  <2>4. /\ ToSet(batch') = ToSet(batch) \cup ToSet(queue) /\ Distinct(batch')
    <3>. PICK b \in Seq(Event), q \in Seq(Event) : b = batch /\ q = queue
      BY <2>2
    <3>1. ToSet(b \o q) = ToSet(b) \cup ToSet(q)
      BY SetOfConcat
    <3>2. Distinct(b) /\ Distinct(q) /\ ToSet(b) \cap ToSet(q) = {}
      BY DEF OnceInv, OnePlace
    <3>3. Distinct(b \o q)
      BY <3>2, DistinctConcat
    <3>. QED
      BY <2>1, <3>1, <3>3
  <2>5. Distinct(<<>>) /\ ToSet(<<>>) = {}
    BY DistinctEmpty, SetOfEmpty
  <2>6. OnePlace'
    <3>1. \A u \in Task : u # Loop => ToSet(batch') \cap ToSet(todo'[u]) = {}
      BY <2>3, <2>4 DEF OnceInv, OnePlace
    <3>2. \A u \in Task : Distinct(todo'[u])
      BY <2>3, <2>4 DEF OnceInv, OnePlace
    <3>3. \A u, v \in Task : u # v => ToSet(todo'[u]) \cap ToSet(todo'[v]) = {}
      BY <2>3, <3>1 DEF OnceInv, OnePlace
    <3>. QED
      BY <2>1, <2>4, <2>5, <3>1, <3>2, <3>3 DEF OnePlace
  <2>7. rewritten = {}
    BY <2>2 DEF OnceInv
  <2>8. \A e : InHand(e)' => InHand(e) \/ e \in ToSet(batch)
    BY <2>1, <2>3, <2>4, <2>5 DEF InHand
  <2>9. Untouched'
    <3>. SUFFICES ASSUME NEW e \in Event, e > tracked
                  PROVE  ~InHand(e)' /\ e \notin ToSet(batch') /\ Copies(e)' = 0
      BY <2>1 DEF Untouched
    <3>1. ~InHand(e) /\ e \notin ToSet(batch) /\ Copies(e) = 0
      BY DEF OnceInv, Untouched
    <3>2. Copies(e)' = Copies(e)
      <4>1. e \notin ToSet(todo[Loop])
        BY <2>2, <3>1 DEF InHand
      <4>. QED
        BY <2>1, <2>2, <4>1, CutShortCounts
    <3>. QED
      BY <2>4, <2>8, <3>1, <3>2 DEF InHand
  <2>10. ASSUME NEW e \in Event PROVE Bound(e)'
    <3>1. /\ Copies(e)' \in Nat /\ Copies(e)' <= Copies(e) + 1
          /\ e \notin ToSet(todo[Loop]) => Copies(e)' = Copies(e)
      BY <2>1, <2>2, CutShortCounts
    <3>2. Copies(e) \in Nat /\ unanswered[e] \in Nat /\ unanswered'[e] = unanswered[e]
      BY <2>1, CopiesType
    <3>3. Copies(e) <= unanswered[e] + (IF InHand(e) THEN 0 ELSE 1)
      <4>1. Copies(e) <= unanswered[e] + Again(e) + (IF InHand(e) THEN 0 ELSE 1) /\ Again(e) = 0
        BY <2>7 DEF OnceInv, Bound, Again
      <4>. QED
        BY <3>2, <4>1
    <3>4. Again(e)' \in {0, 1} /\ (e \in rewritten' => Again(e)' = 1)
      BY DEF Again
    <3>5. e \in ToSet(todo[Loop]) => InHand(e) /\ e \in rewritten'
      <4>. SUFFICES ASSUME e \in ToSet(todo[Loop]) PROVE InHand(e) /\ e \in rewritten'
        OBVIOUS
      <4>1. todo[Loop] # <<>> /\ e \in ToSet(batch)
        BY <2>5 DEF Batches
      <4>2. loop = "write"
        BY <2>2, <4>1 DEF Flow, Writing
      <4>. QED
        BY <2>1, <2>2, <4>1, <4>2 DEF InHand
    <3>6. e \notin ToSet(todo[Loop]) => \/ InHand(e)' => InHand(e)
                                        \/ e \in rewritten'
      <4>. SUFFICES ASSUME InHand(e)', ~InHand(e) PROVE e \in rewritten'
        OBVIOUS
      <4>1. e \in ToSet(batch)
        BY <2>8
      <4>2. batch # <<>> /\ loop # "collect"
        BY <2>5, <4>1 DEF InHand
      <4>3. loop = "write"
        BY <2>2, <4>2 DEF Flow, TypeOK
      <4>. QED
        BY <2>1, <4>1, <4>3
    <3>7. Copies(e)' <= unanswered[e] + Again(e)' + (IF InHand(e)' THEN 0 ELSE 1)
      <4>1. CASE e \in ToSet(todo[Loop])
        BY <3>1, <3>2, <3>3, <3>4, <3>5, <4>1
      <4>2. CASE e \notin ToSet(todo[Loop])
        BY <3>1, <3>2, <3>3, <3>4, <3>6, <4>2
      <4>. QED
        BY <4>1, <4>2
    <3>. QED
      BY <3>2, <3>7 DEF Bound
  <2>. QED
    BY <2>1, <2>6, <2>9, <2>10 DEF OnceInv
<1>. QED
  BY <1>1, <1>2

-----------------------------------------------------------------------------
LEMMA OnceInit == Init => OnceInv
<1>. SUFFICES ASSUME Init PROVE OnceInv
  OBVIOUS
<1>1. /\ queue = <<>> /\ batch = <<>> /\ memory = <<>> /\ rewritten = {}
      /\ rows["events"] = <<>> /\ rows["bot_events"] = <<>>
      /\ \A t \in Task : todo[t] = <<>>
      /\ \A e \in Event : unanswered[e] = 0
  BY DEF Init, Table
<1>2. Distinct(<<>>) /\ ToSet(<<>>) = {}
  BY DistinctEmpty, SetOfEmpty
<1>3. \A e : ~InHand(e)
  BY <1>1, <1>2 DEF InHand
<1>4. OnePlace
  BY <1>1, <1>2 DEF OnePlace
<1>5. ASSUME NEW e \in Event PROVE Copies(e) = 0
  <2>1. <<>> \in Seq(Event)
    OBVIOUS
  <2>2. Count(<<>>, e) = 0
    BY <1>2, <2>1, CountType
  <2>. QED
    BY <1>1, <2>2 DEF Copies
<1>6. Untouched
  BY <1>1, <1>2, <1>3, <1>5 DEF Untouched
<1>7. \A e \in Event : Bound(e)
  BY <1>1, <1>3, <1>5 DEF Bound, Again
<1>. QED
  BY <1>1, <1>4, <1>6, <1>7 DEF OnceInv

LEMMA OnceStep ==
  ASSUME IInv, IInv', OnceInv, [Next]_vars
  PROVE  OnceInv'
<1>. TypeOK /\ TypeOK' /\ Flow /\ Batches
  BY DEF IInv
<1>1. ASSUME NEW t \in Task, Write(t) PROVE OnceInv'
  BY <1>1, BatchOnce, OneOnce, LegacyOnce DEF Write
<1>2. CASE Track
  BY <1>2, TrackOnce
<1>3. CASE \E e \in Foreign : RecordElsewhere(e) \/ LogElsewhere(e)
  BY <1>3, RecordElsewhereOnce, LogElsewhereOnce
<1>4. CASE LoopStep
  BY <1>1, <1>4, GetOnce, IntervalOverOnce, FlushedOnce DEF LoopStep, Task
<1>5. ASSUME NEW t \in Task, t # Loop, stage[t] = "idle", FlushEvents(t),
             UNCHANGED <<loop, batch, rows, memory, tracked, unanswered, rewritten>>
      PROVE  OnceInv'
  <2>1. todo[t] = <<>>
    BY <1>5 DEF Flow, Writing
  <2>. QED
    BY <1>5, <2>1, FlushEventsOnce
<1>6. ASSUME NEW r \in Report, BeginReport(r) \/ ReportStep(r) \/ CancelReport(r)
      PROVE  OnceInv'
  <2>1. CASE BeginReport(r)
    BY <1>5, <2>1, TrackerAssumption DEF BeginReport, Task, history
  <2>2. CASE Write(r)
    BY <1>1, <2>2 DEF Task
  <2>3. CASE ReadEvents(r)
    BY <2>3, OnceStays DEF ReadEvents, OnceVars, history
  <2>4. CASE ReadLogs(r)
    BY <2>4, OnceStays DEF ReadLogs, OnceVars, history
  <2>5. CASE CancelReport(r)
    BY <2>5, CancelReportOnce
  <2>. QED
    BY <1>6, <2>1, <2>2, <2>3, <2>4, <2>5 DEF ReportStep
<1>7. CASE Shutdown
  <2>1. stage[Closer] = "idle"
    BY <1>7 DEF Shutdown, Flow
  <2>. QED
    BY <1>5, <1>7, <2>1, TrackerAssumption DEF Shutdown, Task, history
<1>8. CASE Write(Closer)
  BY <1>1, <1>8 DEF Task
<1>9. CASE Quit \/ Exit
  BY <1>9, OnceStays DEF Quit, Exit, OnceVars, history
<1>10. CASE CancelLoop
  BY <1>10, CancelLoopOnce
<1>11. CASE UNCHANGED vars
  BY <1>11, OnceStays DEF vars, OnceVars, history
<1>. QED
  BY <1>2, <1>3, <1>4, <1>6, <1>7, <1>8, <1>9, <1>10, <1>11 DEF Next, Over

(* An event is stored once, and once more only for each write of it whose  *)
(* reply was lost and when the loop was cancelled while writing it,        *)
(* whatever queries fail and whenever the process ends                     *)
(* (supabase_client.py:429-508, tracker.py:64-150).                        *)
THEOREM EventsStoredOnce == Spec => []StoredOnce
<1>1. Init => OnceInv
  BY OnceInit
<1>2. IInv /\ IInv' /\ OnceInv /\ [Next]_vars => OnceInv'
  BY OnceStep
<1>3. IInv /\ OnceInv => StoredOnce
  BY OnceStored DEF IInv
<1>. QED
  BY <1>1, <1>2, <1>3, Invariance, PTL DEF Spec

-----------------------------------------------------------------------------
(* The rows that a report has read are rows of their tables.               *)

LEMMA RowsType ==
  ASSUME NEW S, NEW X, NEW of \in [S -> X], NEW seq \in Seq(S)
  PROVE  Rows(seq, of) \in Seq(X)
<1> DEFINE n == Len(seq)
<1>1. n \in Nat /\ DOMAIN seq = 1..n /\ \A i \in 1..n : seq[i] \in S
  BY LenProperties, ElementOfSeq
<1>2. Rows(seq, of) \in [1..n -> X]
  <2> HIDE DEF n
  <2> QED
    BY <1>1 DEF Rows
<1> HIDE DEF n
<1> QED
  BY <1>1, <1>2, MadeSeq

LEMMA ReportRows ==
  ASSUME TypeOK, NEW r \in Report
  PROVE  /\ Rows(shown[r].events, EventRow) \in Seq(EventRows)
         /\ Rows(shown[r].gens, GenerationRow) \in Seq(GenerationRows)
<1>1. shown[r].events \in Seq(Event \cup Foreign) /\ shown[r].gens \in Seq(Foreign)
  BY DEF TypeOK
<1>2. /\ EventRow \in [Event \cup Foreign -> EventRows]
      /\ GenerationRow \in [Foreign -> GenerationRows]
  BY RowsAssumption DEF RowsAssumption
<1> QED
  BY <1>1, <1>2, RowsType

LEMMA PagesHold == TypeOK => ReportAddsUp
<1> SUFFICES ASSUME TypeOK, NEW r \in Report, Finished(r)
             PROVE  PagesAgree(ReportOf(r))
  BY DEF ReportAddsUp
<1>1. Transactions \in Seq(TransactionRows)
  BY RowsAssumption DEF RowsAssumption
<1> QED
  BY <1>1, ReportRows, PagesOfSummary DEF ReportOf

LEMMA TablesHold == TypeOK => TablesRanked
<1> SUFFICES ASSUME TypeOK, NEW r \in Report, Finished(r)
             PROVE  LET events == Rows(shown[r].events, EventRow)
                    IN  CountsClicks(TopButtons(events), events)
  BY DEF TablesRanked
<1>1. Rows(shown[r].events, EventRow) \in Seq(EventRows)
  BY ReportRows
<1> QED
  BY <1>1, ButtonsCounted

(* The pages of a report agree, with themselves and with each other,       *)
(* whatever was stored, stored twice or read in between                    *)
(* (_compute_metrics_summary, supabase_client.py).                         *)
THEOREM ReportsAddUp == Spec => []ReportAddsUp
<1>1. TypeOK => ReportAddsUp
  BY PagesHold
<1>. QED
  BY <1>1, TypeCorrect, PTL

(* The table of buttons of a report counts the clicks it has read, most    *)
(* clicked first, in whatever order the flushes stored them                *)
(* (supabase_client.py:796-820).                                           *)
THEOREM ReportsRanked == Spec => []TablesRanked
<1>1. TypeOK => TablesRanked
  BY TablesHold
<1>. QED
  BY <1>1, TypeCorrect, PTL
=============================================================================
