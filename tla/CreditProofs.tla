---------------------------- MODULE CreditProofs ----------------------------
(***************************************************************************)
(* Theorems about CreditStore, for every set of users, charges, tasks and  *)
(* processes, and any number of failing queries; and about the ledger it   *)
(* is meant to keep.                                                       *)
(***************************************************************************)
EXTENDS CreditStore, TLAPS

(* A call that has recorded its charge and has yet to add the credits.     *)
OwesCredits(c) == then[c] = "write" /\ pc[c] \in {"select", "open", "reset", "write"}

ControlTypeOK ==
  /\ pc \in [Call -> PCs] /\ then \in [Call -> {"return", "rpc", "write"}]
  /\ charge \in [Call -> Charge] /\ recorded \subseteq Charge
  /\ credited \in [Charge -> Nat]

(* The unique index lets one call record a charge, and that one alone owes *)
(* its credits, until it adds them or gives up.                            *)
OneCreditor ==
  /\ \A c \in Call : OwesCredits(c) =>
       /\ charge[c] \in recorded
       /\ credited[charge[c]] = 0
       /\ \A d \in Call : OwesCredits(d) /\ charge[d] = charge[c] => d = c
  /\ \A ch \in Charge : credited[ch] <= 1 /\ (credited[ch] > 0 => ch \in recorded)

(* Only a call that was told to add credits comes to the write.            *)
WriterAdds == \A c \in Call : pc[c] = "write" => then[c] = "write"

CreditInv == ControlTypeOK /\ WriterAdds /\ OneCreditor

-----------------------------------------------------------------------------
(* A step of c after which c owes no credits it did not owe before.        *)
NoNewDebt(c) ==
  /\ pc' \in [Call -> PCs] /\ then' \in [Call -> {"return", "rpc", "write"}]
  /\ charge' \in [Call -> Charge]
  /\ \A d \in Call \ {c} : pc'[d] = pc[d] /\ then'[d] = then[d] /\ charge'[d] = charge[d]
  /\ OwesCredits(c)' => OwesCredits(c) /\ charge'[c] = charge[c]
  /\ pc'[c] = "write" => then'[c] = "write"

LEMMA NoNewDebtKeeps ==
  ASSUME CreditInv, NEW c \in Call, NoNewDebt(c), UNCHANGED <<recorded, credited>>
  PROVE  CreditInv'
<1>1. ControlTypeOK'
  BY DEF CreditInv, ControlTypeOK, NoNewDebt
<1>2. \A d \in Call : OwesCredits(d)' => OwesCredits(d) /\ charge'[d] = charge[d]
  BY DEF NoNewDebt, OwesCredits
<1>3. OneCreditor'
  BY <1>2 DEF CreditInv, OneCreditor
<1>4. WriterAdds'
  BY DEF CreditInv, WriterAdds, NoNewDebt
<1>. QED
  BY <1>1, <1>3, <1>4 DEF CreditInv

LEMMA StartType ==
  ASSUME CreditInv, NEW c \in Call, NEW next \in {"return", "rpc", "write"}, Start(c, next)
  PROVE  /\ pc' \in [Call -> PCs] /\ then' \in [Call -> {"return", "rpc", "write"}]
         /\ \A d \in Call \ {c} : pc'[d] = pc[d] /\ then'[d] = then[d]
         /\ pc'[c] = "select" /\ then'[c] = next
BY DEF Start, Goto, CreditInv, ControlTypeOK, PCs

(* get_user_balance hands its result to the caller it was called for.      *)
LEMMA BalanceReadKeeps ==
  ASSUME CreditInv, NEW c \in Call,
         pc[c] \in {"select", "open", "reset"},
         \/ Goto(c, "open") \/ Goto(c, "reset")
         \/ Goto(c, IF then[c] = "return" THEN "idle" ELSE then[c]),
         UNCHANGED <<then, charge, recorded, credited>>
  PROVE  CreditInv'
<1>1. NoNewDebt(c)
  BY DEF Goto, NoNewDebt, OwesCredits, CreditInv, ControlTypeOK, PCs
<1>. QED
  BY <1>1, NoNewDebtKeeps

LEMMA SelectKeeps ==
  ASSUME CreditInv, NEW c \in Call, Select(c) \/ OpenAccount(c) \/ ResetDaily(c)
  PROVE  CreditInv'
<1>1. /\ pc[c] \in {"select", "open", "reset"}
      /\ \/ Goto(c, "open") \/ Goto(c, "reset")
         \/ Goto(c, IF then[c] = "return" THEN "idle" ELSE then[c])
      /\ UNCHANGED <<then, charge, recorded, credited>>
  BY DEF Select, OpenAccount, ResetDaily, GotMemory, Got, db, local, ledger
<1>. QED
  BY <1>1, BalanceReadKeeps

LEMMA CheckKeeps ==
  ASSUME CreditInv, NEW c \in Call, CheckCharge(c)
  PROVE  CreditInv'
<1>1. /\ \/ Goto(c, "record") /\ UNCHANGED then
         \/ Start(c, "return")
      /\ UNCHANGED <<charge, recorded, credited>>
  BY DEF CheckCharge, db, local, ledger
<1>2. NoNewDebt(c)
  <2>1. CASE Goto(c, "record") /\ UNCHANGED then
    BY <1>1, <2>1 DEF Goto, NoNewDebt, OwesCredits, CreditInv, ControlTypeOK, PCs
  <2>2. CASE Start(c, "return")
    BY <1>1, <2>2, StartType DEF NoNewDebt, OwesCredits, CreditInv, ControlTypeOK
  <2>. QED
    BY <1>1, <2>1, <2>2
<1>. QED
  BY <1>1, <1>2, NoNewDebtKeeps

(* The insert that succeeds is the first of its charge.                    *)
LEMMA RecordKeeps ==
  ASSUME CreditInv, NEW c \in Call, RecordCharge(c)
  PROVE  CreditInv'
<1>1. /\ pc[c] = "record" /\ UNCHANGED <<charge, credited>>
      /\ \/ Start(c, "return") /\ recorded' \in {recorded, recorded \cup {charge[c]}}
         \/ /\ Start(c, "write") /\ charge[c] \notin recorded
            /\ recorded' = recorded \cup {charge[c]}
  BY DEF RecordCharge, local, ledger, Applied
<1>2. charge[c] \in Charge /\ recorded \subseteq recorded' /\ recorded' \subseteq Charge
  BY <1>1 DEF CreditInv, ControlTypeOK
<1>3. CASE Start(c, "return")
  <2>1. \A d \in Call : OwesCredits(d)' => OwesCredits(d)
    BY <1>3, StartType DEF OwesCredits
  <2>2. ControlTypeOK'
    BY <1>1, <1>2, <1>3, StartType DEF CreditInv, ControlTypeOK
  <2>3. OneCreditor'
    BY <1>1, <1>2, <2>1 DEF CreditInv, OneCreditor
  <2>4. WriterAdds'
    BY <1>3, StartType DEF CreditInv, WriterAdds
  <2>. QED
    BY <2>2, <2>3, <2>4 DEF CreditInv
<1>4. CASE Start(c, "write") /\ charge[c] \notin recorded /\ recorded' = recorded \cup {charge[c]}
  <2>1. \A d \in Call \ {c} : OwesCredits(d)' => OwesCredits(d)
    BY <1>4, StartType DEF OwesCredits
  <2>2. \A d \in Call : OwesCredits(d) => charge[d] # charge[c]
    BY <1>4 DEF CreditInv, OneCreditor
  <2>3. credited[charge[c]] = 0
    BY <1>2, <1>4 DEF CreditInv, OneCreditor, ControlTypeOK
  <2>4. ControlTypeOK'
    BY <1>1, <1>2, <1>4, StartType DEF CreditInv, ControlTypeOK
  <2>5. OneCreditor'
    BY <1>1, <1>2, <1>4, <2>1, <2>2, <2>3 DEF CreditInv, OneCreditor
  <2>6. WriterAdds'
    BY <1>4, StartType DEF CreditInv, WriterAdds
  <2>. QED
    BY <2>4, <2>5, <2>6 DEF CreditInv
<1>. QED
  BY <1>1, <1>3, <1>4

LEMMA AddKeeps ==
  ASSUME CreditInv, NEW c \in Call, AddCredits(c)
  PROVE  CreditInv'
<1>1. /\ pc[c] = "write" /\ UNCHANGED <<charge, recorded>>
      /\ (Goto(c, "idle") /\ UNCHANGED then) \/ Start(c, "return")
      /\ credited' = credited \/ credited' = [credited EXCEPT ![charge[c]] = @ + 1]
  BY DEF AddCredits, local
<1>2. NoNewDebt(c) /\ ~OwesCredits(c)'
  <2>1. CASE Goto(c, "idle") /\ UNCHANGED then
    BY <1>1, <2>1 DEF Goto, NoNewDebt, OwesCredits, CreditInv, ControlTypeOK, PCs
  <2>2. CASE Start(c, "return")
    BY <1>1, <2>2, StartType DEF NoNewDebt, OwesCredits, CreditInv, ControlTypeOK
  <2>. QED
    BY <1>1, <2>1, <2>2
<1>3. CASE credited' = credited
  BY <1>1, <1>2, <1>3, NoNewDebtKeeps
<1>4. CASE credited' = [credited EXCEPT ![charge[c]] = @ + 1]
  <2>1. OwesCredits(c)
    BY <1>1 DEF CreditInv, WriterAdds, OwesCredits
  <2>2. /\ charge[c] \in recorded /\ charge[c] \in Charge /\ credited[charge[c]] = 0
        /\ \A d \in Call \ {c} : OwesCredits(d) => charge[d] # charge[c]
    BY <2>1 DEF CreditInv, ControlTypeOK, OneCreditor
  <2>3. \A d \in Call : OwesCredits(d)' => d # c /\ OwesCredits(d)
    BY <1>2 DEF NoNewDebt, OwesCredits
  <2>4. ControlTypeOK'
    BY <1>1, <1>2, <1>4, <2>2 DEF CreditInv, ControlTypeOK, NoNewDebt
  <2>5. WriterAdds'
    BY <1>2 DEF CreditInv, WriterAdds, NoNewDebt
  <2>6. OneCreditor'
    BY <1>1, <1>4, <2>2, <2>3 DEF CreditInv, ControlTypeOK, OneCreditor
  <2>. QED
    BY <2>4, <2>5, <2>6 DEF CreditInv
<1>. QED
  BY <1>1, <1>3, <1>4

(* A new operation owes nothing: what it is called for comes later.        *)
LEMMA BeginKeeps ==
  ASSUME CreditInv, NEW c \in Call, NEW u \in User,
         \/ BeginView(c, u) \/ BeginDeduct(c, u)
         \/ \E ch \in Charge : BeginAdd(c, u, ch)
  PROVE  CreditInv'
<1>1. UNCHANGED <<recorded, credited>>
  BY DEF BeginView, BeginDeduct, BeginAdd, Begin, db, ledger
<1>2. NoNewDebt(c)
  <2>1. CASE Start(c, "return") /\ UNCHANGED charge
    BY <2>1, StartType DEF NoNewDebt, OwesCredits, CreditInv, ControlTypeOK
  <2>2. CASE Start(c, "rpc") /\ UNCHANGED charge
    BY <2>2, StartType DEF NoNewDebt, OwesCredits, CreditInv, ControlTypeOK
  <2>3. ASSUME NEW ch \in Charge, BeginAdd(c, u, ch)
        PROVE  NoNewDebt(c)
    BY <2>3 DEF BeginAdd, Goto, NoNewDebt, OwesCredits, CreditInv, ControlTypeOK, PCs
  <2>. QED
    BY <2>1, <2>2, <2>3 DEF BeginView, BeginDeduct
<1>. QED
  BY <1>1, <1>2, NoNewDebtKeeps

LEMMA DeductKeeps ==
  ASSUME CreditInv, NEW c \in Call, Deduct(c)
  PROVE  CreditInv'
<1>1. Goto(c, "idle") /\ UNCHANGED <<then, charge, recorded, credited>>
  BY DEF Deduct, local
<1>2. NoNewDebt(c)
  BY <1>1 DEF Goto, NoNewDebt, OwesCredits, CreditInv, ControlTypeOK, PCs
<1>. QED
  BY <1>1, <1>2, NoNewDebtKeeps

LEMMA InitCredit ==
  Init => CreditInv
BY StoreAssumption DEF Init, CreditInv, ControlTypeOK, WriterAdds, OneCreditor, OwesCredits, PCs

(* A process that dies takes its debts with it.                            *)
LEMMA DieKeeps ==
  ASSUME CreditInv, NEW p \in Process, Die(p)
  PROVE  CreditInv'
<1>1. /\ UNCHANGED <<then, charge, recorded, credited>> /\ pc' \in [Call -> PCs]
      /\ \A c \in Call : pc'[c] = pc[c] \/ pc'[c] = "idle"
  BY DEF Die, db, local, ledger, CreditInv, ControlTypeOK, PCs
<1>2. \A c \in Call : OwesCredits(c)' => OwesCredits(c)
  BY <1>1 DEF OwesCredits
<1>3. OneCreditor' /\ WriterAdds'
  BY <1>1, <1>2 DEF CreditInv, OneCreditor, WriterAdds
<1>. QED
  BY <1>1, <1>3 DEF CreditInv, ControlTypeOK

LEMMA NextCredit ==
  CreditInv /\ [Next]_vars => CreditInv'
<1>. SUFFICES ASSUME CreditInv, [Next]_vars
              PROVE  CreditInv'
  OBVIOUS
<1>1. CASE UNCHANGED <<pc, then, charge, recorded, credited>>
  BY <1>1 DEF CreditInv, ControlTypeOK, WriterAdds, OneCreditor, OwesCredits
<1>2. ASSUME NEW c \in Call, NEW u \in User, BeginView(c, u) \/ BeginDeduct(c, u)
      PROVE  CreditInv'
  BY <1>2, BeginKeeps
<1>3. ASSUME NEW c \in Call, NEW u \in User, NEW ch \in Charge, BeginAdd(c, u, ch)
      PROVE  CreditInv'
  BY <1>3, BeginKeeps
<1>4. ASSUME NEW c \in Call, Query(c)
      PROVE  CreditInv'
  BY <1>4, SelectKeeps, DeductKeeps, CheckKeeps, RecordKeeps, AddKeeps DEF Query
<1>5. CASE Midnight \/ UNCHANGED vars
  BY <1>5, <1>1 DEF Midnight, vars, db, local, ledger
<1>6. ASSUME NEW p \in Process, Die(p)
      PROVE  CreditInv'
  BY <1>6, DieKeeps
<1>. QED
  BY <1>2, <1>3, <1>4, <1>5, <1>6 DEF Next

(* add_user_credits credits a charge at most once, however many processes  *)
(* fulfil it at the same time and whichever of their queries fail or lose  *)
(* their reply: the unique index on star_transactions lets one of them     *)
(* pass (supabase_client.py:369-375).                                      *)
THEOREM ChargesCreditedOnce == Spec => []CreditedOnce
<1>1. CreditInv => CreditedOnce
  BY DEF CreditInv, OneCreditor, CreditedOnce
<1>. QED
  BY <1>1, InitCredit, NextCredit, PTL DEF Spec
-----------------------------------------------------------------------------
(* What a call holds of its user's row: fresh, or marked as stale.  When   *)
(* it comes to the write without a row, one of its queries failed.         *)
HoldsOpen(c) == pc[c] = "open" => bal[c] \in Balance /\ bal[c].credits = Free

HoldsReset(c) ==
  pc[c] = "reset" => /\ user[c] \in opened /\ bal[c] \in Balance
                     /\ c \in stale \/ bal[c].credits = Filled(credits[user[c]])

HoldsWrite(c) ==
  pc[c] = "write" =>
    /\ user[c] \in opened \/ faults > 0
    /\ bal[c] = NoBalance => mem[ProcOf[c]][user[c]] \in Balance
    /\ bal[c] # NoBalance => /\ user[c] \in opened
                             /\ c \in stale \/ bal[c].credits = credits[user[c]]

Holds(c) == HoldsOpen(c) /\ HoldsReset(c) /\ HoldsWrite(c)

EmptyUnopened == \A u \in User \ opened : credits[u] = 0

StoreInv == TypeOK /\ Balanced /\ EmptyUnopened /\ \A c \in Call : Holds(c)

LEMMA NoBalanceType == NoBalance \notin Balance
BY StoreAssumption DEF Balance

LEMMA FilledType ==
  ASSUME NEW n \in Nat
  PROVE  Filled(n) \in Nat /\ Filled(n) >= n
BY StoreAssumption DEF Filled

LEMMA ChargedType ==
  ASSUME TypeOK, NEW r, Charged(r)
  PROVE  faults' \in Nat /\ faults' >= faults /\ (r # "ok" => faults' > 0)
BY DEF Charged, TypeOK

(* What a step of c does to the calls of others: whoever has read the row  *)
(* that it writes is marked.                                               *)
Marks(c) ==
  /\ \A d \in Call \ {c} : /\ pc'[d] = pc[d] /\ user'[d] = user[d] /\ bal'[d] = bal[d]
                           /\ d \in stale => d \in stale'
                           /\ \/ pc[d] \notin {"reset", "write"} \/ user[d] \notin opened
                              \/ credits'[user[d]] = credits[user[d]] \/ d \in stale'
  /\ opened \subseteq opened' /\ faults' >= faults
  /\ \A p \in Process, u \in User : mem[p][u] \in Balance => mem'[p][u] \in Balance

LEMMA MarksKeeps ==
  ASSUME StoreInv, NEW c \in Call, Marks(c), TypeOK', Holds(c)'
  PROVE  \A d \in Call : Holds(d)'
<1>. SUFFICES ASSUME NEW d \in Call, d # c PROVE Holds(d)'
  OBVIOUS
<1>1. /\ pc'[d] = pc[d] /\ user'[d] = user[d] /\ bal'[d] = bal[d] /\ (d \in stale => d \in stale')
      /\ \/ pc[d] \notin {"reset", "write"} \/ user[d] \notin opened
         \/ credits'[user[d]] = credits[user[d]] \/ d \in stale'
  BY DEF Marks
<1>2. opened \subseteq opened' /\ (faults > 0 => faults' > 0)
  BY DEF Marks, StoreInv, TypeOK
<1>3. Holds(d) /\ user[d] \in User /\ ProcOf[d] \in Process
  BY StoreAssumption DEF StoreInv, TypeOK
<1>4. HoldsOpen(d)'
  BY <1>1, <1>3 DEF Holds, HoldsOpen
<1>5. HoldsReset(d)'
  BY <1>1, <1>2, <1>3 DEF Holds, HoldsReset
<1>6. HoldsWrite(d)'
  <2>1. mem[ProcOf[d]][user[d]] \in Balance => mem'[ProcOf[d]][user[d]] \in Balance
    BY <1>3 DEF Marks
  <2>. QED
    BY <1>1, <1>2, <1>3, <2>1 DEF Holds, HoldsWrite
<1>. QED
  BY <1>4, <1>5, <1>6 DEF Holds

-----------------------------------------------------------------------------
(* What get_user_balance hands over.                                       *)
LEMMA GotType ==
  ASSUME TypeOK, NEW c \in Call, NEW b \in Balance \cup {NoBalance}, Got(c, b)
  PROVE  /\ pc' \in [Call -> PCs] /\ bal' \in [Call -> Balance \cup {NoBalance}]
         /\ \A d \in Call \ {c} : pc'[d] = pc[d] /\ bal'[d] = bal[d]
         /\ pc'[c] \notin {"open", "reset"} /\ (pc'[c] = "write" => bal'[c] = b)
BY DEF Got, Goto, TypeOK, PCs

LEMMA MemoryType ==
  ASSUME TypeOK, NEW c \in Call, GotMemory(c)
  PROVE  /\ Got(c, NoBalance)
         /\ mem' \in [Process -> [User -> Balance \cup {NoBalance}]]
         /\ mem'[ProcOf[c]][user[c]] \in Balance
         /\ \A p \in Process, u \in User : mem[p][u] \in Balance => mem'[p][u] \in Balance
<1>. DEFINE p == ProcOf[c]
            u == user[c]
            kept == IF mem[p][u] = NoBalance THEN [credits |-> Free, day |-> today]
                    ELSE IF mem[p][u].day < now[c]
                    THEN [credits |-> Filled(mem[p][u].credits), day |-> now[c]]
                    ELSE mem[p][u]
            left == IF then[c] = "write" THEN [kept EXCEPT !.credits = @ + Credits[charge[c]]]
                    ELSE kept
<1>1. /\ p \in Process /\ u \in User /\ Credits[charge[c]] \in Nat /\ Free \in Nat
      /\ today \in Nat /\ now[c] \in Nat /\ mem[p][u] \in Balance \cup {NoBalance}
      /\ mem \in [Process -> [User -> Balance \cup {NoBalance}]]
  BY StoreAssumption DEF TypeOK
<1>2. kept \in Balance
  <2>1. CASE mem[p][u] = NoBalance
    <3>1. kept = [credits |-> Free, day |-> today]
      BY <2>1
    <3>. QED
      BY <1>1, <3>1 DEF Balance
  <2>2. CASE mem[p][u] \in Balance
    <3>1. Filled(mem[p][u].credits) \in Nat
      BY <2>2, FilledType DEF Balance
    <3>2. kept \in {mem[p][u], [credits |-> Filled(mem[p][u].credits), day |-> now[c]]}
      BY <2>2, NoBalanceType
    <3>. HIDE DEF kept
    <3>. QED
      BY <1>1, <2>2, <3>1, <3>2 DEF Balance
  <2>3. mem[p][u] \in Balance \cup {NoBalance}
    BY <1>1
  <2>. HIDE DEF kept, p, u
  <2>. QED
    BY <2>1, <2>2, <2>3
<1>3. left \in Balance
  <2>1. /\ kept.credits \in Nat /\ kept.day \in Nat
        /\ kept = [credits |-> kept.credits, day |-> kept.day]
    <3>. HIDE DEF kept
    <3>. QED
      BY <1>2 DEF Balance
  <2>. HIDE DEF kept
  <2>. QED
    BY <1>1, <1>2, <2>1 DEF Balance
<1>4. Got(c, NoBalance) /\ mem' = [mem EXCEPT ![p][u] = left]
  BY DEF GotMemory
<1>. HIDE DEF kept, left, p, u
<1>5. mem'[p][u] = left /\ mem' \in [Process -> [User -> Balance \cup {NoBalance}]]
  BY <1>1, <1>3, <1>4
<1>6. ASSUME NEW q \in Process, NEW v \in User, mem[q][v] \in Balance
      PROVE  mem'[q][v] \in Balance
  BY <1>1, <1>3, <1>4, <1>6
<1>. QED
  BY <1>3, <1>4, <1>5, <1>6 DEF p, u

-----------------------------------------------------------------------------
LEMMA BalancedUnless ==
  ASSUME Balanced, misread \subseteq misread',
         \A u \in User \ misread' :
            credits[u] + spent[u] = granted[u] + paid[u]
              => credits'[u] + spent'[u] = granted'[u] + paid'[u]
  PROVE  Balanced'
BY DEF Balanced

LEMMA SelectStore ==
  ASSUME StoreInv, NEW c \in Call, Select(c)
  PROVE  StoreInv'
<1>. DEFINE u == user[c]
            row == [credits |-> credits[u], day |-> resetDay[u]]
<1>1. /\ UNCHANGED <<opened, credits, resetDay, recorded, today, then, user, charge, now>>
      /\ UNCHANGED <<stale, spent, paid, granted, credited, misread, refunds>>
  BY DEF Select, db, local, ledger
<1>2. TypeOK /\ u \in User /\ c \in Call /\ Free \in Nat /\ today \in Nat /\ now[c] \in Nat
      /\ credits[u] \in Nat /\ resetDay[u] \in Nat
  BY StoreAssumption DEF StoreInv, TypeOK
<1>3. row \in Balance /\ row.credits = credits[u] /\ row # NoBalance
  BY <1>2, NoBalanceType DEF Balance
<1>4. Balanced' /\ EmptyUnopened'
  BY <1>1 DEF StoreInv, Balanced, EmptyUnopened
<1>5. SUFFICES TypeOK' /\ Marks(c) /\ Holds(c)'
  BY <1>4, MarksKeeps DEF StoreInv
<1>6. CASE Charged("refused") /\ GotMemory(c)
  <2>1. /\ Got(c, NoBalance) /\ mem' \in [Process -> [User -> Balance \cup {NoBalance}]]
        /\ mem'[ProcOf[c]][u] \in Balance
        /\ \A q \in Process, v \in User : mem[q][v] \in Balance => mem'[q][v] \in Balance
    BY <1>2, <1>6, MemoryType
  <2>2. /\ pc' \in [Call -> PCs] /\ bal' \in [Call -> Balance \cup {NoBalance}]
        /\ \A d \in Call \ {c} : pc'[d] = pc[d] /\ bal'[d] = bal[d]
        /\ pc'[c] \notin {"open", "reset"} /\ (pc'[c] = "write" => bal'[c] = NoBalance)
    BY <1>2, <2>1, GotType
  <2>3. faults' \in Nat /\ faults' >= faults /\ faults' > 0
    BY <1>2, <1>6, ChargedType
  <2>4. TypeOK'
    BY <1>1, <1>2, <2>1, <2>2, <2>3 DEF TypeOK
  <2>5. Marks(c)
    BY <1>1, <2>1, <2>2, <2>3 DEF Marks
  <2>6. Holds(c)'
    BY <1>1, <2>1, <2>2, <2>3 DEF Holds, HoldsOpen, HoldsReset, HoldsWrite
  <2>. QED
    BY <2>4, <2>5, <2>6
<1>7. CASE Charged("ok") /\ UNCHANGED mem /\ u \in opened /\ resetDay[u] >= now[c] /\ Got(c, row)
  <2>1. /\ pc' \in [Call -> PCs] /\ bal' \in [Call -> Balance \cup {NoBalance}]
        /\ \A d \in Call \ {c} : pc'[d] = pc[d] /\ bal'[d] = bal[d]
        /\ pc'[c] \notin {"open", "reset"} /\ (pc'[c] = "write" => bal'[c] = row)
    BY <1>2, <1>3, <1>7, GotType
  <2>2. faults' = faults /\ faults \in Nat
    BY <1>7 DEF Charged, StoreInv, TypeOK
  <2>3. TypeOK'
    BY <1>1, <1>2, <1>7, <2>1, <2>2 DEF TypeOK
  <2>4. Marks(c)
    BY <1>1, <1>7, <2>1, <2>2 DEF Marks
  <2>5. Holds(c)'
    BY <1>1, <1>3, <1>7, <2>1 DEF Holds, HoldsOpen, HoldsReset, HoldsWrite
  <2>. QED
    BY <2>3, <2>4, <2>5
<1>8. ASSUME NEW label \in {"open", "reset"}, NEW b \in Balance,
             Charged("ok"), UNCHANGED mem, Goto(c, label), bal' = [bal EXCEPT ![c] = b],
             label = "open" => b.credits = Free,
             label = "reset" => u \in opened /\ b.credits = Filled(credits[u])
      PROVE  TypeOK' /\ Marks(c) /\ Holds(c)'
  <2>1. /\ pc' \in [Call -> PCs] /\ bal' \in [Call -> Balance \cup {NoBalance}]
        /\ \A d \in Call \ {c} : pc'[d] = pc[d] /\ bal'[d] = bal[d]
        /\ pc'[c] = label /\ bal'[c] = b
    BY <1>2, <1>8 DEF Goto, TypeOK, PCs
  <2>2. faults' = faults /\ faults \in Nat
    BY <1>8 DEF Charged, StoreInv, TypeOK
  <2>3. TypeOK'
    BY <1>1, <1>2, <1>8, <2>1, <2>2 DEF TypeOK
  <2>4. Marks(c)
    BY <1>1, <1>8, <2>1, <2>2 DEF Marks
  <2>5. Holds(c)'
    BY <1>1, <1>8, <2>1 DEF Holds, HoldsOpen, HoldsReset, HoldsWrite, Filled
  <2>. QED
    BY <2>3, <2>4, <2>5
<1>9. /\ [credits |-> Free, day |-> today] \in Balance
      /\ [credits |-> Filled(credits[u]), day |-> now[c]] \in Balance
  BY <1>2, FilledType DEF Balance
<1>. QED
  BY <1>6, <1>7, <1>8, <1>9 DEF Select

LEMMA OpenStore ==
  ASSUME StoreInv, NEW c \in Call, OpenAccount(c)
  PROVE  StoreInv'
<1>. DEFINE u == user[c]
<1>1. /\ UNCHANGED <<recorded, today, then, user, charge, now>>
      /\ UNCHANGED <<stale, spent, paid, credited, misread, refunds>> /\ pc[c] = "open"
  BY DEF OpenAccount, local
<1>2. TypeOK /\ u \in User /\ Free \in Nat
  BY StoreAssumption DEF StoreInv, TypeOK
<1>3. bal[c] \in Balance /\ bal[c].credits = Free /\ bal[c].day \in Nat /\ bal[c] # NoBalance
  BY <1>1, NoBalanceType DEF StoreInv, Holds, HoldsOpen, Balance
<1>4. \/ UNCHANGED <<opened, credits, resetDay, granted>>
      \/ /\ u \notin opened /\ opened' = opened \cup {u}
         /\ credits' = [credits EXCEPT ![u] = Free]
         /\ resetDay' = [resetDay EXCEPT ![u] = bal[c].day]
         /\ granted' = [granted EXCEPT ![u] = @ + Free]
  BY <1>3 DEF OpenAccount
<1>5. Balanced' /\ EmptyUnopened'
  <2>1. CASE UNCHANGED <<opened, credits, resetDay, granted>>
    BY <1>1, <2>1 DEF StoreInv, Balanced, EmptyUnopened
  <2>2. CASE ~ UNCHANGED <<opened, credits, resetDay, granted>>
    <3>1. credits[u] = 0
      BY <1>2, <1>4, <2>2 DEF StoreInv, EmptyUnopened
    <3>2. EmptyUnopened'
      BY <1>2, <1>4, <2>2 DEF StoreInv, EmptyUnopened, TypeOK
    <3>3. Balanced'
      BY <1>1, <1>2, <1>4, <2>2, <3>1 DEF StoreInv, Balanced, TypeOK
    <3>. QED
      BY <3>2, <3>3
  <2>. QED
    BY <2>1, <2>2
<1>6. /\ opened \subseteq opened' /\ opened' \subseteq User
      /\ credits' \in [User -> Nat] /\ resetDay' \in [User -> Nat] /\ granted' \in [User -> Nat]
      /\ \A v \in opened : credits'[v] = credits[v]
  <2>1. /\ opened \subseteq User /\ credits \in [User -> Nat]
        /\ resetDay \in [User -> Nat] /\ granted \in [User -> Nat]
    BY <1>2 DEF TypeOK
  <2>2. granted[u] + Free \in Nat
    BY <1>2, <2>1
  <2>3. CASE u \notin opened /\ opened' = opened \cup {u}
    BY <1>2, <1>3, <1>4, <2>1, <2>2, <2>3
  <2>. QED
    BY <1>4, <2>1, <2>3
<1>7. \/ u \in opened /\ UNCHANGED faults /\ GotMemory(c)
      \/ \E r \in Reply \ {"ok"} : Charged(r) /\ GotMemory(c)
      \/ /\ Charged("ok") /\ Got(c, bal[c]) /\ UNCHANGED mem
         /\ u \in opened' /\ credits'[u] = Free
  <2>1. CASE u \in opened /\ UNCHANGED faults /\ GotMemory(c)
    BY <2>1
  <2>2. ASSUME NEW r \in Reply, u \notin opened, Charged(r),
               Applied(r) => /\ opened' = opened \cup {u}
                             /\ credits' = [credits EXCEPT ![u] = bal[c].credits],
               IF r = "ok" THEN Got(c, bal[c]) /\ UNCHANGED mem ELSE GotMemory(c)
        PROVE  \/ \E s \in Reply \ {"ok"} : Charged(s) /\ GotMemory(c)
               \/ /\ Charged("ok") /\ Got(c, bal[c]) /\ UNCHANGED mem
                  /\ u \in opened' /\ credits'[u] = Free
    BY <1>2, <1>3, <2>2 DEF Applied, TypeOK
  <2>. QED
    BY <2>1, <2>2 DEF OpenAccount
<1>8. SUFFICES TypeOK' /\ Marks(c) /\ Holds(c)'
  BY <1>5, MarksKeeps DEF StoreInv
<1>9. CASE GotMemory(c) /\ faults' \in Nat /\ faults' >= faults /\ (u \in opened' \/ faults' > 0)
  <2>1. /\ Got(c, NoBalance) /\ mem' \in [Process -> [User -> Balance \cup {NoBalance}]]
        /\ mem'[ProcOf[c]][u] \in Balance
        /\ \A q \in Process, v \in User : mem[q][v] \in Balance => mem'[q][v] \in Balance
    BY <1>2, <1>9, MemoryType
  <2>2. /\ pc' \in [Call -> PCs] /\ bal' \in [Call -> Balance \cup {NoBalance}]
        /\ \A d \in Call \ {c} : pc'[d] = pc[d] /\ bal'[d] = bal[d]
        /\ pc'[c] \notin {"open", "reset"} /\ (pc'[c] = "write" => bal'[c] = NoBalance)
    BY <1>2, <2>1, GotType
  <2>3. TypeOK'
    BY <1>1, <1>2, <1>6, <1>9, <2>1, <2>2 DEF TypeOK
  <2>4. Marks(c)
    BY <1>1, <1>6, <1>9, <2>1, <2>2 DEF Marks
  <2>5. Holds(c)'
    BY <1>1, <1>9, <2>1, <2>2 DEF Holds, HoldsOpen, HoldsReset, HoldsWrite
  <2>. QED
    BY <2>3, <2>4, <2>5
<1>10. CASE /\ Charged("ok") /\ Got(c, bal[c]) /\ UNCHANGED mem
            /\ u \in opened' /\ credits'[u] = Free
  <2>1. /\ pc' \in [Call -> PCs] /\ bal' \in [Call -> Balance \cup {NoBalance}]
        /\ \A d \in Call \ {c} : pc'[d] = pc[d] /\ bal'[d] = bal[d]
        /\ pc'[c] \notin {"open", "reset"} /\ (pc'[c] = "write" => bal'[c] = bal[c])
    BY <1>2, <1>3, <1>10, GotType
  <2>2. faults' = faults /\ faults \in Nat
    BY <1>10 DEF Charged, StoreInv, TypeOK
  <2>3. TypeOK'
    BY <1>1, <1>2, <1>6, <1>10, <2>1, <2>2 DEF TypeOK
  <2>4. Marks(c)
    BY <1>1, <1>6, <1>10, <2>1, <2>2 DEF Marks
  <2>5. Holds(c)'
    BY <1>1, <1>3, <1>10, <2>1 DEF Holds, HoldsOpen, HoldsReset, HoldsWrite
  <2>. QED
    BY <2>3, <2>4, <2>5
<1>11. UNCHANGED faults => faults' \in Nat /\ faults' >= faults
  BY DEF StoreInv, TypeOK
<1>. QED
  BY <1>2, <1>6, <1>7, <1>9, <1>10, <1>11, ChargedType

(* After ResetDaily and AddCredits: the others that read the row are       *)
(* marked, when it was written.                                            *)
LEMMA WrotePart ==
  ASSUME TypeOK, NEW c \in Call, NEW n \in Nat,
         \/ credits' = [credits EXCEPT ![user[c]] = n] /\ Wrote(c, user[c])
         \/ credits' = credits /\ NotWritten(c)
  PROVE  /\ stale' \subseteq Call /\ credits' \in [User -> Nat]
         /\ \A d \in Call \ {c} :
              /\ d \in stale => d \in stale'
              /\ \/ pc[d] \notin {"reset", "write"} \/ credits'[user[d]] = credits[user[d]]
                 \/ d \in stale'
<1>1. /\ stale \subseteq Call /\ credits \in [User -> Nat] /\ user \in [Call -> User]
  BY DEF TypeOK
<1>2. CASE credits' = [credits EXCEPT ![user[c]] = n] /\ Wrote(c, user[c])
  <2>1. stale' = (stale \cup {d \in Call : user[d] = user[c] /\ pc[d] \in {"reset", "write"}}) \ {c}
    BY <1>2 DEF Wrote
  <2>2. \A d \in Call : user[d] # user[c] => credits'[user[d]] = credits[user[d]]
    BY <1>1, <1>2
  <2>. QED
    BY <1>1, <1>2, <2>1, <2>2
<1>3. CASE credits' = credits /\ NotWritten(c)
  BY <1>1, <1>3 DEF NotWritten
<1>. QED
  BY <1>2, <1>3

LEMMA ResetStore ==
  ASSUME StoreInv, NEW c \in Call, ResetDaily(c)
  PROVE  StoreInv'
<1>. DEFINE u == user[c]
            n == bal[c].credits
            diff == Filled(credits[u]) - credits[u]
<1>1. /\ UNCHANGED <<opened, recorded, today, then, user, charge, now>>
      /\ UNCHANGED <<spent, paid, credited, refunds>>
      /\ pc[c] = "reset"
  BY DEF ResetDaily, local
<1>2. /\ TypeOK /\ u \in User /\ u \in opened /\ bal[c] \in Balance /\ n \in Nat /\ now[c] \in Nat
      /\ c \in stale \/ n = Filled(credits[u])
  BY <1>1 DEF StoreInv, TypeOK, Holds, HoldsReset, Balance
<1>3. credits[u] \in Nat /\ diff \in Nat /\ Filled(credits[u]) = credits[u] + diff
  BY <1>2, FilledType DEF TypeOK
<1>4. PICK r \in Reply :
        /\ Charged(r)
        /\ \/ /\ credits' = [credits EXCEPT ![u] = n] /\ Wrote(c, u)
              /\ resetDay' = [resetDay EXCEPT ![u] = now[c]]
              /\ granted' = [granted EXCEPT ![u] = @ + diff]
              /\ misread' = IF c \in stale THEN misread \cup {u} ELSE misread
           \/ UNCHANGED <<credits, resetDay, granted, misread>> /\ NotWritten(c) /\ r # "ok"
        /\ IF r = "ok" THEN Got(c, bal[c]) /\ UNCHANGED mem ELSE GotMemory(c)
  <2>1. PICK r \in Reply :
          /\ Charged(r)
          /\ IF Applied(r)
             THEN /\ credits' = [credits EXCEPT ![u] = n]
                  /\ resetDay' = [resetDay EXCEPT ![u] = now[c]]
                  /\ granted' = [granted EXCEPT ![u] = @ + diff]
                  /\ misread' = IF c \in stale THEN misread \cup {u} ELSE misread
                  /\ Wrote(c, u)
             ELSE UNCHANGED <<credits, resetDay, granted, misread>> /\ NotWritten(c)
          /\ IF r = "ok" THEN Got(c, bal[c]) /\ UNCHANGED mem ELSE GotMemory(c)
    BY DEF ResetDaily
  <2>2. ~Applied(r) => r # "ok"
    BY DEF Applied
  <2>. QED
    BY <2>1, <2>2
<1>. HIDE DEF u, n, diff
<1>5. /\ faults' \in Nat /\ faults' >= faults
  BY <1>2, <1>4, ChargedType
<1>6. /\ stale' \subseteq Call /\ credits' \in [User -> Nat]
      /\ \A d \in Call \ {c} :
           /\ d \in stale => d \in stale'
           /\ \/ pc[d] \notin {"reset", "write"} \/ credits'[user[d]] = credits[user[d]]
              \/ d \in stale'
  BY <1>2, <1>4, WrotePart DEF u
<1>7. resetDay' \in [User -> Nat] /\ granted' \in [User -> Nat] /\ misread' \subseteq User
  <2>1. granted \in [User -> Nat] /\ granted[u] + diff \in Nat
    BY <1>2, <1>3 DEF TypeOK
  <2>2. granted' \in [User -> Nat]
    BY <1>4, <2>1
  <2>. QED
    BY <1>2, <1>4, <2>2 DEF TypeOK
<1>8. EmptyUnopened'
  BY <1>1, <1>2, <1>4 DEF StoreInv, EmptyUnopened, TypeOK
<1>9. Balanced'
  <2>1. CASE UNCHANGED <<credits, granted, misread>>
    BY <1>1, <2>1 DEF StoreInv, Balanced
  <2>2. CASE /\ credits' = [credits EXCEPT ![u] = n] /\ granted' = [granted EXCEPT ![u] = @ + diff]
             /\ misread' = IF c \in stale THEN misread \cup {u} ELSE misread
    <3>1. SUFFICES ASSUME NEW v \in User \ misread'
                   PROVE  credits'[v] + spent[v] = granted'[v] + paid[v]
      BY <1>1 DEF Balanced
    <3>2. /\ credits[v] + spent[v] = granted[v] + paid[v]
          /\ credits[v] \in Nat /\ spent[v] \in Nat /\ granted[v] \in Nat /\ paid[v] \in Nat
      BY <1>2, <2>2 DEF StoreInv, Balanced, TypeOK
    <3>3. CASE v # u
      BY <1>2, <2>2, <3>2, <3>3 DEF TypeOK
    <3>4. CASE v = u
      <4>1. n = credits[v] + diff
        BY <1>2, <1>3, <2>2, <3>4
      <4>2. credits'[v] = credits[v] + diff /\ granted'[v] = granted[v] + diff
        BY <1>2, <2>2, <3>4, <4>1 DEF TypeOK
      <4>. QED
        BY <1>3, <3>2, <4>2
    <3>. QED
      BY <3>3, <3>4
  <2>. QED
    BY <1>4, <2>1, <2>2
<1>10. SUFFICES TypeOK' /\ Marks(c) /\ Holds(c)'
  BY <1>8, <1>9, MarksKeeps DEF StoreInv
<1>11. CASE r = "ok"
  <2>1. Got(c, bal[c]) /\ mem' = mem
    BY <1>4, <1>11
  <2>2. /\ pc' \in [Call -> PCs] /\ bal' \in [Call -> Balance \cup {NoBalance}]
        /\ \A d \in Call \ {c} : pc'[d] = pc[d] /\ bal'[d] = bal[d]
        /\ pc'[c] \notin {"open", "reset"} /\ (pc'[c] = "write" => bal'[c] = bal[c])
    BY <1>2, <2>1, GotType
  <2>3. credits'[u] = n
    BY <1>2, <1>4, <1>11 DEF TypeOK
  <2>4. TypeOK'
    BY <1>1, <1>2, <1>5, <1>6, <1>7, <2>1, <2>2 DEF TypeOK
  <2>5. Marks(c)
    BY <1>1, <1>5, <1>6, <2>1, <2>2 DEF Marks
  <2>6. Holds(c)'
    BY <1>1, <1>2, <2>2, <2>3, NoBalanceType DEF Holds, HoldsOpen, HoldsReset, HoldsWrite, u, n
  <2>. QED
    BY <2>4, <2>5, <2>6
<1>12. CASE r # "ok"
  <2>1. /\ Got(c, NoBalance) /\ mem' \in [Process -> [User -> Balance \cup {NoBalance}]]
        /\ mem'[ProcOf[c]][u] \in Balance
        /\ \A q \in Process, v \in User : mem[q][v] \in Balance => mem'[q][v] \in Balance
    BY <1>2, <1>4, <1>12, MemoryType DEF u
  <2>2. /\ pc' \in [Call -> PCs] /\ bal' \in [Call -> Balance \cup {NoBalance}]
        /\ \A d \in Call \ {c} : pc'[d] = pc[d] /\ bal'[d] = bal[d]
        /\ pc'[c] \notin {"open", "reset"} /\ (pc'[c] = "write" => bal'[c] = NoBalance)
    BY <1>2, <2>1, GotType
  <2>3. TypeOK'
    BY <1>1, <1>2, <1>5, <1>6, <1>7, <2>1, <2>2 DEF TypeOK
  <2>4. Marks(c)
    BY <1>1, <1>5, <1>6, <2>1, <2>2 DEF Marks
  <2>5. Holds(c)'
    BY <1>1, <1>2, <2>1, <2>2 DEF Holds, HoldsOpen, HoldsReset, HoldsWrite, u
  <2>. QED
    BY <2>3, <2>4, <2>5
<1>. QED
  BY <1>11, <1>12

LEMMA DeductStore ==
  ASSUME StoreInv, NEW c \in Call, Deduct(c)
  PROVE  StoreInv'
<1>. DEFINE u == user[c]
<1>1. /\ UNCHANGED <<opened, resetDay, recorded, mem, today, then, user, charge, now, bal>>
      /\ UNCHANGED <<paid, granted, credited, misread, refunds>>
      /\ pc[c] = "rpc" /\ Goto(c, "idle")
  BY DEF Deduct, local
<1>2. TypeOK /\ u \in User /\ credits[u] \in Nat /\ spent[u] \in Nat
  BY DEF StoreInv, TypeOK
<1>3. PICK r \in Reply :
        /\ Charged(r)
        /\ \/ /\ u \in opened /\ credits[u] >= 1 /\ Wrote(c, u)
              /\ credits' = [credits EXCEPT ![u] = @ - 1] /\ spent' = [spent EXCEPT ![u] = @ + 1]
           \/ UNCHANGED <<credits, spent, stale>>
  BY DEF Deduct, TakesCredit
<1>4. faults' \in Nat /\ faults' >= faults
  BY <1>2, <1>3, ChargedType
<1>5. /\ pc' \in [Call -> PCs] /\ pc'[c] = "idle" /\ \A d \in Call \ {c} : pc'[d] = pc[d]
  BY <1>1, <1>2 DEF Goto, TypeOK, PCs
<1>6. CASE UNCHANGED <<credits, spent, stale>>
  <2>1. TypeOK'
    BY <1>1, <1>2, <1>4, <1>5, <1>6 DEF TypeOK
  <2>2. Marks(c)
    BY <1>1, <1>4, <1>5, <1>6 DEF Marks
  <2>3. Holds(c)'
    BY <1>5 DEF Holds, HoldsOpen, HoldsReset, HoldsWrite
  <2>4. Balanced' /\ EmptyUnopened'
    BY <1>1, <1>6 DEF StoreInv, Balanced, EmptyUnopened
  <2>. QED
    BY <2>1, <2>2, <2>3, <2>4, MarksKeeps DEF StoreInv
<1>7. CASE /\ u \in opened /\ credits[u] >= 1 /\ Wrote(c, u)
           /\ credits' = [credits EXCEPT ![u] = @ - 1] /\ spent' = [spent EXCEPT ![u] = @ + 1]
  <2>1. credits[u] - 1 \in Nat /\ spent[u] + 1 \in Nat
    BY <1>2, <1>7
  <2>2. /\ stale' \subseteq Call /\ credits' \in [User -> Nat]
        /\ \A d \in Call \ {c} :
             /\ d \in stale => d \in stale'
             /\ \/ pc[d] \notin {"reset", "write"} \/ credits'[user[d]] = credits[user[d]]
                \/ d \in stale'
    <3>1. credits' = [credits EXCEPT ![user[c]] = credits[u] - 1] /\ Wrote(c, user[c])
      BY <1>7
    <3>. QED
      BY <1>2, <2>1, <3>1, WrotePart
  <2>3. spent' \in [User -> Nat]
    BY <1>2, <1>7, <2>1 DEF TypeOK
  <2>4. TypeOK'
    BY <1>1, <1>2, <1>4, <1>5, <2>2, <2>3 DEF TypeOK
  <2>5. Marks(c)
    BY <1>1, <1>4, <1>5, <2>2 DEF Marks
  <2>6. Holds(c)'
    BY <1>5 DEF Holds, HoldsOpen, HoldsReset, HoldsWrite
  <2>7. EmptyUnopened'
    BY <1>1, <1>2, <1>7 DEF StoreInv, EmptyUnopened, TypeOK
  <2>8. Balanced'
    <3>1. SUFFICES ASSUME NEW v \in User \ misread
                   PROVE  credits'[v] + spent'[v] = granted[v] + paid[v]
      BY <1>1 DEF Balanced
    <3>2. /\ credits[v] + spent[v] = granted[v] + paid[v] /\ credits[v] \in Nat /\ spent[v] \in Nat
          /\ v # u => credits'[v] = credits[v] /\ spent'[v] = spent[v]
          /\ v = u => credits'[v] = credits[v] - 1 /\ spent'[v] = spent[v] + 1
      BY <1>2, <1>7 DEF StoreInv, Balanced, TypeOK
    <3>. QED
      BY <3>2
  <2>. QED
    BY <2>4, <2>5, <2>6, <2>7, <2>8, MarksKeeps DEF StoreInv
<1>. QED
  BY <1>3, <1>6, <1>7

(* Steps that leave the rows alone and after which c holds nothing.        *)
LEMMA LooseStore ==
  ASSUME StoreInv, NEW c \in Call, TypeOK',
         UNCHANGED <<opened, credits, mem, bal, stale, spent, paid, granted, misread>>,
         \A d \in Call \ {c} : pc'[d] = pc[d] /\ user'[d] = user[d],
         pc'[c] \notin {"open", "reset", "write"}, faults' >= faults
  PROVE  StoreInv'
<1>1. Marks(c)
  BY DEF Marks
<1>2. Holds(c)'
  BY DEF Holds, HoldsOpen, HoldsReset, HoldsWrite
<1>3. Balanced' /\ EmptyUnopened'
  BY DEF StoreInv, Balanced, EmptyUnopened
<1>. QED
  BY <1>1, <1>2, <1>3, MarksKeeps DEF StoreInv

LEMMA StartStore ==
  ASSUME TypeOK, NEW c \in Call, NEW next \in {"return", "rpc", "write"}, Start(c, next)
  PROVE  /\ pc' \in [Call -> PCs] /\ then' \in [Call -> {"return", "rpc", "write"}]
         /\ now' \in [Call -> Nat]
         /\ \A d \in Call \ {c} : pc'[d] = pc[d]
         /\ pc'[c] = "select"
BY DEF Start, Goto, TypeOK, PCs

LEMMA GotoStore ==
  ASSUME TypeOK, NEW c \in Call, NEW label \in PCs, Goto(c, label)
  PROVE  /\ pc' \in [Call -> PCs] /\ pc'[c] = label
         /\ \A d \in Call \ {c} : pc'[d] = pc[d]
BY DEF Goto, TypeOK

LEMMA CheckStore ==
  ASSUME StoreInv, NEW c \in Call, CheckCharge(c)
  PROVE  StoreInv'
<1>1. /\ UNCHANGED <<opened, credits, resetDay, recorded, mem, today, user, charge, bal, stale>>
      /\ UNCHANGED <<spent, paid, granted, credited, misread, refunds>>
      /\ (Goto(c, "record") /\ UNCHANGED <<then, now>>) \/ Start(c, "return")
      /\ \E r \in {"ok", "refused"} : Charged(r)
  BY DEF CheckCharge, db, local, ledger
<1>2. TypeOK /\ faults' \in Nat /\ faults' >= faults
  BY <1>1, ChargedType DEF StoreInv
<1>3. /\ pc' \in [Call -> PCs] /\ then' \in [Call -> {"return", "rpc", "write"}]
      /\ now' \in [Call -> Nat]
      /\ \A d \in Call \ {c} : pc'[d] = pc[d]
      /\ pc'[c] \in {"record", "select"}
  <2>1. CASE Goto(c, "record") /\ UNCHANGED <<then, now>>
    BY <1>2, <2>1, GotoStore DEF TypeOK, PCs
  <2>2. CASE Start(c, "return")
    BY <1>2, <2>2, StartStore
  <2>. QED
    BY <1>1, <2>1, <2>2
<1>4. TypeOK'
  BY <1>1, <1>2, <1>3 DEF TypeOK
<1>. QED
  BY <1>1, <1>2, <1>3, <1>4, LooseStore

LEMMA RecordStore ==
  ASSUME StoreInv, NEW c \in Call, RecordCharge(c)
  PROVE  StoreInv'
<1>1. /\ UNCHANGED <<opened, credits, resetDay, mem, today, user, charge, bal, stale>>
      /\ UNCHANGED <<spent, paid, granted, credited, misread, refunds>>
      /\ recorded' \in {recorded, recorded \cup {charge[c]}}
      /\ Start(c, "return") \/ Start(c, "write")
      /\ UNCHANGED faults \/ \E r \in Reply : Charged(r)
  BY DEF RecordCharge, local, ledger
<1>2. TypeOK /\ faults' \in Nat /\ faults' >= faults
  BY <1>1, ChargedType DEF StoreInv, TypeOK
<1>3. recorded' \subseteq Charge
  BY <1>1, <1>2 DEF TypeOK
<1>4. /\ pc' \in [Call -> PCs] /\ then' \in [Call -> {"return", "rpc", "write"}]
      /\ now' \in [Call -> Nat]
      /\ \A d \in Call \ {c} : pc'[d] = pc[d]
      /\ pc'[c] = "select"
  BY <1>1, <1>2, StartStore
<1>5. TypeOK'
  BY <1>1, <1>2, <1>3, <1>4 DEF TypeOK
<1>. QED
  BY <1>1, <1>2, <1>4, <1>5, LooseStore

LEMMA BeginStore ==
  ASSUME StoreInv, NEW c \in Call, NEW u \in User,
         \/ BeginView(c, u) \/ BeginDeduct(c, u)
         \/ \E ch \in Charge : BeginAdd(c, u, ch)
  PROVE  StoreInv'
<1>1. /\ UNCHANGED <<opened, credits, resetDay, recorded, mem, today, bal, stale, faults>>
      /\ UNCHANGED <<spent, paid, granted, credited, misread>>
      /\ user' = [user EXCEPT ![c] = u]
  BY DEF BeginView, BeginDeduct, BeginAdd, Begin, db, ledger
<1>2. TypeOK /\ faults' >= faults
  BY <1>1 DEF StoreInv, TypeOK
<1>. DEFINE Begun ==
       /\ pc' \in [Call -> PCs] /\ then' \in [Call -> {"return", "rpc", "write"}]
       /\ now' \in [Call -> Nat] /\ charge' \in [Call -> Charge] /\ refunds' \in Nat
       /\ \A d \in Call \ {c} : pc'[d] = pc[d]
       /\ pc'[c] \in {"select", "check"}
<1>3. Begun
  <2>1. CASE BeginView(c, u) \/ BeginDeduct(c, u)
    <3>1. (Start(c, "return") \/ Start(c, "rpc")) /\ UNCHANGED <<charge, refunds>>
      BY <2>1 DEF BeginView, BeginDeduct
    <3>2. charge' \in [Call -> Charge] /\ refunds' \in Nat
      BY <1>2, <3>1 DEF TypeOK
    <3>. QED
      BY <1>2, <3>1, <3>2, StartStore
  <2>2. ASSUME NEW ch \in Charge, BeginAdd(c, u, ch)
        PROVE  Begun
    <3>1. Goto(c, "check") /\ "check" \in PCs /\ UNCHANGED <<then, now>>
      BY <2>2 DEF BeginAdd, PCs
    <3>2. charge' \in [Call -> Charge] /\ refunds' \in Nat
      BY <1>2, <2>2 DEF BeginAdd, TypeOK
    <3>. QED
      BY <1>2, <3>1, <3>2, GotoStore DEF TypeOK
  <2>. QED
    BY <2>1, <2>2
<1>4. user' \in [Call -> User] /\ \A d \in Call \ {c} : user'[d] = user[d]
  BY <1>1, <1>2 DEF TypeOK
<1>5. TypeOK'
  BY <1>1, <1>2, <1>3, <1>4 DEF TypeOK
<1>. QED
  BY <1>1, <1>2, <1>3, <1>4, <1>5, LooseStore

LEMMA AddStore ==
  ASSUME StoreInv, NEW c \in Call, AddCredits(c)
  PROVE  StoreInv'
<1>. DEFINE u == user[c]
            ch == charge[c]
            k == Credits[ch]
            sum == IF bal[c] = NoBalance THEN mem[ProcOf[c]][u].credits ELSE bal[c].credits + k
<1>1. /\ UNCHANGED <<opened, resetDay, recorded, mem, today, user, charge, spent, granted, refunds>>
      /\ pc[c] = "write" /\ bal' = [bal EXCEPT ![c] = NoBalance]
      /\ (Goto(c, "idle") /\ UNCHANGED <<then, now>>) \/ Start(c, "return")
  BY DEF AddCredits, local
<1>2. PICK r \in Reply :
        /\ Charged(r)
        /\ \/ /\ u \in opened /\ credits' = [credits EXCEPT ![u] = sum] /\ Wrote(c, u)
              /\ paid' = [paid EXCEPT ![u] = @ + k]
              /\ credited' = [credited EXCEPT ![ch] = @ + 1]
              /\ misread' = IF c \in stale \/ bal[c] = NoBalance THEN misread \cup {u} ELSE misread
           \/ UNCHANGED <<credits, paid, credited, misread>> /\ NotWritten(c)
  BY DEF AddCredits
<1>3. /\ TypeOK /\ u \in User /\ ch \in Charge /\ k \in Nat /\ credits[u] \in Nat
      /\ faults' \in Nat /\ faults' >= faults
  BY <1>2, StoreAssumption, ChargedType DEF StoreInv, TypeOK
<1>4. /\ sum \in Nat
      /\ c \in stale \/ bal[c] = NoBalance \/ sum = credits[u] + k
  <2>1. /\ bal[c] = NoBalance => mem[ProcOf[c]][u] \in Balance
        /\ bal[c] # NoBalance => bal[c] \in Balance /\ (c \in stale \/ bal[c].credits = credits[u])
    BY <1>1, <1>3 DEF StoreInv, Holds, HoldsWrite, TypeOK
  <2>. QED
    BY <1>3, <2>1 DEF Balance
<1>. HIDE DEF u, ch, k, sum
<1>5. /\ stale' \subseteq Call /\ credits' \in [User -> Nat]
      /\ \A d \in Call \ {c} :
           /\ d \in stale => d \in stale'
           /\ \/ pc[d] \notin {"reset", "write"} \/ credits'[user[d]] = credits[user[d]]
              \/ d \in stale'
  BY <1>2, <1>3, <1>4, WrotePart DEF u
<1>6. paid' \in [User -> Nat] /\ credited' \in [Charge -> Nat] /\ misread' \subseteq User
  <2>1. /\ paid \in [User -> Nat] /\ credited \in [Charge -> Nat] /\ misread \subseteq User
        /\ paid[u] + k \in Nat /\ credited[ch] + 1 \in Nat
    BY <1>3 DEF TypeOK
  <2>2. CASE UNCHANGED <<paid, credited, misread>>
    BY <2>1, <2>2
  <2>3. CASE /\ paid' = [paid EXCEPT ![u] = @ + k] /\ credited' = [credited EXCEPT ![ch] = @ + 1]
             /\ misread' \in {misread, misread \cup {u}}
    BY <1>3, <2>1, <2>3
  <2>. QED
    BY <1>2, <2>2, <2>3
<1>7. /\ pc' \in [Call -> PCs] /\ then' \in [Call -> {"return", "rpc", "write"}]
      /\ now' \in [Call -> Nat]
      /\ \A d \in Call \ {c} : pc'[d] = pc[d]
      /\ pc'[c] \in {"idle", "select"}
  <2>1. CASE Goto(c, "idle") /\ UNCHANGED <<then, now>>
    BY <1>3, <2>1, GotoStore DEF TypeOK, PCs
  <2>2. CASE Start(c, "return")
    BY <1>3, <2>2, StartStore
  <2>. QED
    BY <1>1, <2>1, <2>2
<1>8. /\ bal' \in [Call -> Balance \cup {NoBalance}]
      /\ \A d \in Call \ {c} : bal'[d] = bal[d]
  BY <1>1, <1>3 DEF TypeOK
<1>9. TypeOK'
  BY <1>1, <1>3, <1>5, <1>6, <1>7, <1>8 DEF TypeOK
<1>10. Marks(c)
  BY <1>1, <1>3, <1>5, <1>7, <1>8 DEF Marks
<1>11. Holds(c)'
  BY <1>7 DEF Holds, HoldsOpen, HoldsReset, HoldsWrite
<1>12. EmptyUnopened'
  BY <1>1, <1>2, <1>3 DEF StoreInv, EmptyUnopened, TypeOK
<1>13. Balanced'
  <2>1. CASE UNCHANGED <<credits, paid, misread>>
    BY <1>1, <2>1 DEF StoreInv, Balanced
  <2>2. CASE /\ credits' = [credits EXCEPT ![u] = sum] /\ paid' = [paid EXCEPT ![u] = @ + k]
             /\ misread' = IF c \in stale \/ bal[c] = NoBalance THEN misread \cup {u} ELSE misread
    <3>1. SUFFICES ASSUME NEW v \in User \ misread'
                   PROVE  credits'[v] + spent[v] = granted[v] + paid'[v]
      BY <1>1 DEF Balanced
    <3>2. /\ credits[v] + spent[v] = granted[v] + paid[v]
          /\ credits[v] \in Nat /\ spent[v] \in Nat /\ granted[v] \in Nat /\ paid[v] \in Nat
      BY <1>3, <2>2 DEF StoreInv, Balanced, TypeOK
    <3>3. CASE v # u
      BY <1>3, <2>2, <3>2, <3>3 DEF TypeOK
    <3>4. CASE v = u
      <4>1. sum = credits[v] + k
        BY <1>4, <2>2, <3>4
      <4>2. credits'[v] = credits[v] + k /\ paid'[v] = paid[v] + k
        BY <1>3, <2>2, <3>4, <4>1 DEF TypeOK
      <4>. QED
        BY <1>3, <3>2, <4>2
    <3>. QED
      BY <3>3, <3>4
  <2>. QED
    BY <1>2, <2>1, <2>2
<1>. QED
  BY <1>9, <1>10, <1>11, <1>12, <1>13, MarksKeeps DEF StoreInv

(* The memory that a death clears belongs to no call that goes on.         *)
LEMMA DieStore ==
  ASSUME StoreInv, NEW p \in Process, Die(p)
  PROVE  StoreInv'
<1>. DEFINE gone == {c \in Call : ProcOf[c] = p}
<1>1. /\ UNCHANGED <<opened, credits, resetDay, recorded, today, then, user, charge, now, refunds>>
      /\ UNCHANGED <<spent, paid, granted, credited, misread>>
      /\ pc' = [c \in Call |-> IF c \in gone THEN "idle" ELSE pc[c]]
      /\ bal' = [c \in Call |-> IF c \in gone THEN NoBalance ELSE bal[c]]
      /\ stale' = stale \ gone /\ faults' = faults + 1
      /\ mem' = [mem EXCEPT ![p] = [u \in User |-> NoBalance]]
  BY DEF Die, db, local, ledger
<1>2. TypeOK
  BY DEF StoreInv
<1>3. /\ pc' \in [Call -> PCs] /\ bal' \in [Call -> Balance \cup {NoBalance}] /\ stale' \subseteq Call
      /\ mem' \in [Process -> [User -> Balance \cup {NoBalance}]] /\ faults' \in Nat
  BY <1>1, <1>2 DEF TypeOK, PCs
<1>. HIDE DEF gone
<1>4. TypeOK'
  BY <1>1, <1>2, <1>3 DEF TypeOK
<1>5. Balanced' /\ EmptyUnopened'
  BY <1>1 DEF StoreInv, Balanced, EmptyUnopened
<1>6. ASSUME NEW c \in Call
      PROVE  Holds(c)'
  <2>1. CASE c \in gone
    BY <1>1, <2>1 DEF Holds, HoldsOpen, HoldsReset, HoldsWrite
  <2>2. CASE c \notin gone
    <3>1. ProcOf[c] \in Process \ {p}
      BY <2>2, StoreAssumption DEF gone
    <3>2. mem'[ProcOf[c]] = mem[ProcOf[c]]
      BY <1>1, <1>2, <3>1 DEF TypeOK
    <3>3. pc'[c] = pc[c] /\ bal'[c] = bal[c] /\ (c \in stale => c \in stale') /\ Holds(c)
      BY <1>1, <2>2 DEF StoreInv
    <3>4. faults > 0 => faults' > 0
      BY <1>1, <1>2 DEF TypeOK
    <3>5. HoldsOpen(c)' /\ HoldsReset(c)'
      BY <1>1, <3>3 DEF Holds, HoldsOpen, HoldsReset
    <3>6. HoldsWrite(c)'
      BY <1>1, <3>2, <3>3, <3>4 DEF Holds, HoldsWrite
    <3>. QED
      BY <3>5, <3>6 DEF Holds
  <2>. QED
    BY <2>1, <2>2
<1>. QED
  BY <1>4, <1>5, <1>6 DEF StoreInv

LEMMA InitStore == Init => StoreInv
BY StoreAssumption DEF Init, StoreInv, TypeOK, PCs, Balanced, EmptyUnopened, Holds, HoldsOpen,
   HoldsReset, HoldsWrite

LEMMA NextStore == StoreInv /\ [Next]_vars => StoreInv'
<1>. SUFFICES ASSUME StoreInv, [Next]_vars
              PROVE  StoreInv'
  OBVIOUS
<1>1. CASE UNCHANGED <<db, mem, pc, then, local, now, bal, stale, ledger, refunds, faults>>
           /\ today' \in Nat
  BY <1>1 DEF StoreInv, TypeOK, Balanced, EmptyUnopened, Holds, HoldsOpen, HoldsReset, HoldsWrite,
     db, local, ledger
<1>2. ASSUME NEW c \in Call, NEW u \in User, BeginView(c, u) \/ BeginDeduct(c, u)
      PROVE  StoreInv'
  BY <1>2, BeginStore
<1>3. ASSUME NEW c \in Call, NEW u \in User, NEW ch \in Charge, BeginAdd(c, u, ch)
      PROVE  StoreInv'
  BY <1>3, BeginStore
<1>4. ASSUME NEW c \in Call, Query(c)
      PROVE  StoreInv'
  BY <1>4, SelectStore, OpenStore, ResetStore, DeductStore, CheckStore, RecordStore, AddStore
     DEF Query
<1>5. CASE Midnight \/ UNCHANGED vars
  BY <1>5, <1>1 DEF Midnight, vars, StoreInv, TypeOK
<1>6. ASSUME NEW p \in Process, Die(p)
      PROVE  StoreInv'
  BY <1>6, DieStore
<1>. QED
  BY <1>2, <1>3, <1>4, <1>5, <1>6 DEF Next

(* Type correctness of the store.                                          *)
THEOREM TypeCorrect == Spec => []TypeOK
<1>1. StoreInv => TypeOK
  BY DEF StoreInv
<1>. QED
  BY <1>1, InitStore, NextStore, PTL DEF Spec

(* The credits of a row add up, for however many tasks and processes,      *)
(* unless one of its calls wrote over another's write or, after a query    *)
(* that failed, what it had not read (supabase_client.py:206-240, 377-393).*)
THEOREM CreditsBalanced == Spec => []Balanced
<1>1. StoreInv => Balanced
  BY DEF StoreInv
<1>. QED
  BY <1>1, InitStore, NextStore, PTL DEF Spec

-----------------------------------------------------------------------------
(* A step of c leaves no recorded charge without its credits or a call     *)
(* that is about to add them, unless a query has failed.                   *)
LEMMA DebtKept ==
  ASSUME RecordedIsCredited, recorded' \subseteq Charge, NEW c \in Call, faults \in Nat,
         \A d \in Call \ {c} : pc'[d] = pc[d] /\ then'[d] = then[d] /\ charge'[d] = charge[d],
         faults' \in Nat, faults' >= faults,
         OwesCredits(c) => \/ OwesCredits(c)' /\ charge'[c] = charge[c]
                           \/ credited'[charge[c]] = 1 \/ faults' > 0,
         \A ch \in recorded' \ recorded : \/ OwesCredits(c)' /\ charge'[c] = ch
                                          \/ faults' > 0,
         \A ch \in Charge : credited[ch] = 1 => credited'[ch] = 1
  PROVE  RecordedIsCredited'
<1>. SUFFICES ASSUME NEW ch \in recorded', ~(faults' > 0), credited'[ch] # 1
              PROVE  Crediting(ch)'
  BY DEF RecordedIsCredited
<1>1. ~(faults > 0)
  OBVIOUS
<1>2. CASE ch \notin recorded
  BY <1>2 DEF Crediting, OwesCredits
<1>3. CASE ch \in recorded
  <2>1. PICK d \in Call : charge[d] = ch /\ OwesCredits(d)
    BY <1>1, <1>3 DEF RecordedIsCredited, Crediting, OwesCredits
  <2>2. OwesCredits(d)' /\ charge'[d] = ch
    BY <2>1 DEF OwesCredits
  <2>. QED
    BY <2>2 DEF Crediting, OwesCredits
<1>. QED
  BY <1>2, <1>3

LEMMA QueryDebt ==
  ASSUME StoreInv, CreditInv, RecordedIsCredited, NEW c \in Call, Query(c)
  PROVE  RecordedIsCredited'
<1>. USE DEF local, ledger, db
<1>1. /\ TypeOK /\ TypeOK'
  BY NextStore DEF StoreInv, Next
<1>2. faults \in Nat /\ faults' \in Nat /\ recorded' \subseteq Charge /\ charge[c] \in Charge
  BY <1>1 DEF TypeOK
<1>3. \A r : Charged(r) => faults' >= faults /\ (r # "ok" => faults' > 0)
  BY <1>1, ChargedType
<1>4. CASE Select(c) \/ OpenAccount(c) \/ ResetDaily(c)
  <2>1. /\ pc[c] \in {"select", "open", "reset"} /\ UNCHANGED <<then, charge, recorded, credited>>
        /\ \/ Goto(c, "open") \/ Goto(c, "reset")
           \/ Goto(c, IF then[c] = "return" THEN "idle" ELSE then[c])
    BY <1>4 DEF Select, OpenAccount, ResetDaily, GotMemory, Got
  <2>2. UNCHANGED faults \/ \E r : Charged(r)
    BY <1>4 DEF Select, OpenAccount, ResetDaily
  <2>3. OwesCredits(c) => OwesCredits(c)'
    BY <1>1, <2>1 DEF OwesCredits, Goto, TypeOK
  <2>4. \A d \in Call \ {c} : pc'[d] = pc[d]
    BY <1>1, <2>1 DEF Goto, TypeOK
  <2>. QED
    BY <1>2, <1>3, <2>1, <2>2, <2>3, <2>4, DebtKept
<1>5. CASE Deduct(c) \/ CheckCharge(c)
  <2>1. /\ pc[c] \in {"rpc", "check"} /\ UNCHANGED <<charge, recorded, credited>>
        /\ \E r : Charged(r)
        /\ \/ (Goto(c, "idle") \/ Goto(c, "record")) /\ UNCHANGED then
           \/ Start(c, "return")
    BY <1>5 DEF Deduct, CheckCharge
  <2>2. ~OwesCredits(c)
    BY <2>1 DEF OwesCredits
  <2>3. \A d \in Call \ {c} : pc'[d] = pc[d] /\ then'[d] = then[d]
    BY <1>1, <2>1 DEF Goto, Start, TypeOK
  <2>. QED
    BY <1>2, <1>3, <2>1, <2>2, <2>3, DebtKept
<1>6. CASE RecordCharge(c)
  <2>1. pc[c] = "record" /\ UNCHANGED <<charge, credited>> /\ ~OwesCredits(c)
    BY <1>6 DEF RecordCharge, OwesCredits
  <2>2. \/ Start(c, "return") /\ UNCHANGED <<recorded, faults>>
        \/ /\ Charged("ok") /\ recorded' = recorded \cup {charge[c]} /\ Start(c, "write")
        \/ \E r \in Reply \ {"ok"} : Charged(r) /\ Start(c, "return")
    BY <1>6 DEF RecordCharge, Applied
  <2>3. \A d \in Call \ {c} : pc'[d] = pc[d] /\ then'[d] = then[d]
    BY <1>1, <2>2 DEF Goto, Start, TypeOK
  <2>4. Start(c, "write") => OwesCredits(c)'
    BY <1>1 DEF OwesCredits, Goto, Start, TypeOK
  <2>5. /\ faults' >= faults
        /\ \/ faults' > 0 \/ recorded' = recorded
           \/ recorded' = recorded \cup {charge[c]} /\ OwesCredits(c)'
    <3>1. CASE UNCHANGED <<recorded, faults>>
      BY <1>2, <3>1
    <3>2. CASE Charged("ok") /\ recorded' = recorded \cup {charge[c]} /\ Start(c, "write")
      BY <1>3, <2>4, <3>2
    <3>3. ASSUME NEW r \in Reply \ {"ok"}, Charged(r)
          PROVE  faults' >= faults /\ faults' > 0
      BY <1>3, <3>3
    <3>. QED
      BY <2>2, <3>1, <3>2, <3>3
  <2>. QED
    BY <1>2, <2>1, <2>3, <2>5, DebtKept
<1>7. CASE AddCredits(c)
  <2>1. /\ pc[c] = "write" /\ UNCHANGED <<charge, recorded>>
        /\ (Goto(c, "idle") /\ UNCHANGED then) \/ Start(c, "return")
    BY <1>7 DEF AddCredits
  <2>2. \E r \in Reply :
          /\ Charged(r)
          /\ \/ credited' = [credited EXCEPT ![charge[c]] = @ + 1]
             \/ credited' = credited /\ (r # "ok" \/ user[c] \notin opened)
    BY <1>7 DEF AddCredits, Applied
  <2>3. \A d \in Call \ {c} : pc'[d] = pc[d] /\ then'[d] = then[d]
    BY <1>1, <2>1 DEF Goto, Start, TypeOK
  <2>4. user[c] \in opened \/ faults > 0
    BY <2>1 DEF StoreInv, Holds, HoldsWrite
  <2>5. credited[charge[c]] = 0
    BY <2>1 DEF CreditInv, WriterAdds, OneCreditor, OwesCredits
  <2>6. credited' = [credited EXCEPT ![charge[c]] = @ + 1] => credited'[charge[c]] = 1
    BY <1>1, <1>2, <2>5 DEF TypeOK
  <2>7. \A ch \in Charge : credited[ch] = 1 => credited'[ch] = 1
    BY <1>1, <2>2, <2>5 DEF TypeOK
  <2>8. faults' >= faults /\ (credited'[charge[c]] = 1 \/ faults' > 0)
    BY <1>2, <1>3, <2>2, <2>4, <2>6
  <2>. QED
    BY <1>2, <2>1, <2>3, <2>7, <2>8, DebtKept
<1>. QED
  BY <1>4, <1>5, <1>6, <1>7 DEF Query

LEMMA NextDebt ==
  StoreInv /\ CreditInv /\ RecordedIsCredited /\ [Next]_vars => RecordedIsCredited'
<1>. SUFFICES ASSUME StoreInv, CreditInv, RecordedIsCredited, [Next]_vars
              PROVE  RecordedIsCredited'
  OBVIOUS
<1>1. CASE UNCHANGED <<pc, then, charge, recorded, credited, faults>>
  BY <1>1 DEF RecordedIsCredited, Crediting
<1>2. ASSUME NEW c \in Call, NEW u \in User,
             \/ BeginView(c, u) \/ BeginDeduct(c, u)
             \/ \E ch \in Charge : BeginAdd(c, u, ch)
      PROVE  RecordedIsCredited'
  <2>1. /\ pc[c] = "idle" /\ UNCHANGED <<recorded, credited, faults>>
    BY <1>2 DEF BeginView, BeginDeduct, BeginAdd, Begin, db, ledger
  <2>2. ~OwesCredits(c) /\ TypeOK
    BY <2>1 DEF OwesCredits, StoreInv
  <2>3. \A d \in Call \ {c} : pc'[d] = pc[d] /\ then'[d] = then[d] /\ charge'[d] = charge[d]
    BY <1>2, <2>2 DEF BeginView, BeginDeduct, BeginAdd, Start, Goto, TypeOK
  <2>4. recorded' \subseteq Charge /\ faults \in Nat /\ faults' >= faults
    BY <2>1, <2>2 DEF TypeOK
  <2>. QED
    BY <2>1, <2>2, <2>3, <2>4, DebtKept
<1>3. ASSUME NEW c \in Call, Query(c)
      PROVE  RecordedIsCredited'
  BY <1>3, QueryDebt
<1>4. CASE Midnight \/ UNCHANGED vars
  BY <1>4, <1>1 DEF Midnight, vars, db, local, ledger
<1>5. ASSUME NEW p \in Process, Die(p)
      PROVE  RecordedIsCredited'
  <2>1. faults' > 0
    BY <1>5 DEF Die, StoreInv, TypeOK
  <2>. QED
    BY <2>1 DEF RecordedIsCredited
<1>. QED
  BY <1>2, <1>3, <1>4, <1>5 DEF Next

(* A charge that star_transactions holds has been credited, or one call is *)
(* about to, unless a query has failed: then the recorded charge stops the *)
(* next delivery from crediting it (supabase_client.py:343-375).           *)
THEOREM RecordedCharges == Spec => []RecordedIsCredited
<1>1. Init => RecordedIsCredited
  BY DEF Init, RecordedIsCredited
<1>. QED
  BY <1>1, InitStore, NextStore, InitCredit, NextCredit, NextDebt, PTL DEF Spec
-----------------------------------------------------------------------------
(* The days of a call: it began on a day that has come, and the reset it   *)
(* is about to write is a later one than the row's, or it is marked.       *)
Dated(c) ==
  /\ now[c] <= today
  /\ pc[c] = "open" => bal[c].day <= today
  /\ pc[c] = "reset" => c \in stale \/ resetDay[user[c]] < now[c]

DatedInv ==
  /\ \A u \in User \ opened : granted[u] = 0
  /\ \A c \in Call : Dated(c)

LEMMA InitDated == Init => DatedInv /\ Ledger!Init
<1>. SUFFICES ASSUME Init PROVE DatedInv /\ Ledger!Init
  OBVIOUS
<1>1. DatedInv
  BY DEF Init, DatedInv, Dated
<1>2. {ch \in Charge : credited[ch] > 0} = {}
  BY DEF Init
<1>. QED
  BY <1>1, <1>2 DEF Init, Ledger!Init

(* A step of c moves the reset of no row but under the calls it marks.     *)
LEMMA DatedLocal ==
  ASSUME DatedInv, NEW c \in Call, today' = today,
         \A d \in Call \ {c} : /\ pc'[d] = pc[d] /\ user'[d] = user[d] /\ bal'[d] = bal[d]
                               /\ now'[d] = now[d] /\ (d \in stale => d \in stale')
                               /\ \/ pc[d] # "reset" \/ d \in stale'
                                  \/ resetDay'[user[d]] = resetDay[user[d]],
         \A u \in User \ opened' : granted'[u] = 0,
         Dated(c)'
  PROVE  DatedInv'
<1>. SUFFICES ASSUME NEW d \in Call, d # c PROVE Dated(d)'
  BY DEF DatedInv
<1>1. Dated(d)
  BY DEF DatedInv
<1>. QED
  BY <1>1 DEF Dated

(* Nothing the ledger speaks of changes.                                   *)
Stays == UNCHANGED <<today, opened, credits, resetDay, credited, spent, paid, granted>>

LEMMA StaysLedger == Stays => UNCHANGED Ledger!vars
BY DEF Stays, Ledger!vars

-----------------------------------------------------------------------------
(* A step of c that only moves c.                                          *)
LEMMA QuietDated ==
  ASSUME StoreInv, DatedInv, NEW c \in Call, UNCHANGED <<db, today, stale, ledger>>,
         \A d \in Call \ {c} : /\ pc'[d] = pc[d] /\ user'[d] = user[d] /\ bal'[d] = bal[d]
                               /\ now'[d] = now[d],
         Dated(c)'
  PROVE  DatedInv' /\ Stays
<1>1. Stays
  BY DEF Stays, db, ledger
<1>2. \A v \in User \ opened' : granted'[v] = 0
  BY <1>1 DEF Stays, DatedInv
<1>3. today' = today /\ resetDay' = resetDay /\ stale' = stale
  BY <1>1 DEF Stays
<1>4. DatedInv'
  BY <1>2, <1>3, DatedLocal
<1>. QED
  BY <1>1, <1>4

LEMMA BeginDated ==
  ASSUME StoreInv, DatedInv, NEW c \in Call, NEW u \in User,
         \/ BeginView(c, u) \/ BeginDeduct(c, u)
         \/ \E ch \in Charge : BeginAdd(c, u, ch)
  PROVE  DatedInv' /\ Stays
<1>1. /\ user' = [user EXCEPT ![c] = u] /\ UNCHANGED <<db, today, bal, stale, ledger>>
      /\ \/ Goto(c, "select") /\ now' = [now EXCEPT ![c] = today]
         \/ Goto(c, "check") /\ UNCHANGED now
  BY DEF BeginView, BeginDeduct, BeginAdd, Begin, Start
<1>2. pc'[c] \in {"select", "check"} /\ now'[c] <= today
  BY <1>1 DEF StoreInv, TypeOK, Goto, DatedInv, Dated
<1>3. Dated(c)'
  BY <1>1, <1>2 DEF Dated
<1>4. \A d \in Call \ {c} : pc'[d] = pc[d] /\ user'[d] = user[d] /\ bal'[d] = bal[d] /\ now'[d] = now[d]
  BY <1>1 DEF StoreInv, TypeOK, Goto
<1>. QED
  BY <1>1, <1>3, <1>4, QuietDated

LEMMA SelectDated ==
  ASSUME StoreInv, DatedInv, NEW c \in Call, Select(c)
  PROVE  DatedInv' /\ Stays
<1>. DEFINE u == user[c]
            row == [credits |-> credits[u], day |-> resetDay[u]]
<1>1. TypeOK /\ u \in User /\ now[c] <= today
  BY DEF StoreInv, TypeOK, DatedInv, Dated
<1>2. UNCHANGED <<db, today, user, now, stale, ledger>>
  BY DEF Select, local
<1>3. \/ /\ Goto(c, "open")
         /\ bal' = [bal EXCEPT ![c] = [credits |-> Free, day |-> today]]
      \/ /\ resetDay[u] < now[c] /\ Goto(c, "reset")
         /\ bal' = [bal EXCEPT ![c] = [credits |-> Filled(credits[u]), day |-> now[c]]]
      \/ Got(c, row) \/ Got(c, NoBalance)
  BY DEF Select, GotMemory
<1>4. UNCHANGED <<today, resetDay>>
  BY <1>2 DEF db
<1>5. CASE /\ Goto(c, "open")
           /\ bal' = [bal EXCEPT ![c] = [credits |-> Free, day |-> today]]
  <2>1. /\ pc'[c] = "open" /\ bal'[c].day = today
        /\ \A d \in Call \ {c} : pc'[d] = pc[d] /\ bal'[d] = bal[d]
    BY <1>1, <1>5 DEF Goto, TypeOK
  <2>2. Dated(c)'
    BY <1>1, <1>2, <1>4, <2>1 DEF Dated, TypeOK
  <2>. QED
    BY <1>2, <2>1, <2>2, QuietDated
<1>6. CASE /\ resetDay[u] < now[c] /\ Goto(c, "reset")
           /\ bal' = [bal EXCEPT ![c] = [credits |-> Filled(credits[u]), day |-> now[c]]]
  <2>1. /\ pc'[c] = "reset"
        /\ \A d \in Call \ {c} : pc'[d] = pc[d] /\ bal'[d] = bal[d]
    BY <1>1, <1>6 DEF Goto, TypeOK
  <2>2. Dated(c)'
    BY <1>1, <1>2, <1>4, <1>6, <2>1 DEF Dated
  <2>. QED
    BY <1>2, <2>1, <2>2, QuietDated
<1>7. CASE Got(c, row) \/ Got(c, NoBalance)
  <2>1. row \in Balance
    BY <1>1 DEF TypeOK, Balance
  <2>. HIDE DEF row
  <2>2. /\ pc'[c] \notin {"open", "reset"}
        /\ \A d \in Call \ {c} : pc'[d] = pc[d] /\ bal'[d] = bal[d]
    BY <1>1, <1>7, <2>1, GotType
  <2>3. Dated(c)'
    BY <1>1, <1>2, <1>4, <2>2 DEF Dated
  <2>. QED
    BY <1>2, <2>2, <2>3, QuietDated
<1>. QED
  BY <1>3, <1>5, <1>6, <1>7

(* The row is the user's first, and its day has come.                      *)
LEMMA OpenDated ==
  ASSUME StoreInv, DatedInv, NEW c \in Call, OpenAccount(c)
  PROVE  DatedInv' /\ (Ledger!Open(user[c]) \/ Stays)
<1>. DEFINE u == user[c]
<1>1. TypeOK /\ u \in User /\ pc[c] = "open"
  BY DEF StoreInv, TypeOK, OpenAccount
<1>2. /\ bal[c] \in Balance /\ bal[c].credits = Free
      /\ bal[c].day <= today /\ now[c] <= today
  BY <1>1 DEF StoreInv, Holds, HoldsOpen, DatedInv, Dated
<1>3. /\ Got(c, bal[c]) \/ Got(c, NoBalance)
      /\ UNCHANGED <<today, user, now, stale, spent, paid, credited>>
      /\ \/ UNCHANGED <<opened, credits, resetDay, granted>>
         \/ /\ u \notin opened
            /\ opened' = opened \cup {u} /\ credits' = [credits EXCEPT ![u] = bal[c].credits]
            /\ resetDay' = [resetDay EXCEPT ![u] = bal[c].day]
            /\ granted' = [granted EXCEPT ![u] = @ + Free]
  BY DEF OpenAccount, GotMemory, Applied, local
<1>4. /\ pc'[c] \notin {"open", "reset"}
      /\ \A d \in Call \ {c} : pc'[d] = pc[d] /\ bal'[d] = bal[d]
  BY <1>1, <1>2, <1>3, GotType
<1>5. Dated(c)'
  BY <1>2, <1>3, <1>4 DEF Dated
<1>6. ASSUME NEW d \in Call \ {c}, pc[d] = "reset"
      PROVE  resetDay'[user[d]] = resetDay[user[d]]
  <2>1. user[d] \in opened /\ user[d] \in User
    BY <1>1, <1>6 DEF StoreInv, Holds, HoldsReset, TypeOK
  <2>. QED
    BY <1>1, <1>3, <2>1 DEF TypeOK
<1>7. \A v \in User \ opened' : granted'[v] = 0
  BY <1>1, <1>3 DEF DatedInv, TypeOK
<1>8. DatedInv'
  BY <1>3, <1>4, <1>5, <1>6, <1>7, DatedLocal
<1>9. Ledger!Open(u) \/ Stays
  <2>1. CASE UNCHANGED <<opened, credits, resetDay, granted>>
    BY <1>3, <2>1 DEF Stays
  <2>2. CASE /\ u \notin opened
             /\ opened' = opened \cup {u} /\ credits' = [credits EXCEPT ![u] = bal[c].credits]
             /\ resetDay' = [resetDay EXCEPT ![u] = bal[c].day]
             /\ granted' = [granted EXCEPT ![u] = @ + Free]
    <3>1. granted' = [granted EXCEPT ![u] = Free]
      <4>1. granted[u] = 0
        BY <1>1, <2>2 DEF DatedInv
      <4>. QED
        BY <1>1, <2>2, <4>1, StoreAssumption DEF TypeOK
    <3>2. bal[c].day \in 0 .. today
      BY <1>1, <1>2 DEF Balance, TypeOK
    <3>. QED
      BY <1>2, <1>3, <2>2, <3>1, <3>2 DEF Ledger!Open
  <2>. QED
    BY <1>3, <2>1, <2>2
<1>. QED
  BY <1>8, <1>9

(* A reset that nobody wrote over fills the row up for a later day.        *)
LEMMA ResetDated ==
  ASSUME StoreInv, DatedInv, NEW c \in Call, ResetDaily(c)
  PROVE  DatedInv' /\ (Ledger!TopUp(user[c]) \/ Stays \/ misread' # {})
<1>. DEFINE u == user[c]
<1>1. TypeOK /\ u \in User /\ pc[c] = "reset"
  BY DEF StoreInv, TypeOK, ResetDaily
<1>2. /\ bal[c] \in Balance /\ u \in opened /\ now[c] <= today
      /\ c \in stale \/ (bal[c].credits = Filled(credits[u]) /\ resetDay[u] < now[c])
  BY <1>1 DEF StoreInv, Holds, HoldsReset, DatedInv, Dated
<1>3. /\ Got(c, bal[c]) \/ Got(c, NoBalance)
      /\ UNCHANGED <<opened, today, user, now, spent, paid, credited>>
      /\ \/ UNCHANGED <<credits, resetDay, granted>> /\ NotWritten(c)
         \/ /\ credits' = [credits EXCEPT ![u] = bal[c].credits]
            /\ resetDay' = [resetDay EXCEPT ![u] = now[c]]
            /\ granted' = [granted EXCEPT ![u] = @ + (Filled(credits[u]) - credits[u])]
            /\ Wrote(c, u) /\ (c \in stale => misread' = misread \cup {u})
  BY DEF ResetDaily, GotMemory, Applied, local
<1>4. /\ pc'[c] \notin {"open", "reset"}
      /\ \A d \in Call \ {c} : pc'[d] = pc[d] /\ bal'[d] = bal[d]
  BY <1>1, <1>2, <1>3, GotType
<1>5. Dated(c)'
  BY <1>2, <1>3, <1>4 DEF Dated
<1>6. \A d \in Call \ {c} : /\ d \in stale => d \in stale'
                            /\ \/ pc[d] # "reset" \/ d \in stale'
                               \/ resetDay'[user[d]] = resetDay[user[d]]
  <2>1. CASE NotWritten(c) /\ UNCHANGED resetDay
    BY <2>1 DEF NotWritten
  <2>2. CASE Wrote(c, u) /\ resetDay' = [resetDay EXCEPT ![u] = now[c]]
    BY <1>1, <2>2 DEF Wrote, TypeOK
  <2>. QED
    BY <1>3, <2>1, <2>2
<1>7. \A v \in User \ opened' : granted'[v] = 0
  BY <1>1, <1>2, <1>3 DEF DatedInv, TypeOK
<1>8. DatedInv'
  BY <1>3, <1>4, <1>5, <1>6, <1>7, DatedLocal
<1>9. Ledger!TopUp(u) \/ Stays \/ misread' # {}
  <2>1. CASE UNCHANGED <<credits, resetDay, granted>>
    BY <1>3, <2>1 DEF Stays
  <2>2. CASE c \in stale /\ misread' = misread \cup {u}
    BY <2>2
  <2>3. CASE /\ c \notin stale /\ credits' = [credits EXCEPT ![u] = bal[c].credits]
             /\ resetDay' = [resetDay EXCEPT ![u] = now[c]]
             /\ granted' = [granted EXCEPT ![u] = @ + (Filled(credits[u]) - credits[u])]
    <3>1. now[c] \in resetDay[u] + 1 .. today
      BY <1>1, <1>2, <2>3 DEF TypeOK
    <3>2. Filled(credits[u]) = IF credits[u] < Free THEN Free ELSE credits[u]
      BY DEF Filled
    <3>. QED
      BY <1>2, <1>3, <2>3, <3>1, <3>2 DEF Ledger!TopUp
  <2>. QED
    BY <1>3, <2>1, <2>2, <2>3
<1>. QED
  BY <1>8, <1>9

LEMMA DeductDated ==
  ASSUME StoreInv, DatedInv, NEW c \in Call, Deduct(c)
  PROVE  DatedInv' /\ (Ledger!Spend(user[c]) \/ Stays)
<1>. DEFINE u == user[c]
<1>1. TypeOK /\ u \in User /\ pc[c] = "rpc"
  BY DEF StoreInv, TypeOK, Deduct
<1>2. /\ UNCHANGED <<opened, resetDay, today, user, now, bal, paid, granted, credited>>
      /\ Goto(c, "idle")
  BY DEF Deduct, local
<1>3. \/ /\ TakesCredit(u) /\ credits' = [credits EXCEPT ![u] = @ - 1]
         /\ spent' = [spent EXCEPT ![u] = @ + 1] /\ Wrote(c, u)
      \/ UNCHANGED <<credits, spent, stale>>
  BY DEF Deduct
<1>4. /\ pc'[c] = "idle" /\ \A d \in Call \ {c} : pc'[d] = pc[d] /\ (d \in stale => d \in stale')
  BY <1>1, <1>2, <1>3 DEF Goto, TypeOK, Wrote
<1>5. Dated(c)'
  BY <1>2, <1>4 DEF DatedInv, Dated
<1>6. \A v \in User \ opened' : granted'[v] = 0
  BY <1>2 DEF DatedInv
<1>7. DatedInv'
  BY <1>2, <1>4, <1>5, <1>6, DatedLocal
<1>8. Ledger!Spend(u) \/ Stays
  <2>1. CASE UNCHANGED <<credits, spent>>
    BY <1>2, <2>1 DEF Stays
  <2>2. CASE /\ TakesCredit(u) /\ credits' = [credits EXCEPT ![u] = @ - 1]
             /\ spent' = [spent EXCEPT ![u] = @ + 1]
    <3>1. u \in opened /\ credits[u] > 0
      BY <1>1, <2>2 DEF TakesCredit, TypeOK
    <3>. QED
      BY <1>2, <2>2, <3>1 DEF Ledger!Spend
  <2>. QED
    BY <1>3, <2>1, <2>2
<1>. QED
  BY <1>7, <1>8

LEMMA CheckDated ==
  ASSUME StoreInv, DatedInv, NEW c \in Call, CheckCharge(c) \/ RecordCharge(c)
  PROVE  DatedInv' /\ Stays
<1>1. TypeOK
  BY DEF StoreInv
<1>2. /\ UNCHANGED <<opened, credits, resetDay, today, user, bal, stale, ledger>>
      /\ \/ Goto(c, "record") /\ UNCHANGED now
         \/ Goto(c, "select") /\ now' = [now EXCEPT ![c] = today]
  BY DEF CheckCharge, RecordCharge, Start, db, local
<1>3. /\ pc'[c] \in {"record", "select"} /\ now'[c] <= today
      /\ \A d \in Call \ {c} : pc'[d] = pc[d] /\ now'[d] = now[d]
  BY <1>1, <1>2 DEF Goto, TypeOK, DatedInv, Dated
<1>4. Dated(c)'
  BY <1>2, <1>3 DEF Dated
<1>5. Stays
  BY <1>2 DEF Stays, ledger
<1>6. \A v \in User \ opened' : granted'[v] = 0
  BY <1>2 DEF DatedInv, ledger
<1>7. DatedInv'
  BY <1>2, <1>3, <1>4, <1>6, DatedLocal
<1>. QED
  BY <1>5, <1>7

(* An update of what was read from the row credits a charge that has not   *)
(* been credited before.                                                   *)
LEMMA AddDated ==
  ASSUME StoreInv, CreditInv, DatedInv, NEW c \in Call, AddCredits(c)
  PROVE  /\ DatedInv'
         /\ (\E v \in User, k \in Charge : Ledger!Credit(v, k)) \/ Stays \/ misread' # {}
<1>. DEFINE u == user[c]
            ch == charge[c]
<1>1. TypeOK /\ u \in User /\ ch \in Charge /\ pc[c] = "write"
  BY DEF StoreInv, TypeOK, AddCredits
<1>2. /\ bal[c] # NoBalance => c \in stale \/ bal[c].credits = credits[u]
      /\ now[c] <= today
  BY <1>1 DEF StoreInv, Holds, HoldsWrite, DatedInv, Dated
<1>3. credited[ch] = 0
  BY <1>1 DEF CreditInv, WriterAdds, OneCreditor, OwesCredits
<1>4. /\ UNCHANGED <<opened, resetDay, today, user, spent, granted>>
      /\ bal' = [bal EXCEPT ![c] = NoBalance]
      /\ (Goto(c, "idle") /\ UNCHANGED now) \/ (Goto(c, "select") /\ now' = [now EXCEPT ![c] = today])
      /\ \/ UNCHANGED <<credits, paid, credited>> /\ NotWritten(c)
         \/ /\ u \in opened
            /\ bal[c] # NoBalance => credits' = [credits EXCEPT ![u] = bal[c].credits + Credits[ch]]
            /\ paid' = [paid EXCEPT ![u] = @ + Credits[ch]]
            /\ credited' = [credited EXCEPT ![ch] = @ + 1]
            /\ c \in stale \/ bal[c] = NoBalance => misread' = misread \cup {u}
            /\ Wrote(c, u)
  BY DEF AddCredits, Start, Applied, local
<1>5. /\ pc'[c] \in {"idle", "select"} /\ now'[c] <= today
      /\ \A d \in Call \ {c} : pc'[d] = pc[d] /\ bal'[d] = bal[d] /\ now'[d] = now[d]
  BY <1>1, <1>2, <1>4 DEF Goto, TypeOK
<1>6. Dated(c)'
  BY <1>4, <1>5 DEF Dated
<1>7. \A d \in Call \ {c} : d \in stale => d \in stale'
  BY <1>4 DEF Wrote, NotWritten
<1>8. \A v \in User \ opened' : granted'[v] = 0
  BY <1>4 DEF DatedInv
<1>9. DatedInv'
  BY <1>4, <1>5, <1>6, <1>7, <1>8, DatedLocal
<1>10. (\E v \in User, k \in Charge : Ledger!Credit(v, k)) \/ Stays \/ misread' # {}
  <2>1. CASE UNCHANGED <<credits, paid, credited>>
    BY <1>4, <2>1 DEF Stays
  <2>2. CASE misread' = misread \cup {u}
    BY <2>2
  <2>3. CASE /\ u \in opened /\ bal[c] # NoBalance /\ c \notin stale
             /\ credits' = [credits EXCEPT ![u] = bal[c].credits + Credits[ch]]
             /\ paid' = [paid EXCEPT ![u] = @ + Credits[ch]]
             /\ credited' = [credited EXCEPT ![ch] = @ + 1]
    <3>1. credits' = [credits EXCEPT ![u] = @ + Credits[ch]]
      BY <1>2, <2>3
    <3>2. {x \in Charge : credited'[x] > 0} = {x \in Charge : credited[x] > 0} \cup {ch}
      BY <1>1, <1>3, <2>3 DEF TypeOK
    <3>3. ch \notin {x \in Charge : credited[x] > 0}
      BY <1>3
    <3>. PICK v \in User, k \in Charge : v = u /\ k = ch
      BY <1>1
    <3>4. Ledger!Credit(v, k)
      BY <1>4, <2>3, <3>1, <3>2, <3>3 DEF Ledger!Credit
    <3>. QED
      BY <3>4
  <2>. QED
    BY <1>4, <2>1, <2>2, <2>3
<1>. QED
  BY <1>9, <1>10

LEMMA MidnightDated ==
  ASSUME StoreInv, DatedInv, Midnight
  PROVE  DatedInv' /\ Ledger!Midnight
<1>1. /\ today' = today + 1 /\ today \in Nat /\ now \in [Call -> Nat] /\ bal' = bal
      /\ UNCHANGED <<db, pc, user, now, stale, ledger>>
  BY DEF Midnight, StoreInv, TypeOK, local
<1>2. UNCHANGED <<opened, credits, resetDay, spent, paid, granted, credited>>
  BY <1>1 DEF db, ledger
<1>3. Ledger!Midnight
  BY <1>1, <1>2 DEF Ledger!Midnight
<1>4. \A c \in Call : Dated(c)'
  <2>. SUFFICES ASSUME NEW c \in Call PROVE Dated(c)'
    OBVIOUS
  <2>1. Dated(c) /\ now[c] \in Nat
    BY <1>1 DEF DatedInv
  <2>2. pc[c] = "open" => bal[c].day \in Nat
    BY DEF StoreInv, Holds, HoldsOpen, Balance
  <2>. QED
    BY <1>1, <1>2, <2>1, <2>2 DEF Dated
<1>. QED
  BY <1>2, <1>3, <1>4 DEF DatedInv

LEMMA DieDated ==
  ASSUME StoreInv, DatedInv, NEW p \in Process, Die(p)
  PROVE  DatedInv' /\ Stays
<1>1. /\ Stays /\ UNCHANGED <<user, now>>
      /\ \A c \in Call : \/ pc'[c] = "idle"
                         \/ pc'[c] = pc[c] /\ bal'[c] = bal[c] /\ (c \in stale => c \in stale')
  BY DEF Die, Stays, db, local, ledger
<1>2. \A c \in Call : Dated(c)'
  BY <1>1 DEF DatedInv, Dated, Stays
<1>. QED
  BY <1>1, <1>2 DEF DatedInv, Stays

LEMMA NextDated ==
  ASSUME StoreInv, CreditInv, DatedInv, [Next]_vars
  PROVE  DatedInv' /\ [LedgerStep]_(Ledger!vars)
<1>0. \A c \in Call : user[c] \in User /\ charge[c] \in Charge
  BY DEF StoreInv, TypeOK
<1>1. CASE UNCHANGED vars
  BY <1>1 DEF vars, db, local, ledger, DatedInv, Dated, Ledger!vars
<1>2. ASSUME NEW c \in Call, NEW u \in User,
             \/ BeginView(c, u) \/ BeginDeduct(c, u)
             \/ \E ch \in Charge : BeginAdd(c, u, ch)
      PROVE  DatedInv' /\ [LedgerStep]_(Ledger!vars)
  BY <1>2, BeginDated, StaysLedger
<1>3. ASSUME NEW c \in Call, Select(c) \/ CheckCharge(c) \/ RecordCharge(c)
      PROVE  DatedInv' /\ [LedgerStep]_(Ledger!vars)
  BY <1>3, SelectDated, CheckDated, StaysLedger
<1>4. ASSUME NEW c \in Call, OpenAccount(c) \/ ResetDaily(c) \/ Deduct(c)
      PROVE  DatedInv' /\ [LedgerStep]_(Ledger!vars)
  BY <1>0, <1>4, OpenDated, ResetDated, DeductDated, StaysLedger DEF Ledger!Next, LedgerStep
<1>5. ASSUME NEW c \in Call, AddCredits(c)
      PROVE  DatedInv' /\ [LedgerStep]_(Ledger!vars)
  BY <1>5, AddDated, StaysLedger DEF Ledger!Next, LedgerStep
<1>6. CASE Midnight
  BY <1>6, MidnightDated DEF Ledger!Next, LedgerStep
<1>7. ASSUME NEW p \in Process, Die(p)
      PROVE  DatedInv' /\ [LedgerStep]_(Ledger!vars)
  BY <1>7, DieDated, StaysLedger
<1>. QED
  BY <1>1, <1>2, <1>3, <1>4, <1>5, <1>6, <1>7 DEF Next, Query

(* Query by query, however the calls of tasks and processes interleave and *)
(* whichever fail or die, the rows move as the ledger's balances do, until *)
(* a write puts into a row what was not read from it, or has been changed  *)
(* since (supabase_client.py:206-264, 292-326, 328-427).                   *)
THEOREM CallsKeepLedger == Spec => LedgerUntilOverwritten
<1>1. StoreInv /\ CreditInv /\ DatedInv /\ [Next]_vars
        => DatedInv' /\ [LedgerStep]_(Ledger!vars)
  BY NextDated
<1>. QED
  BY <1>1, InitDated, InitStore, NextStore, InitCredit, NextCredit, PTL
     DEF Spec, LedgerUntilOverwritten
=============================================================================
