---------------------------- MODULE CreditStore ----------------------------
(***************************************************************************)
(* get_user_balance, deduct_user_credit and add_user_credits of            *)
(* platform_core/db/supabase_client.py with a database behind them.  Every *)
(* query runs in a worker thread (_run_query) and is a step of its own, so *)
(* the calls of several tasks interleave; a query may fail, or take effect *)
(* and lose its reply.  A failed get_user_balance answers with a balance   *)
(* of the process's own memory.                                            *)
(***************************************************************************)
EXTENDS Naturals, FiniteSets

CONSTANTS User,       \* Telegram users
          Charge,     \* charge ids
          Refund,     \* the charge id "refund", which every refund uses
          Credits,    \* Credits[ch]: what the charge is worth
          Free,       \* FREE_DAILY_CREDITS
          Call,       \* tasks with a credit operation in progress
          Process,    \* processes, each with its own _in_memory_balances
          ProcOf,     \* the process a task runs in
          NoBalance,  \* not in _in_memory_balances
          FillsIds,   \* whether the database fills in an id that is sent as NULL
          MaxDay,     \* bound: days
          MaxRefunds, \* bound: refunds asked for
          MaxFaults   \* bound: queries that go wrong and processes that die

ASSUME StoreAssumption ==
  /\ Refund \in Charge
  /\ Credits \in [Charge -> Nat]
  /\ Free \in Nat
  /\ ProcOf \in [Call -> Process]
  /\ NoBalance \notin [credits : Nat, day : Nat]
  /\ FillsIds \in BOOLEAN
  /\ MaxDay \in Nat /\ MaxRefunds \in Nat /\ MaxFaults \in Nat

VARIABLES
  \* the database
  opened,   \* users with a row in user_balances
  credits,  \* credits_remaining
  resetDay, \* free_credits_reset_at
  recorded, \* the charge ids of star_transactions, which are unique
  \* the processes and the clock
  mem,      \* mem[p][u]: _in_memory_balances
  today,
  \* each call
  pc,       \* the query it issues next
  then,     \* what get_user_balance is called for: "return", "rpc" or "write"
  user,
  charge,   \* the charge id of an add_user_credits
  now,      \* the day get_user_balance began on
  bal,      \* the balance it read or made; NoBalance: its process's own object
  stale,    \* calls that read a row another call has written since
  \* bookkeeping of the model
  spent,    \* spent[u]: credits the database took
  paid,     \* paid[u]: credits added for charges
  granted,  \* granted[u]: free credits given
  credited, \* credited[ch]: times the charge was credited
  misread,  \* users whose row was overwritten with a value that was not read from it
  refunds,  \* refunds asked for
  faults    \* queries that went wrong and processes that died

db == <<opened, credits, resetDay, recorded>>
local == <<user, charge>>
ledger == <<spent, paid, granted, credited, misread>>
vars == <<db, mem, today, pc, then, local, now, bal, stale, ledger, refunds, faults>>

Balance == [credits : Nat, day : Nat]

PCs == {"idle", "select", "open", "reset", "rpc", "check", "record", "write"}

TypeOK ==
  /\ opened \subseteq User /\ credits \in [User -> Nat] /\ resetDay \in [User -> Nat]
  /\ recorded \subseteq Charge
  /\ mem \in [Process -> [User -> Balance \cup {NoBalance}]] /\ today \in Nat
  /\ pc \in [Call -> PCs] /\ then \in [Call -> {"return", "rpc", "write"}]
  /\ user \in [Call -> User] /\ charge \in [Call -> Charge] /\ now \in [Call -> Nat]
  /\ bal \in [Call -> Balance \cup {NoBalance}] /\ stale \subseteq Call
  /\ spent \in [User -> Nat] /\ paid \in [User -> Nat] /\ granted \in [User -> Nat]
  /\ credited \in [Charge -> Nat] /\ misread \subseteq User
  /\ refunds \in Nat /\ faults \in Nat

Init ==
  /\ opened = {} /\ credits = [u \in User |-> 0] /\ resetDay = [u \in User |-> 0]
  /\ recorded = {}
  /\ mem = [p \in Process |-> [u \in User |-> NoBalance]] /\ today = 0
  /\ pc = [c \in Call |-> "idle"] /\ then = [c \in Call |-> "return"]
  /\ user \in [Call -> User] /\ charge = [c \in Call |-> Refund]
  /\ now = [c \in Call |-> 0] /\ bal = [c \in Call |-> NoBalance]
  /\ stale = {}
  /\ spent = [u \in User |-> 0] /\ paid = [u \in User |-> 0]
  /\ granted = [u \in User |-> 0] /\ credited = [ch \in Charge |-> 0]
  /\ misread = {} /\ refunds = 0 /\ faults = 0

-----------------------------------------------------------------------------
(* A query is answered, takes effect with its reply lost, or fails.        *)
Reply == {"ok", "lost", "refused"}
Applied(r) == r # "refused"

Charged(r) == \/ r = "ok" /\ UNCHANGED faults
              \/ r # "ok" /\ faults < MaxFaults /\ faults' = faults + 1

(* Variant for mutation: the daily reset also lowers a fuller balance.     *)
FilledOrLowered(n) == Free

Filled(n) == IF n < Free THEN Free ELSE n

Goto(c, label) == pc' = [pc EXCEPT ![c] = label]

(* c writes u's row: a call between its read and its write of that row has *)
(* a stale copy from now on.                                               *)
Wrote(c, u) ==
  stale' = (stale \cup {d \in Call : user[d] = u /\ pc[d] \in {"reset", "write"}}) \ {c}

NotWritten(c) == stale' = stale \ {c}

-----------------------------------------------------------------------------
(* get_user_balance.  Its day is the one on which it starts.               *)
Start(c, next) == /\ Goto(c, "select")
                  /\ then' = [then EXCEPT ![c] = next]
                  /\ now' = [now EXCEPT ![c] = today]

(* It returns b to its caller.                                             *)
Got(c, b) == /\ Goto(c, IF then[c] = "return" THEN "idle" ELSE then[c])
             /\ bal' = [bal EXCEPT ![c] = IF then[c] = "write" THEN b ELSE NoBalance]

(* After an exception it returns the balance of its process's memory,      *)
(* which add_user_credits then increases in place.                         *)
GotMemory(c) ==
  LET p == ProcOf[c]
      u == user[c]
      kept == IF mem[p][u] = NoBalance THEN [credits |-> Free, day |-> today]
              ELSE IF mem[p][u].day < now[c]
              THEN [credits |-> Filled(mem[p][u].credits), day |-> now[c]]
              ELSE mem[p][u]
  IN  /\ Got(c, NoBalance)
      /\ mem' = [mem EXCEPT ![p][u] = IF then[c] = "write"
                                     THEN [kept EXCEPT !.credits = @ + Credits[charge[c]]]
                                     ELSE kept]

Select(c) ==
  /\ pc[c] = "select"
  /\ \/ Charged("refused") /\ GotMemory(c)
     \/ /\ Charged("ok") /\ UNCHANGED mem
        /\ LET u == user[c]
               row == [credits |-> credits[u], day |-> resetDay[u]]
           IN  \/ /\ u \notin opened
                 /\ Goto(c, "open")
                 /\ bal' = [bal EXCEPT ![c] = [credits |-> Free, day |-> today]]
              \/ /\ u \in opened /\ resetDay[u] < now[c]
                 /\ Goto(c, "reset")
                 /\ bal' = [bal EXCEPT ![c] = [credits |-> Filled(credits[u]), day |-> now[c]]]
              \/ /\ u \in opened /\ resetDay[u] >= now[c]
                 /\ Got(c, row)
  /\ UNCHANGED <<db, today, then, local, now, stale, ledger, refunds>>

(* Variant for mutation: an upsert instead of the insert.                  *)
OpenAccountUpsert(c) ==
  /\ pc[c] = "open"
  /\ LET u == user[c]
     IN  /\ opened' = opened \cup {u}
         /\ credits' = [credits EXCEPT ![u] = bal[c].credits]
         /\ resetDay' = [resetDay EXCEPT ![u] = bal[c].day]
         /\ granted' = IF u \in opened THEN granted ELSE [granted EXCEPT ![u] = @ + Free]
         /\ Got(c, bal[c])
  /\ UNCHANGED <<recorded, mem, today, then, local, now, stale, spent, paid, credited, misread>>
  /\ UNCHANGED <<refunds, faults>>

(* The row of a new user; its primary key refuses a second one.            *)
OpenAccount(c) ==
  /\ pc[c] = "open"
  /\ LET u == user[c]
     IN  \/ /\ u \in opened
            /\ UNCHANGED <<opened, credits, resetDay, granted, faults>>
            /\ GotMemory(c)
         \/ \E r \in Reply :
              /\ u \notin opened
              /\ Charged(r)
              /\ IF Applied(r)
                 THEN /\ opened' = opened \cup {u}
                      /\ credits' = [credits EXCEPT ![u] = bal[c].credits]
                      /\ resetDay' = [resetDay EXCEPT ![u] = bal[c].day]
                      /\ granted' = [granted EXCEPT ![u] = @ + Free]
                 ELSE UNCHANGED <<opened, credits, resetDay, granted>>
              /\ IF r = "ok"
                 THEN Got(c, bal[c]) /\ UNCHANGED mem
                 ELSE GotMemory(c)
  /\ UNCHANGED <<recorded, today, then, local, now, stale, spent, paid, credited, misread>>
  /\ UNCHANGED refunds

(* The free credits of a new day: a value computed from what was read is   *)
(* written over whatever the row holds by now.                             *)
ResetDaily(c) ==
  /\ pc[c] = "reset"
  /\ \E r \in Reply :
       LET u == user[c]
       IN  /\ Charged(r)
           /\ IF Applied(r)
              THEN /\ credits' = [credits EXCEPT ![u] = bal[c].credits]
                   /\ resetDay' = [resetDay EXCEPT ![u] = now[c]]
                   /\ granted' = [granted EXCEPT ![u] = @ + (Filled(credits[u]) - credits[u])]
                   /\ misread' = IF c \in stale THEN misread \cup {u} ELSE misread
                   /\ Wrote(c, u)
              ELSE UNCHANGED <<credits, resetDay, granted, misread>> /\ NotWritten(c)
           /\ IF r = "ok"
              THEN Got(c, bal[c]) /\ UNCHANGED mem
              ELSE GotMemory(c)
  /\ UNCHANGED <<opened, recorded, today, then, local, now, spent, paid, credited, refunds>>

-----------------------------------------------------------------------------
(* Variant for mutation: the database function does not compare.           *)
DeductUnguarded(c) ==
  /\ pc[c] = "rpc"
  /\ credits' = [credits EXCEPT ![user[c]] = @ - 1]
  /\ spent' = [spent EXCEPT ![user[c]] = @ + 1]
  /\ Wrote(c, user[c])
  /\ Goto(c, "idle")
  /\ UNCHANGED <<opened, resetDay, recorded, mem, today, then, local, now, bal>>
  /\ UNCHANGED <<paid, granted, credited, misread, refunds, faults>>

(* The condition of the update in the database function of that name.      *)
TakesCredit(u) == u \in opened /\ credits[u] >= 1

(* deduct_user_credit of one credit: get_user_balance for its side effects, *)
(* whatever becomes of it, then the call of the database function.         *)
Deduct(c) ==
  /\ pc[c] = "rpc"
  /\ \E r \in Reply :
       LET u == user[c]
       IN  /\ Charged(r)
           /\ IF Applied(r) /\ TakesCredit(u)
              THEN /\ credits' = [credits EXCEPT ![u] = @ - 1]
                   /\ spent' = [spent EXCEPT ![u] = @ + 1]
                   /\ Wrote(c, u)
              ELSE UNCHANGED <<credits, spent, stale>>
  /\ Goto(c, "idle")
  /\ UNCHANGED <<opened, resetDay, recorded, mem, today, then, local, now, bal>>
  /\ UNCHANGED <<paid, granted, credited, misread, refunds>>

(* add_user_credits: is the charge known; record it; add the credits.  An  *)
(* exception anywhere, the unique index's included, ends it with a look at *)
(* the balance.                                                            *)
CheckCharge(c) ==
  /\ pc[c] = "check"
  /\ \E r \in {"ok", "refused"} :
       /\ Charged(r)
       /\ IF r = "ok" /\ charge[c] \notin recorded
          THEN Goto(c, "record") /\ UNCHANGED <<then, now>>
          ELSE Start(c, "return")
  /\ UNCHANGED <<db, mem, today, local, bal, stale, ledger, refunds>>

(* Variants for mutation: without the unique index; without the credits.   *)
RecordChargeTwice(c) ==
  /\ pc[c] = "record"
  /\ recorded' = recorded \cup {charge[c]}
  /\ Start(c, "write")
  /\ UNCHANGED <<opened, credits, resetDay, mem, today, local, bal, stale, ledger, refunds>>
  /\ UNCHANGED faults

RecordChargeOnly(c) ==
  /\ pc[c] = "record"
  /\ recorded' = recorded \cup {charge[c]}
  /\ Start(c, "return")
  /\ UNCHANGED <<opened, credits, resetDay, mem, today, local, bal, stale, ledger, refunds>>
  /\ UNCHANGED faults

(* The transaction is inserted with an id of None.  schema.sql declares    *)
(* "id UUID PRIMARY KEY", whose default does not replace a NULL: without a *)
(* database that does, no charge is ever recorded.                         *)
RecordCharge(c) ==
  /\ pc[c] = "record"
  /\ \/ /\ charge[c] \in recorded \/ ~FillsIds
        /\ Start(c, "return")
        /\ UNCHANGED <<recorded, faults>>
     \/ \E r \in Reply :
          /\ charge[c] \notin recorded /\ FillsIds
          /\ Charged(r)
          /\ recorded' = IF Applied(r) THEN recorded \cup {charge[c]} ELSE recorded
          /\ Start(c, IF r = "ok" THEN "write" ELSE "return")
  /\ UNCHANGED <<opened, credits, resetDay, mem, today, local, bal, stale, ledger, refunds>>

(* The row gets the sum computed from what was read, or from the memory of *)
(* the process.                                                            *)
AddCredits(c) ==
  /\ pc[c] = "write"
  /\ \E r \in Reply :
       LET u == user[c]
           ch == charge[c]
           sum == IF bal[c] = NoBalance THEN mem[ProcOf[c]][u].credits
                  ELSE bal[c].credits + Credits[ch]
       IN  /\ Charged(r)
           /\ IF Applied(r) /\ u \in opened
              THEN /\ credits' = [credits EXCEPT ![u] = sum]
                   /\ paid' = [paid EXCEPT ![u] = @ + Credits[ch]]
                   /\ credited' = [credited EXCEPT ![ch] = @ + 1]
                   /\ misread' = IF c \in stale \/ bal[c] = NoBalance
                                 THEN misread \cup {u} ELSE misread
                   /\ Wrote(c, u)
              ELSE UNCHANGED <<credits, paid, credited, misread>> /\ NotWritten(c)
           /\ IF r = "ok"
              THEN Goto(c, "idle") /\ UNCHANGED <<then, now>>
              ELSE Start(c, "return")
  /\ bal' = [bal EXCEPT ![c] = NoBalance]
  /\ UNCHANGED <<opened, resetDay, recorded, mem, today, local, spent, granted, refunds>>

-----------------------------------------------------------------------------
(* A task begins an operation for u: a balance check, a generation, the    *)
(* fulfillment of a payment (Telegram may deliver the same one again), or  *)
(* the refund of a generation that failed.                                 *)
Begin(c, u) == /\ pc[c] = "idle"
               /\ user' = [user EXCEPT ![c] = u]
               /\ UNCHANGED <<db, mem, today, bal, stale, ledger, faults>>

BeginView(c, u) == Begin(c, u) /\ Start(c, "return") /\ UNCHANGED <<charge, refunds>>

BeginDeduct(c, u) == Begin(c, u) /\ Start(c, "rpc") /\ UNCHANGED <<charge, refunds>>

BeginAdd(c, u, ch) ==
  /\ Begin(c, u)
  /\ Goto(c, "check")
  /\ charge' = [charge EXCEPT ![c] = ch]
  /\ ch = Refund => refunds < MaxRefunds
  /\ refunds' = IF ch = Refund THEN refunds + 1 ELSE refunds
  /\ UNCHANGED <<then, now>>

Query(c) == \/ Select(c) \/ OpenAccount(c) \/ ResetDaily(c) \/ Deduct(c)
            \/ CheckCharge(c) \/ RecordCharge(c) \/ AddCredits(c)

Midnight == /\ today < MaxDay
            /\ today' = today + 1
            /\ UNCHANGED <<db, mem, pc, then, local, now, bal, stale, ledger, refunds, faults>>

(* A process ends between two queries, with its calls and its memory.      *)
Die(p) ==
  LET gone == {c \in Call : ProcOf[c] = p}
  IN  /\ faults < MaxFaults
      /\ faults' = faults + 1
      /\ pc' = [c \in Call |-> IF c \in gone THEN "idle" ELSE pc[c]]
      /\ bal' = [c \in Call |-> IF c \in gone THEN NoBalance ELSE bal[c]]
      /\ stale' = stale \ gone
      /\ mem' = [mem EXCEPT ![p] = [u \in User |-> NoBalance]]
      /\ UNCHANGED <<db, today, then, local, now, ledger, refunds>>

Next == \/ \E c \in Call, u \in User : BeginView(c, u) \/ BeginDeduct(c, u)
        \/ \E c \in Call, u \in User, ch \in Charge : BeginAdd(c, u, ch)
        \/ \E c \in Call : Query(c)
        \/ \E p \in Process : Die(p)
        \/ Midnight

Spec == Init /\ [][Next]_vars

(* A query ends, be it with a timeout.  Nothing forces a user to begin.    *)
FairSpec == Spec /\ \A c \in Call : WF_vars(Query(c))
-----------------------------------------------------------------------------
(* A charge credits its user once, though its update may be delivered      *)
(* again while it is being fulfilled, or to another process.               *)
CreditedOnce == \A ch \in Charge : credited[ch] <= 1

(* Every credit in a row is accounted for, unless two calls wrote over     *)
(* each other, or a failed query made one write what it had not read.      *)
Balanced ==
  \A u \in User \ misread : credits[u] + spent[u] = granted[u] + paid[u]

(* A recorded charge has been credited, or its call is about to, or one of *)
(* the call's queries failed; then nothing ever credits it, since the next *)
(* delivery finds it recorded.                                             *)
Crediting(ch) == \E c \in Call : /\ charge[c] = ch /\ then[c] = "write"
                                 /\ pc[c] \in {"select", "open", "reset", "write"}

RecordedIsCredited ==
  \A ch \in recorded : credited[ch] = 1 \/ Crediting(ch) \/ faults > 0

(* "Prevents race conditions where concurrent requests could generate free *)
(* content" (supabase_client.py:295): a user never gets more than the free *)
(* credits of each day and what was paid for.                              *)
NoFreeContent ==
  \A u \in User : credits[u] + spent[u] <= Free * (today + 1) + paid[u]

(* "If not, records the transaction and adds credits"                      *)
(* (supabase_client.py:340): a payment that arrives, and a refund asked    *)
(* for, is credited in the end if no query fails and no process dies.      *)
ChargesCredited ==
  \A c \in Call, ch \in Charge :
    (pc[c] = "check" /\ charge[c] = ch) ~> (credited[ch] > 0 \/ faults > 0)

(* However the calls interleave, and whatever fails, every step is one of  *)
(* CreditLedger's until a call writes over a row what it had not read, or  *)
(* what another call has changed since.                                    *)
Ledger == INSTANCE CreditLedger WITH
            balance <- credits,
            credited <- {ch \in Charge : credited[ch] > 0}

LedgerStep == Ledger!Next \/ misread' # {}

LedgerUntilOverwritten == Ledger!Init /\ [][LedgerStep]_(Ledger!vars)
=============================================================================
