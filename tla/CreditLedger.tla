---------------------------- MODULE CreditLedger ----------------------------
(***************************************************************************)
(* What the credit operations of platform_core/db/supabase_client.py       *)
(* promise: a user's balance moves only by the free credits of a new day,  *)
(* by credits paid for (or given back) once for each charge id, and by     *)
(* credits spent while there are any.                                      *)
(***************************************************************************)
EXTENDS Naturals

CONSTANTS User,    \* Telegram users
          Charge,  \* telegram_payment_charge_ids
          Credits, \* Credits[ch]: what the charge is worth
          Free     \* FREE_DAILY_CREDITS

LedgerParameters == Credits \in [Charge -> Nat] /\ Free \in Nat

VARIABLES today,    \* the current day
          opened,   \* users with a balance
          balance,  \* balance[u], 0 until it is opened
          resetDay, \* resetDay[u]: the day free credits were last granted
          credited, \* charges that have been credited
          spent,    \* spent[u]: credits spent so far
          paid,     \* paid[u]: credits of u's charges
          granted   \* granted[u]: free credits given so far

vars == <<today, opened, balance, resetDay, credited, spent, paid, granted>>

Init == /\ today = 0 /\ opened = {} /\ credited = {}
        /\ balance = [u \in User |-> 0] /\ resetDay = [u \in User |-> 0]
        /\ spent = [u \in User |-> 0] /\ paid = [u \in User |-> 0]
        /\ granted = [u \in User |-> 0]

Midnight == /\ today' = today + 1
            /\ UNCHANGED <<opened, balance, resetDay, credited, spent, paid, granted>>

Open(u) == /\ u \notin opened
           /\ opened' = opened \cup {u}
           /\ balance' = [balance EXCEPT ![u] = Free]
           /\ granted' = [granted EXCEPT ![u] = Free]
           /\ \E d \in 0 .. today : resetDay' = [resetDay EXCEPT ![u] = d]
           /\ UNCHANGED <<today, credited, spent, paid>>

(* A new day fills the balance up to Free; it never adds to a fuller one.  *)
(* The day is the one on which the operation began.                        *)
TopUp(u) ==
  /\ u \in opened
  /\ \E d \in resetDay[u] + 1 .. today : resetDay' = [resetDay EXCEPT ![u] = d]
  /\ LET filled == IF balance[u] < Free THEN Free ELSE balance[u]
     IN  /\ balance' = [balance EXCEPT ![u] = filled]
         /\ granted' = [granted EXCEPT ![u] = @ + (filled - balance[u])]
  /\ UNCHANGED <<today, opened, credited, spent, paid>>

Spend(u) == /\ u \in opened
            /\ balance[u] > 0
            /\ balance' = [balance EXCEPT ![u] = @ - 1]
            /\ spent' = [spent EXCEPT ![u] = @ + 1]
            /\ UNCHANGED <<today, opened, resetDay, credited, paid, granted>>

Credit(u, ch) == /\ u \in opened
                 /\ ch \notin credited
                 /\ credited' = credited \cup {ch}
                 /\ balance' = [balance EXCEPT ![u] = @ + Credits[ch]]
                 /\ paid' = [paid EXCEPT ![u] = @ + Credits[ch]]
                 /\ UNCHANGED <<today, opened, resetDay, spent, granted>>

Next == \/ Midnight
        \/ \E u \in User : Open(u) \/ TopUp(u) \/ Spend(u)
        \/ \E u \in User, ch \in Charge : Credit(u, ch)

Spec == Init /\ [][Next]_vars

(* Every credit is accounted for.                                          *)
Balanced == \A u \in User : balance[u] + spent[u] = granted[u] + paid[u]

(* Nobody gets more than one day's free credits a day.                     *)
FreeCapped == \A u \in User : granted[u] <= Free * (resetDay[u] + 1) /\ resetDay[u] <= today
=============================================================================
