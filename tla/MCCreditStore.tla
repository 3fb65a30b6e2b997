--------------------------- MODULE MCCreditStore ---------------------------
(* Instances of CreditStore for TLC.                                       *)
EXTENDS CreditStore, TLC

CONSTANTS c1, c2, u1, u2, pay, refund, p1, p2

(* A package is worth two credits, a refund one.                           *)
Worth == [ch \in Charge |-> IF ch = pay THEN 2 ELSE 1]

(* One task runs in the process of the bots, the other one in a worker.    *)
TwoProcesses == c1 :> p1 @@ c2 :> p2

(* The two tasks and their processes are alike.                            *)
Symmetry == {f \in Permutations(Call \cup Process) :
               \A c \in Call : f[c] \in Call /\ f[ProcOf[c]] = ProcOf[f[c]]}

(* What a task that is done still remembers does not matter: its next call *)
(* overwrites all of it.                                                   *)
Remembered == [c \in Call |-> IF pc[c] = "idle" THEN <<>>
                              ELSE <<then[c], user[c], charge[c], now[c], bal[c]>>]
View == <<db, mem, today, pc, Remembered, stale, ledger, refunds, faults>>

OneCall == c1 :> p1
=============================================================================
