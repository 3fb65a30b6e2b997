---------------------------- MODULE MCWorkerPool ----------------------------
(* Instances of WorkerPool for TLC.  ProcOf is a function, which a config  *)
(* cannot write down.                                                      *)
EXTENDS WorkerPool, TLC

CONSTANTS j1, j2, p1, p2, w1, w2

(* One worker loop in each of two processes.                               *)
TwoProcesses == w1 :> p1 @@ w2 :> p2

(* A single worker loop.                                                   *)
OneWorker == w1 :> p1

(* Which process lacks the token of a job's bot, or has a malformed one.   *)
Nowhere == [p \in Process |-> {}]
EverywhereJ2 == [p \in Process |-> {j2}]
AtP2 == [p \in Process |-> IF p = p2 THEN {j1} ELSE {}]

(* The two worker processes are alike.                                     *)
Symmetry == {f \in Permutations(Worker \cup {p1, p2}) :
               \A w \in Worker : f[w] \in Worker /\ f[ProcOf[w]] = ProcOf[f[w]]}
=============================================================================
