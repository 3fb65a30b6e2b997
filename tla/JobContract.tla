---------------------------- MODULE JobContract ----------------------------
(***************************************************************************)
(* What the job queue promises for the generation jobs it has taken: a job *)
(* leaves the queue only when its user has been answered (with the media   *)
(* or with a refund), when an operator can find it in the dead-letter      *)
(* stream, or when an operator cut it short by interrupting its worker.    *)
(* Answers may repeat, and they may come after the job has left: delivery  *)
(* is at least once.                                                       *)
(***************************************************************************)
CONSTANT Job

VARIABLES accepted,  \* jobs the queue has taken
          answered,  \* jobs whose user got the media or a refund
          dead,      \* jobs in the dead-letter stream
          abandoned, \* jobs an interrupt cut short
          closed     \* jobs the queue no longer holds

vars == <<accepted, answered, dead, abandoned, closed>>

Init == /\ accepted = {}
        /\ answered = {}
        /\ dead = {}
        /\ abandoned = {}
        /\ closed = {}

Accept(j) == /\ j \notin accepted
             /\ accepted' = accepted \cup {j}
             /\ UNCHANGED <<answered, dead, abandoned, closed>>

Answer(j) == /\ j \in accepted
             /\ answered' = answered \cup {j}
             /\ UNCHANGED <<accepted, dead, abandoned, closed>>

Bury(j) == /\ j \in accepted
           /\ dead' = dead \cup {j}
           /\ UNCHANGED <<accepted, answered, abandoned, closed>>

(* The jobs of S are cut short; some may have been answered just then.     *)
Abandon(S) == /\ S \subseteq accepted
              /\ abandoned' = abandoned \cup S
              /\ \E A \in SUBSET S : answered' = answered \cup A
              /\ UNCHANGED <<accepted, dead, closed>>

Close(j) == /\ j \in accepted \ closed
            /\ j \in answered \cup dead \cup abandoned
            /\ closed' = closed \cup {j}
            /\ UNCHANGED <<accepted, answered, dead, abandoned>>

Next == \/ \E j \in Job : Accept(j) \/ Answer(j) \/ Bury(j) \/ Close(j)
        \/ \E S \in SUBSET Job : Abandon(S)

Spec == Init /\ [][Next]_vars
=============================================================================
