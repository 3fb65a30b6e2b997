------------------------ MODULE MCGenerationPipeline ------------------------
(***************************************************************************)
(* GenerationPipeline for TLC.  Two updates are behind, and the bound goes *)
(* to those that follow: the chat is in a state that they leave, or the    *)
(* second, a preset chosen while the photo was handled, has read the data  *)
(* with the photo and is about to write it.  In a chat without state the   *)
(* broker has fallen back before.                                          *)
(***************************************************************************)
EXTENDS GenerationPipeline

First(x, y, none) == [u \in Update |-> CASE u = 1 -> x [] u = 2 -> y [] OTHER -> none]

Settled(kind, state, d) ==
  /\ what = First("cancel", kind, "text") /\ fsm = state /\ data = d
  /\ pc = First("end", "end", "new")
  /\ got = [u \in Update |-> NoData] /\ met = [u \in Update |-> {}]

Crossed ==
  /\ what = First("photo", "preset", "text")
  /\ fsm = "selecting" /\ data = [NoData EXCEPT !.photo = 1]
  /\ pc = First("end", "write", "new")
  /\ got = First(NoData, [photo |-> 1, preset |-> 2], NoData)
  /\ met = First({2}, {1}, {})

MCInit ==
  /\ arrived = 2
  /\ \/ Settled("cancel", "none", NoData) /\ fallback = TRUE
     \/ /\ fallback = FALSE
        /\ \/ Settled("photo", "selecting", [NoData EXCEPT !.photo = 2])
           \/ Settled("preset", "waiting", [NoData EXCEPT !.preset = 2])
           \/ Crossed
  /\ seen = [u \in Update |-> "none"] /\ made = [u \in Update |-> NoData]
  /\ asked = {} /\ failed = {} /\ faults = 0
  /\ Queue!Init
  /\ charged = {} /\ repaid = {} /\ local = {} /\ deaf = FALSE
  /\ delivered = {} /\ unpaid = {} /\ unseen = {} /\ lost = {}

MCSpec == MCInit /\ [][Next]_vars /\ Fairness
=============================================================================
