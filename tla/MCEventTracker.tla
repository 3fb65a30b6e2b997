--------------------------- MODULE MCEventTracker ---------------------------
(* Instances of EventTracker for TLC, and the report computed from what    *)
(* its tables hold.                                                        *)
EXTENDS TrackedReport, TLC

CONSTANTS r1

(* What the rows say: three bots, a user that is not known, a button       *)
(* without a name, a name that is clicked twice, an error that is a        *)
(* message too.                                                            *)
Plain == [message_type |-> "", status |-> "", error_type |-> ""]

MCEventRow ==
  <<[bot |-> "a", user |-> 1, type |-> "click", name |-> "", prefix |-> "", about |-> Plain],
    [bot |-> "b", user |-> 1, type |-> "click", name |-> "buy", prefix |-> "", about |-> Plain],
    [bot |-> "b", user |-> 0, type |-> "click", name |-> "buy", prefix |-> "", about |-> Plain],
    [bot |-> "b", user |-> 2, type |-> "error", name |-> "message_sent:x",
     prefix |-> "message_sent", about |-> Plain]>>

MCGenerationRow == 4 :> [bot |-> "c", user |-> 2, model |-> "", status |-> "failed"]

MCTransactions == <<[bot |-> "a", user |-> 1, stars |-> 5]>>

(* A database that fills the ids sent as NULL, and that of schema.sql,     *)
(* which refuses them: there only track_event's insert into bot_events,    *)
(* which sends no id, is accepted.                                         *)
BothSchemas == {Insertion, {"bot_events"}}
=============================================================================
