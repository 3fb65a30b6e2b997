--------------------------- MODULE MCAdminPresets ---------------------------
(***************************************************************************)
(* AdminPresets for TLC.  Either the wizard is used from its start, twice  *)
(* if need be; or it has come to its last field, after updates that are    *)
(* behind, and buttons of the store are pressed besides the last text.     *)
(***************************************************************************)
EXTENDS AdminPresets

CONSTANTS p1, p2, gw1, gw2

Yaml == <<p1>>
Instances == [a \in Process |-> IF a = gw2 THEN {p1} ELSE {}]

Gateways == {gw1}
WizardOnly == [k \in Kind |-> CASE k = "text" -> 4 [] k = "start" -> 2
                                [] k \in {"cancel", "menu"} -> 1 [] OTHER -> 0]
StoreAndText == [k \in Kind |-> IF k \in StoreKind \cup {"text"} THEN 1 ELSE 0]
MCBudgets == {WizardOnly, StoreAndText}

(* start, text, text: the wizard asks for its third and last field.        *)
AtLastField ==
  /\ arrived = 3
  /\ what = [u \in Update |-> IF u \in {2, 3} THEN "text" ELSE "start"]
  /\ on = [u \in Update |-> NoProcess]
  /\ pc = [u \in Update |-> IF u \in 1..3 THEN "end" ELSE "new"]
  /\ asks = LastField /\ data = [k \in 1..(LastField - 1) |-> k + 1]

MCInit ==
  /\ row = [p \in Preset |-> NoDoc]
  /\ memory = [a \in Process |-> [p \in Preset |-> NoDoc]]
  /\ custom = Registered
  /\ left \in Budgets
  /\ IF left = WizardOnly
     THEN /\ arrived = 0 /\ asks = 0 /\ data = NoFields
          /\ what = [u \in Update |-> "start"] /\ on = [u \in Update |-> NoProcess]
          /\ pc = [u \in Update |-> "new"]
     ELSE AtLastField
  /\ todo = [u \in Update |-> <<>>] /\ doc = [u \in Update |-> NoDoc]
  /\ recalled = {} /\ writer = [p \in Preset |-> NoProcess] /\ unsynced = {} /\ crossed = {}
  /\ asked = [u \in Update |-> 0] /\ got = [u \in Update |-> NoFields]
  /\ created = {} /\ mixed = FALSE /\ raised = {} /\ faults = 0

MCSpec == MCInit /\ [][Next]_vars
=============================================================================
