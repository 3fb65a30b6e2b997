---------------------------- MODULE AdminPresets ----------------------------
(***************************************************************************)
(* The preset handlers of the admin bot (bots/admin_bot/handlers): the     *)
(* wizard that adds a preset, over its FSM state and data in Redis, and    *)
(* what the buttons do to PresetStore.  A state of the wizard is the       *)
(* number of the field it asks for; aiogram picks the handler by the state *)
(* at the arrival of the update, and handles updates concurrently.         *)
(***************************************************************************)
EXTENDS PresetStore

CONSTANTS
  LastField, \* the last of the fields: id, title, ..., target bot (6)
  WizardAt   \* bound: the processes that receive the wizard's messages

ASSUME WizardAssumption == LastField \in Nat \ {0, 1} /\ WizardAt \subseteq Process

VARIABLES
  asks,    \* the wizard's state: the field it asks for, 0 when it has none
  data,    \* data[k]: the update whose text is field k, 0 when missing
  asked,   \* asked[u]: the state when text u arrived
  got,     \* got[u]: the data its handler has read
  \* bookkeeping of the model
  created, \* texts that completed a preset
  mixed,   \* handlers of the wizard overlapped
  raised   \* updates whose handler raised in the middle

wizard == <<asks, data, asked, got, created, mixed, raised>>
vars == <<storeVars, wizard>>

Fields == [1..(LastField - 1) -> 0..MaxUpdates]
NoFields == [k \in 1..(LastField - 1) |-> 0]

Init ==
  /\ StoreInit
  /\ asks = 0 /\ data = NoFields
  /\ asked = [u \in Update |-> 0] /\ got = [u \in Update |-> NoFields]
  /\ created = {} /\ mixed = FALSE /\ raised = {}

-----------------------------------------------------------------------------
(* A text that no state waits for has no handler; the Cancel button lists  *)
(* the presets and leaves the wizard where it is.                          *)
First(kind) ==
  CASE kind = "start" -> "turn"
    [] kind = "menu" -> "clear"
    [] kind = "text" -> IF asks = 0 THEN "end" ELSE "get"
    [] kind = "cancel" -> "end"

Message(a, kind) ==
  /\ Arrive(a, kind, <<>>, First(kind))
  /\ asked' = [asked EXCEPT ![arrived'] = IF kind = "text" THEN asks ELSE 0]
  /\ mixed' = (mixed \/ \E u \in Running : what[u] \in WizardKind)
  /\ UNCHANGED <<store, doc, ghosts, faults, asks, data, got, created, raised>>

Stays(u, label) ==
  /\ Continue(u, label)
  /\ asked' = [asked EXCEPT ![u] = IF label = "end" THEN 0 ELSE @]
  /\ UNCHANGED <<store, doc, recalled, writer, unsynced, mixed>>
Keep(u, d) == got' = [got EXCEPT ![u] = d]

(* Variant for mutation: a field that is there is kept.                    *)
GetOldData(u) ==
  /\ pc[u] = "get"
  /\ IF asked[u] = LastField THEN Stays(u, "clear") /\ Keep(u, data)
     ELSE Stays(u, "set") /\ Keep(u, [data EXCEPT ![asked[u]] = IF @ = 0 THEN u ELSE @])
  /\ UNCHANGED <<asks, data, created, raised, faults>>

(* update_data(field=text): get_data ...                                   *)
GetData(u) ==
  /\ pc[u] = "get"
  /\ IF asked[u] = LastField THEN Stays(u, "clear") /\ Keep(u, data)
     ELSE Stays(u, "set") /\ Keep(u, [data EXCEPT ![asked[u]] = u])
  /\ UNCHANGED <<asks, data, created, raised, faults>>

(* ... and set_data(all the fields).                                       *)
SetData(u) ==
  /\ pc[u] = "set" /\ Stays(u, "turn")
  /\ data' = got[u] /\ Keep(u, NoFields)
  /\ UNCHANGED <<asks, created, raised, faults>>

(* set_state(the next field); cb_start_add_preset asks for the first one   *)
(* and leaves the data of an earlier run.                                  *)
SetState(u) ==
  /\ pc[u] = "turn" /\ Stays(u, "end")
  /\ asks' = asked[u] + 1
  /\ UNCHANGED <<data, got, created, raised, faults>>

(* state.clear(), of the main menu or of the last field: set_state ...     *)
ClearState(u) ==
  /\ pc[u] = "clear" /\ Stays(u, "wipe")
  /\ asks' = 0
  /\ UNCHANGED <<data, got, created, raised, faults>>

(* ... and set_data; then the preset is made, which raises when a field is *)
(* missing, and its saving begins, under the id that was typed.            *)
ClearData(u) ==
  /\ pc[u] = "wipe" /\ data' = NoFields
  /\ UNCHANGED <<asks, raised, faults>>
  /\ \/ /\ what[u] = "menu" \/ \E k \in DOMAIN data : got[u][k] = 0
        /\ Stays(u, "end") /\ Keep(u, NoFields) /\ UNCHANGED created
     \/ /\ what[u] = "text" /\ \A k \in DOMAIN data : got[u][k] # 0
        /\ created' = created \cup {u} /\ asked' = [asked EXCEPT ![u] = 0]
        /\ UNCHANGED <<arrived, left, what, on, row, custom, recalled, writer, unsynced, got, mixed>>
        /\ \E p \in Preset :
             LET d == [text |-> u, active |-> TRUE]
             IN  /\ todo' = [todo EXCEPT ![u] = <<p>>] /\ pc' = [pc EXCEPT ![u] = "write"]
                 /\ Saving(u, d) /\ Remember(u, p, d)
                 /\ crossed' = Crossing(u, {p})

(* A call to Redis raises; the handler is over.                            *)
Raise(u) ==
  /\ pc[u] \in {"get", "set", "turn", "clear", "wipe"} /\ Fault /\ Stays(u, "end") /\ Keep(u, NoFields)
  /\ raised' = raised \cup {u} /\ UNCHANGED <<asks, data, created>>

WizardStep(u) == GetData(u) \/ SetData(u) \/ SetState(u) \/ ClearState(u) \/ ClearData(u) \/ Raise(u)

Next ==
  \/ \E a \in WizardAt, k \in WizardKind : Message(a, k)
  \/ /\ UNCHANGED wizard
     /\ \E a \in Process :
          \/ \E p \in Preset : BeginDelete(a, p) \/ \E k \in StoreKind : BeginToggle(a, k, p)
          \/ BeginSeed(a)
  \/ \E u \in Update : WizardStep(u) \/ (StoreStep(u) /\ UNCHANGED wizard)

Spec == Init /\ [][Next]_vars

-----------------------------------------------------------------------------
TypeOK ==
  /\ row \in [Preset -> Doc \cup {NoDoc}] /\ memory \in [Process -> [Preset -> Doc \cup {NoDoc}]]
  /\ custom \in [Process -> SUBSET Preset] /\ arrived \in 0..MaxUpdates
  /\ what \in [Update -> Kind] /\ on \in [Update -> Process \cup {NoProcess}]
  /\ doc \in [Update -> Doc \cup {NoDoc}]
  /\ \A u \in Update : pc[u] \in {"read", "write", "erase"} => todo[u] # <<>> /\ on[u] \in Process
  /\ \A u \in Update : pc[u] = "write" => doc[u] # NoDoc
  /\ asks \in 0..LastField /\ data \in Fields /\ got \in [Update -> Fields]
  /\ asked \in [Update -> 0..LastField]

(* A preset made by the wizard is made of the texts of one run: unless two *)
(* updates were handled at once, its fields were sent in the order of the  *)
(* wizard's questions, and since the first of them nobody started it again *)
(* or left for the menu, but by an update that raised.  That holds because *)
(* every field is overwritten: starting again keeps the data of the last   *)
(* run, and Cancel keeps state and data (presets.py:154-229).              *)
WizardSavesOneRun ==
  ~mixed =>
    \A u \in created :
      LET f == [k \in 1..LastField |-> IF k = LastField THEN u ELSE got[u][k]]
      IN  /\ \A k \in 2..LastField : f[k - 1] < f[k]
          /\ \A v \in f[1]..u : what[v] \in {"start", "menu"} => v \in raised
=============================================================================
