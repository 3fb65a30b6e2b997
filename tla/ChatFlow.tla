------------------------------ MODULE ChatFlow ------------------------------
(***************************************************************************)
(* The handlers of platform_core/bot/handlers that keep the state of one   *)
(* chat: photo.py, presets.py and prompt.py, up to their call of           *)
(* run_generation_job.  aiogram handles the updates of a chat              *)
(* concurrently, and with Redis as storage each get_data, get_state,       *)
(* set_state and set_data is an await: clear() is set_state and set_data,  *)
(* update_data is get_data and set_data.  What is kept is identified by    *)
(* the update that brought it.                                             *)
(***************************************************************************)
EXTENDS Naturals, FiniteSets

CONSTANTS MaxUpdates,    \* bound: updates delivered
          MaxConcurrent, \* bound: handlers that run at the same time
          MaxFaults      \* bound: awaits that go wrong, deaths, jobs worked on again

ASSUME ChatAssumption == MaxUpdates \in Nat /\ MaxConcurrent \in Nat /\ MaxFaults \in Nat

(* Updates are numbered in the order in which they arrive.                 *)
Update == 1..MaxUpdates
NoUpdate == 0

Photos == {"photo", "captioned"}
Presets == {"preset", "lapsed"}   \* the button of a preset, or of one that is gone
Kind == Photos \cup Presets \cup {"custom", "text", "cancel"}

(* FSM data: the updates with the reference photo and the selected preset. *)
Data == [photo : Update \cup {NoUpdate}, preset : Update \cup {NoUpdate}]
NoData == [photo |-> NoUpdate, preset |-> NoUpdate]

VARIABLES
  fsm,     \* state of the chat
  data,    \* its data
  arrived, \* how many updates have arrived
  what,    \* what[u]: the kind of update u
  pc,      \* pc[u]: what the handler of u does next
  seen,    \* seen[u]: the state it has read
  got,     \* got[u]: the data it has read
  asked,   \* updates whose handler asks for a generation
  made,    \* made[u]: the photo and the preset of the generation it asks for
  failed,  \* handlers that raised or died
  \* bookkeeping of the model
  met,     \* met[u]: the updates handled at the same time as u
  faults

chat == <<fsm, data>>
handler == <<pc, seen, got, asked, made>>
chatVars == <<chat, arrived, what, handler, failed, met, faults>>

ChatPC == {"new", "first", "decide", "clear", "wipe", "read", "write", "turn",
           "deduct", "status", "enqueue", "end"}

ChatInit ==
  /\ fsm = "none" /\ data = NoData /\ arrived = 0 /\ asked = {}
  /\ what = [u \in Update |-> "text"]
  /\ pc = [u \in Update |-> "new"] /\ seen = [u \in Update |-> "none"]
  /\ got = [u \in Update |-> NoData] /\ made = [u \in Update |-> NoData]
  /\ failed = {} /\ met = [u \in Update |-> {}] /\ faults = 0

-----------------------------------------------------------------------------
Running == {u \in Update : pc[u] \notin {"new", "end"}}

Goto(u, label) == pc' = [pc EXCEPT ![u] = label]

(* The next update arrives and its handler starts.                         *)
Arrive(kind) ==
  /\ arrived < MaxUpdates /\ Cardinality(Running) < MaxConcurrent
  /\ arrived' = arrived + 1
  /\ what' = [what EXCEPT ![arrived'] = kind]
  /\ Goto(arrived', CASE kind = "cancel" -> "clear"
                      [] kind \in Photos \cup {"text"} -> "first"
                      [] OTHER -> "decide")
  /\ met' = [u \in Update |-> IF u = arrived' THEN Running
                              ELSE IF u \in Running THEN met[u] \cup {arrived'} ELSE met[u]]
  /\ UNCHANGED <<chat, seen, got, asked, made, failed, faults>>

(* The first read: a photo's handler reads the data, a text's the state.   *)
FirstRead(u) ==
  /\ pc[u] = "first" /\ Goto(u, "decide")
  /\ IF what[u] = "text" THEN seen' = [seen EXCEPT ![u] = fsm] /\ UNCHANGED got
                         ELSE got' = [got EXCEPT ![u] = data] /\ UNCHANGED seen
  /\ UNCHANGED <<chat, arrived, what, asked, made, failed, met, faults>>

(* The handler clears the state and calls run_generation_job.              *)
Generate(u, photo, preset) ==
  /\ asked' = asked \cup {u}
  /\ made' = [made EXCEPT ![u] = [photo |-> photo, preset |-> preset]]
  /\ Goto(u, "clear")

Proceed(u, label) == Goto(u, label) /\ UNCHANGED <<asked, made>>

(* What a handler does after its last read is its own affair until its     *)
(* next call: the read and the decision are one step.                      *)
Decides(u, kinds) ==
  /\ pc[u] = "decide" /\ what[u] \in kinds
  /\ UNCHANGED <<chat, arrived, what, failed, met, faults>>

(* handle_photo_upload, which reads the state last: with a selected preset *)
(* that still exists it is applied (flow B); else a caption is the prompt; *)
(* else the photo is kept.                                                 *)
PhotoUploaded(u) ==
  /\ Decides(u, Photos)
  /\ got' = [got EXCEPT ![u] = NoData]
  /\ \/ got[u].preset # NoUpdate /\ Generate(u, u, got[u].preset) /\ UNCHANGED seen
     \/ what[u] = "captioned" /\ Generate(u, u, NoUpdate) /\ UNCHANGED seen
     \/ what[u] = "photo" /\ Proceed(u, "read") /\ seen' = [seen EXCEPT ![u] = fsm]

(* handle_preset_selection: with a photo it is applied at once (flow A).   *)
PresetSelected(u) ==
  /\ Decides(u, Presets) /\ UNCHANGED <<seen, got>>
  /\ \/ what[u] = "lapsed" /\ Proceed(u, "end")
     \/ what[u] = "preset" /\ data.photo # NoUpdate /\ Generate(u, data.photo, u)
     \/ what[u] = "preset" /\ data.photo = NoUpdate /\ Proceed(u, "read")

(* Choosing the custom prompt leaves the data as it is.                    *)
CustomSelected(u) == Decides(u, {"custom"}) /\ Proceed(u, "turn") /\ UNCHANGED <<seen, got>>

(* handle_custom_text_prompt, which reads the data last: refused while a   *)
(* photo is waited for.                                                    *)
TextSent(u) ==
  /\ Decides(u, {"text"})
  /\ seen' = [seen EXCEPT ![u] = "none"] /\ UNCHANGED got
  /\ IF seen[u] = "waiting" THEN Proceed(u, "end") ELSE Generate(u, data.photo, NoUpdate)

(* Variant for mutation: only the data is cleared.                         *)
ClearNoState(u) ==
  /\ pc[u] = "clear"
  /\ Goto(u, "wipe")
  /\ UNCHANGED <<chat, arrived, what, seen, got, asked, made, failed, met, faults>>

(* state.clear().                                                          *)
ClearState(u) ==
  /\ pc[u] = "clear"
  /\ fsm' = "none" /\ Goto(u, "wipe")
  /\ UNCHANGED <<data, arrived, what, seen, got, asked, made, failed, met, faults>>

(* Variant for mutation: only the state is cleared.                        *)
ClearNoData(u) ==
  /\ pc[u] = "wipe"
  /\ Goto(u, IF what[u] = "cancel" THEN "end" ELSE "deduct")
  /\ UNCHANGED <<chat, arrived, what, seen, got, asked, made, failed, met, faults>>

ClearData(u) ==
  /\ pc[u] = "wipe"
  /\ data' = NoData /\ Goto(u, IF what[u] = "cancel" THEN "end" ELSE "deduct")
  /\ UNCHANGED <<fsm, arrived, what, seen, got, asked, made, failed, met, faults>>

(* Variant for mutation: a photo keeps the preset selected before.         *)
UpdatedKeepingPreset(u, d) == IF what[u] = "preset" THEN [d EXCEPT !.preset = u]
                              ELSE [d EXCEPT !.photo = u]

(* state.update_data(reference_file_id=..., selected_preset_id=None) of a  *)
(* photo, update_data(selected_preset_id=...) of a preset.                 *)
Updated(u, d) == IF what[u] = "preset" THEN [d EXCEPT !.preset = u]
                 ELSE [photo |-> u, preset |-> NoUpdate]

ReadForUpdate(u) ==
  /\ pc[u] = "read"
  /\ got' = [got EXCEPT ![u] = Updated(u, data)] /\ Goto(u, "write")
  /\ UNCHANGED <<chat, arrived, what, seen, asked, made, failed, met, faults>>

WriteData(u) ==
  /\ pc[u] = "write"
  /\ data' = got[u] /\ got' = [got EXCEPT ![u] = NoData]
  /\ Goto(u, IF what[u] = "photo" /\ seen[u] = "custom" THEN "end" ELSE "turn")
  /\ seen' = [seen EXCEPT ![u] = "none"]
  /\ UNCHANGED <<fsm, arrived, what, asked, made, failed, met, faults>>

(* state.set_state(...), after the data.                                   *)
SetState(u) ==
  /\ pc[u] = "turn"
  /\ fsm' = CASE what[u] = "preset" -> "waiting"
              [] what[u] = "custom" -> "custom"
              [] OTHER -> "selecting"
  /\ Goto(u, "end")
  /\ UNCHANGED <<data, arrived, what, seen, got, asked, made, failed, met, faults>>

(* A call to Telegram or to Redis raises: aiogram logs it and the handler  *)
(* is over.                                                                *)
Raise(u) ==
  /\ u \in Running /\ faults < MaxFaults /\ faults' = faults + 1
  /\ failed' = failed \cup {u} /\ Goto(u, "end")
  /\ UNCHANGED <<chat, arrived, what, seen, got, asked, made, met>>

HandlerStep(u) ==
  \/ FirstRead(u)
  \/ PhotoUploaded(u) \/ PresetSelected(u) \/ CustomSelected(u) \/ TextSent(u)
  \/ ClearState(u) \/ ClearData(u) \/ ReadForUpdate(u) \/ WriteData(u) \/ SetState(u)

-----------------------------------------------------------------------------
Alone(lo, hi) == \A u \in lo..hi : met[u] = {} /\ u \notin failed

(* In a chat whose updates never overlap, a preset that is applied to a    *)
(* photo has not been cancelled, used or replaced since it was chosen      *)
(* (photo.py:36-53, presets.py:81-107).                                    *)
PresetStillChosen ==
  \A u \in Update :
    LET p == made[u].preset
    IN  p # NoUpdate /\ p < u /\ Alone(1, u) =>
          \A v \in (p + 1)..(u - 1) :
            what[v] \in {"custom", "lapsed", "text"} /\ v \notin asked

(* "Upload a photo to edit/transform it with your prompt!" (en.json:12,    *)
(* the answer to the custom prompt button), "Flow C: User is in Custom     *)
(* Prompt mode and uploads a photo" (photo.py:69): a photo sent while the  *)
(* chat is in that mode is not generated with a preset chosen before.      *)
CustomPromptTakesPhoto ==
  \A u \in Update :
    made[u].preset # NoUpdate /\ made[u].preset < u /\ Alone(1, u) =>
      \A v \in (made[u].preset + 1)..(u - 1) : what[v] # "custom"

(* While no handler is at work, the state says what the data holds: one    *)
(* waits for a photo only with a preset, a preset only with a photo, and   *)
(* nothing is kept when the chat is in no state.                           *)
StateMatchesData ==
  Running = {} /\ Alone(1, arrived) =>
    /\ fsm = "waiting" => data.preset # NoUpdate
    /\ fsm = "selecting" => data.photo # NoUpdate /\ data.preset = NoUpdate
    /\ fsm = "none" => data = NoData
=============================================================================
