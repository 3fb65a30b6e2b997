---------------------------- MODULE PresetStore ----------------------------
(***************************************************************************)
(* The presets: the table preset_prompts behind SupabaseNoSQLManager of    *)
(* platform_core/db/nosql.py, the memory each process keeps beside it, and *)
(* the registry of PresetManager (presets/manager.py).  Several processes  *)
(* serve the bots (the gateway is scaled by replicas), and each query of   *)
(* the table is a step: it may fail, or take effect and lose its reply.    *)
(* Left out is what a process offers: get_presets only reads, the active   *)
(* rows or, when there is none or the query fails, its memory; and the TTL *)
(* cache, which no caller outside the tests reads (they all pass a bot_id, *)
(* include_inactive or force_reload).                                      *)
(***************************************************************************)
EXTENDS Naturals, Sequences, FiniteSets

CONSTANTS Preset, Process,
          NoProcess,
          Defaults,      \* the presets of bots/image_bot/presets.yaml, in order
          Registered,    \* Registered[a]: presets of the instances' YAML files
          MaxUpdates,    \* bound: updates of the admin bot
          Budgets,       \* bound: how many of each kind, one of these
          MaxConcurrent, \* bound: handlers that run at the same time
          MaxFaults      \* bound: queries that go wrong

ASSUME StoreAssumption ==
  /\ IsFiniteSet(Preset) /\ NoProcess \notin Process
  /\ Defaults \in Seq(Preset) /\ Registered \in [Process -> SUBSET Preset]
  /\ MaxUpdates \in Nat /\ MaxConcurrent \in Nat /\ MaxFaults \in Nat

(* Updates are numbered in the order in which they arrive.  A text is      *)
(* known by the update that wrote it.                                      *)
Update == 1..MaxUpdates
FromFile == MaxUpdates + 1
Doc == [text : 1..FromFile, active : BOOLEAN]
NoDoc == [text |-> 0, active |-> FALSE]

VARIABLES
  row,     \* row[p]: the document in the table, or NoDoc
  memory,  \* memory[a][p]: _in_memory_presets of a process
  custom,  \* custom[a]: _custom_presets
  \* the handlers
  arrived, \* how many updates have arrived
  left,    \* left[k]: how many of a kind may still arrive
  what,    \* what[u]: the kind of an update
  on,      \* on[u]: the process that handles it
  pc,      \* pc[u]: what the handler does next
  todo,    \* todo[u]: presets to save or to delete, the first one at hand
  doc,     \* doc[u]: the document it saves
  \* bookkeeping of the model
  recalled, \* toggles that took the document of their memory
  writer,  \* writer[p]: the process that wrote or deleted the row last
  unsynced, \* <<a, p>>: the last change of p by a failed in the table
  crossed, \* presets that two handlers worked on at the same time
  faults

store == <<row, memory, custom>>
work == <<pc, todo, doc>>
ghosts == <<recalled, writer, unsynced, crossed>>
storeVars == <<store, arrived, left, what, on, work, ghosts, faults>>

StoreKind == {"enable", "disable", "delete", "seed"}
WizardKind == {"start", "text", "cancel", "menu"}
Kind == StoreKind \cup WizardKind

StoreInit ==
  /\ row = [p \in Preset |-> NoDoc]
  /\ memory = [a \in Process |-> [p \in Preset |-> NoDoc]]
  /\ custom = Registered
  /\ arrived = 0 /\ left \in Budgets /\ what = [u \in Update |-> "seed"] /\ on = [u \in Update |-> NoProcess]
  /\ pc = [u \in Update |-> "new"] /\ todo = [u \in Update |-> <<>>]
  /\ doc = [u \in Update |-> NoDoc]
  /\ recalled = {} /\ writer = [p \in Preset |-> NoProcess] /\ unsynced = {} /\ crossed = {}
  /\ faults = 0

-----------------------------------------------------------------------------
Running == {u \in Update : pc[u] \notin {"new", "end"}}
Touched(u) == {todo[u][i] : i \in 1..Len(todo[u])}

(* Update kind arrives at process a and its handler works on presets ps.   *)
Arrive(a, kind, ps, label) ==
  /\ arrived < MaxUpdates /\ left[kind] > 0 /\ Cardinality(Running) < MaxConcurrent
  /\ arrived' = arrived + 1 /\ left' = [left EXCEPT ![kind] = @ - 1]
  /\ what' = [what EXCEPT ![arrived'] = kind]
  /\ on' = [on EXCEPT ![arrived'] = IF label = "end" THEN NoProcess ELSE a]
  /\ todo' = [todo EXCEPT ![arrived'] = ps]
  /\ pc' = [pc EXCEPT ![arrived'] = label]

(* The handlers at work on a preset that u takes up.                       *)
Crossing(u, ps) == crossed \cup {p \in ps : \E v \in Running \ {u} : p \in Touched(v)}

Remember(u, p, d) == memory' = [memory EXCEPT ![on[u]][p] = d]

(* cb_preset_toggle: update_preset reads the document first.               *)
BeginToggle(a, kind, p) ==
  /\ kind \in {"enable", "disable"}
  /\ Arrive(a, kind, <<p>>, "read")
  /\ crossed' = Crossing(arrived', {p})
  /\ UNCHANGED <<store, doc, recalled, writer, unsynced, faults>>

(* Variant for mutation: the memory is kept.                               *)
BeginDeleteOfRow(a, p) ==
  /\ Arrive(a, "delete", <<p>>, "erase")
  /\ custom' = [custom EXCEPT ![a] = @ \ {p}]
  /\ crossed' = Crossing(arrived', {p})
  /\ UNCHANGED <<row, memory, doc, recalled, writer, unsynced, faults>>

(* cb_preset_del_do: the registry and the memory of the process first.     *)
BeginDelete(a, p) ==
  /\ Arrive(a, "delete", <<p>>, "erase")
  /\ custom' = [custom EXCEPT ![a] = @ \ {p}]
  /\ memory' = [memory EXCEPT ![a][p] = NoDoc]
  /\ crossed' = Crossing(arrived', {p})
  /\ UNCHANGED <<row, doc, recalled, writer, unsynced, faults>>

(* cb_preset_seed: seed_presets_from_file saves every preset of the file.  *)
BeginSeed(a) ==
  /\ Defaults # <<>>
  /\ Arrive(a, "seed", Defaults, "write")
  /\ LET d == [text |-> FromFile, active |-> TRUE]
     IN  /\ doc' = [doc EXCEPT ![arrived'] = d]
         /\ memory' = [memory EXCEPT ![a][Head(Defaults)] = d]
  /\ crossed' = Crossing(arrived', {Defaults[i] : i \in DOMAIN Defaults})
  /\ UNCHANGED <<row, custom, recalled, writer, unsynced, faults>>

(* A handler that is over forgets what it worked on.                       *)
Continue(u, label) ==
  /\ pc' = [pc EXCEPT ![u] = label]
  /\ todo' = [todo EXCEPT ![u] = IF label = "end" THEN <<>> ELSE @]
  /\ on' = [on EXCEPT ![u] = IF label = "end" THEN NoProcess ELSE @]
  /\ UNCHANGED <<arrived, left, what, crossed>>

Saving(u, d) == doc' = [doc EXCEPT ![u] = d]

Fault == faults < MaxFaults /\ faults' = faults + 1

(* Variants for mutation: a missing document is changed; the memory is     *)
(* asked first; it is not updated.                                         *)
ReadRowUnchecked(u) ==
  /\ pc[u] = "read" /\ UNCHANGED <<row, custom, writer, unsynced, recalled, faults>>
  /\ LET changed == [row[Head(todo[u])] EXCEPT !.active = what[u] = "enable"]
     IN  Continue(u, "write") /\ Saving(u, changed) /\ Remember(u, Head(todo[u]), changed)

ReadMemory(u) ==
  /\ pc[u] = "read" /\ UNCHANGED <<row, custom, writer, unsynced, recalled, faults>>
  /\ LET p == Head(todo[u])
         d == IF memory[on[u]][p] # NoDoc THEN memory[on[u]][p] ELSE row[p]
         changed == [d EXCEPT !.active = what[u] = "enable"]
     IN  IF d = NoDoc THEN Continue(u, "end") /\ UNCHANGED <<memory, doc>>
         ELSE Continue(u, "write") /\ Saving(u, changed) /\ Remember(u, p, changed)

ReadRowOnly(u) ==
  /\ pc[u] = "read" /\ UNCHANGED <<store, writer, unsynced, recalled, faults>>
  /\ row[Head(todo[u])] # NoDoc /\ Continue(u, "write")
  /\ Saving(u, [row[Head(todo[u])] EXCEPT !.active = what[u] = "enable"])

(* update_preset has its answer: the row, or, without one, what the        *)
(* process remembers; save_preset puts the changed document in the memory. *)
ReadRow(u) ==
  /\ pc[u] = "read" /\ UNCHANGED <<row, custom, writer, unsynced>>
  /\ LET p == Head(todo[u])
         a == on[u]
         Take(d) == IF d = NoDoc THEN Continue(u, "end") /\ UNCHANGED <<memory, doc>>
                    ELSE LET changed == [d EXCEPT !.active = what[u] = "enable"]
                         IN  /\ Continue(u, "write")
                             /\ Saving(u, changed) /\ Remember(u, p, changed)
     IN  \/ row[p] # NoDoc /\ Take(row[p]) /\ UNCHANGED <<recalled, faults>>
         \/ row[p] = NoDoc /\ Take(memory[a][p]) /\ recalled' = recalled \cup {u} /\ UNCHANGED faults
         \/ Fault /\ Take(memory[a][p]) /\ recalled' = recalled \cup {u}

(* The query of the save or of the deletion; both swallow its exception,   *)
(* so a reply that is lost changes nothing.                                *)
Query(u, new) ==
  LET p == Head(todo[u])
      Applied == row' = [row EXCEPT ![p] = new] /\ writer' = [writer EXCEPT ![p] = on[u]]
  IN  \/ Applied /\ unsynced' = unsynced \ {<<on[u], p>>} /\ UNCHANGED faults
      \/ Fault /\ UNCHANGED <<row, writer>> /\ unsynced' = unsynced \cup {<<on[u], p>>}

(* save_preset, and the next preset of a seed.                             *)
WriteRow(u) ==
  /\ pc[u] = "write" /\ Query(u, doc[u])
  /\ UNCHANGED <<custom, recalled>>
  /\ IF Len(todo[u]) = 1 THEN Continue(u, "end") /\ Saving(u, NoDoc) /\ UNCHANGED memory
     ELSE /\ todo' = [todo EXCEPT ![u] = Tail(@)] /\ Remember(u, todo[u][2], doc[u])
          /\ UNCHANGED <<arrived, left, what, on, pc, doc, crossed>>

(* delete_preset.                                                          *)
EraseRow(u) ==
  /\ pc[u] = "erase" /\ Query(u, NoDoc) /\ Continue(u, "end")
  /\ UNCHANGED <<memory, custom, doc, recalled>>

StoreStep(u) == ReadRow(u) \/ WriteRow(u) \/ EraseRow(u)

-----------------------------------------------------------------------------
AtWork(p) == \E u \in Running : p \in Touched(u)

(* A process and a preset whose documents nothing has set apart.           *)
InStep(a, p) == writer[p] = a /\ <<a, p>> \notin unsynced /\ p \notin crossed /\ ~AtWork(p)

(* The process that wrote or deleted a preset last remembers what the      *)
(* table holds, and no registry of its own brings a deleted preset back    *)
(* (nosql.py:98-164, manager.py:192-197).                                  *)
MemoryMatches ==
  \A a \in Process, p \in Preset :
    InStep(a, p) => /\ memory[a][p] = row[p]
                    /\ row[p] = NoDoc => p \notin custom[a]

(* Without a row a toggle starts from what its process remembers, and puts *)
(* that into the table.  It brings back a preset that was deleted only if  *)
(* another process deleted it, if the last query that its own process made *)
(* for it failed, or if handlers crossed (nosql.py:90-96, 130-139).        *)
DeletedStaysDeleted ==
  [][\A u \in Update :
       /\ pc[u] = "write" /\ pc'[u] = "end" /\ what[u] \in {"enable", "disable"}
       => LET p == Head(todo[u])
          IN  row[p] = NoDoc /\ row'[p] # NoDoc =>
                \/ writer[p] \notin {on[u], NoProcess}
                \/ <<on[u], p>> \in unsynced
                \/ p \in crossed]_storeVars

(* Enabling or disabling a preset changes nothing else: a toggle that      *)
(* writes another text than the row has crossed another handler, or had no *)
(* row to start from and took what its process remembers (nosql.py:130-139 *)
(* reads the document, changes a field and writes all of it back).         *)
NoLostEdit ==
  [][\A u \in Update :
       /\ pc[u] = "write" /\ pc'[u] = "end" /\ what[u] \in {"enable", "disable"}
       /\ row' # row
       => LET p == Head(todo[u])
          IN  row'[p].text = row[p].text \/ p \in crossed \/ u \in recalled]_storeVars
=============================================================================
