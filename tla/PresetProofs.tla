---------------------------- MODULE PresetProofs ----------------------------
(***************************************************************************)
(* Theorems about AdminPresets and the PresetStore it extends, for any     *)
(* number of presets, processes, fields, updates and failing queries,      *)
(* whatever files of presets the instances have.                           *)
(***************************************************************************)
EXTENDS AdminPresets, SequenceTheorems, TLAPS

StoreLabel == {"read", "write", "erase"}
WizardLabel == {"get", "set", "turn", "clear", "wipe"}
Label == StoreLabel \cup WizardLabel \cup {"new", "end"}

(* Who is at work on what: an update has presets at hand exactly while it  *)
(* works on the store, and its kind tells what it may be doing.            *)
ControlOf(u) ==
  /\ todo[u] \in Seq(Preset)
  /\ pc[u] = "new" <=> u > arrived
  /\ pc[u] \in StoreLabel <=> todo[u] # <<>>
  /\ on[u] \in Process <=> pc[u] \notin {"new", "end"}
  /\ pc[u] = "write" => doc[u] \in Doc
  /\ pc[u] = "read" => what[u] \in {"enable", "disable"}
  /\ pc[u] \in WizardLabel => what[u] \in WizardKind
  /\ what[u] \in WizardKind /\ pc[u] \in StoreLabel => pc[u] = "write"
Control ==
  /\ pc \in [Update -> Label] /\ DOMAIN todo = Update /\ DOMAIN writer = Preset
  /\ created \subseteq Update
  /\ \A u \in Update : ControlOf(u)

(* What the wizard asked for when the text arrived.                        *)
AskingOf(u) ==
  /\ pc[u] \in {"get", "set"} => what[u] = "text" /\ asked[u] # 0
  /\ pc[u] \in {"turn", "set"} => asked[u] # LastField
  /\ pc[u] = "turn" => \/ what[u] = "start" /\ asked[u] = 0
                       \/ what[u] = "text" /\ asked[u] # 0
  /\ pc[u] \in {"clear", "wipe"} =>
       \/ what[u] = "menu"
       \/ what[u] = "text" /\ asked[u] = LastField
Asking == \A u \in Update : AskingOf(u)

Types == TypeOK /\ Control /\ Asking

-----------------------------------------------------------------------------
LEMMA Documents ==
  /\ NoDoc \notin Doc
  /\ \A u \in Update : [text |-> u, active |-> TRUE] \in Doc
  /\ [text |-> FromFile, active |-> TRUE] \in Doc
  /\ \A d \in Doc, x \in BOOLEAN :
       /\ [d EXCEPT !.active = x] \in Doc
       /\ [d EXCEPT !.active = x].text = d.text
BY StoreAssumption DEF Doc, NoDoc, Update, FromFile

LEMMA HeadAtHand ==
  ASSUME NEW s \in Seq(Preset), s # <<>>
  PROVE  /\ Len(s) \in Nat \ {0} /\ Head(s) = s[1] /\ Head(s) \in Preset
         /\ Head(s) \in {s[i] : i \in 1..Len(s)}
         /\ \A i \in 1..Len(s) : s[i] \in Preset
         /\ Tail(s) \in Seq(Preset) /\ Len(Tail(s)) = Len(s) - 1
         /\ \A i \in 1..Len(Tail(s)) : Tail(s)[i] = s[i + 1]
         /\ Len(s) # 1 => Tail(s) # <<>> /\ Head(Tail(s)) = s[2]
<1>1. Len(s) \in Nat \ {0} /\ Head(s) = s[1]
  OBVIOUS
<1>2. \A i \in 1..Len(s) : s[i] \in Preset
  BY ElementOfSeq
<1>3. Tail(s) \in Seq(Preset) /\ Len(Tail(s)) = Len(s) - 1
      /\ \A i \in 1..Len(Tail(s)) : Tail(s)[i] = s[i + 1]
  BY <1>1
<1>4. ASSUME Len(s) # 1 PROVE Tail(s) # <<>> /\ Head(Tail(s)) = s[2]
  <2>1. Len(Tail(s)) \in Nat \ {0}
    BY <1>1, <1>3, <1>4
  <2>2. Tail(s) # <<>>
    BY <2>1, <1>3, EmptySeq
  <2>3. Head(Tail(s)) = Tail(s)[1]
    BY <2>2, <1>3, HeadTailProperties
  <2>. QED
    BY <2>1, <2>2, <2>3, <1>3
<1>. QED
  BY <1>1, <1>2, <1>3, <1>4

LEMMA OneAtHand ==
  ASSUME NEW p \in Preset
  PROVE  /\ <<p>> \in Seq(Preset) /\ <<p>> # <<>> /\ Head(<<p>>) = p
         /\ {<<p>>[i] : i \in 1..Len(<<p>>)} = {p}
OBVIOUS

LEMMA NoneAtHand == <<>> \in Seq(Preset) /\ {(<<>>)[i] : i \in 1..Len(<<>>)} = {}
OBVIOUS

LEMMA Constants ==
  /\ NoFields \in Fields /\ LastField \in Nat /\ LastField > 1
  /\ MaxUpdates \in Nat /\ NoProcess \notin Process
  /\ \A u \in Update : u \in Nat /\ u >= 1 /\ u <= MaxUpdates
BY StoreAssumption, WizardAssumption DEF NoFields, Fields, Update

LEMMA InitTypes == Init => Types
<1>. SUFFICES ASSUME Init PROVE Types
  OBVIOUS
<1>1. TypeOK
  BY Constants, StoreAssumption DEF Init, StoreInit, TypeOK, Kind, StoreKind
<1>2. Control
  BY Constants, StoreAssumption
     DEF Init, StoreInit, Control, ControlOf, Label, StoreLabel, WizardLabel
<1>. QED
  BY <1>1, <1>2 DEF Types, Init, StoreInit, Asking, AskingOf

(* What the arrival of an update changes.                                  *)
Enters(n, a, kind, ps, label) ==
  /\ n \in Update /\ n = arrived + 1 /\ arrived' = n
  /\ pc[n] = "new" /\ todo[n] = <<>> /\ on[n] = NoProcess
  /\ what'[n] = kind /\ pc'[n] = label /\ todo'[n] = ps
  /\ on'[n] = IF label = "end" THEN NoProcess ELSE a
  /\ \A u \in Update \ {n} :
       what'[u] = what[u] /\ pc'[u] = pc[u] /\ todo'[u] = todo[u] /\ on'[u] = on[u]
  /\ DOMAIN what' = Update /\ DOMAIN pc' = Update /\ DOMAIN todo' = Update
  /\ DOMAIN on' = Update
  /\ what' \in [Update -> Kind] /\ pc' \in [Update -> Label]
  /\ on' \in [Update -> Process \cup {NoProcess}]

LEMMA ArriveEnters ==
  ASSUME Types, NEW a \in Process, NEW kind \in Kind, NEW ps, NEW label \in Label \ {"new"},
         Arrive(a, kind, ps, label)
  PROVE  Enters(arrived', a, kind, ps, label)
<1>1. /\ arrived \in Nat /\ arrived' = arrived + 1 /\ arrived' \in Update
      /\ ~(arrived' <= arrived) /\ arrived' > arrived
  BY Constants DEF Types, TypeOK, Arrive, Update
<1>2. pc[arrived'] = "new"
  BY <1>1 DEF Types, Control, ControlOf
<1>3. todo[arrived'] = <<>>
  BY <1>1, <1>2 DEF Types, Control, ControlOf, StoreLabel
<1>4. on[arrived'] = NoProcess
  BY <1>1, <1>2 DEF Types, Control, ControlOf, TypeOK
<1>. DEFINE n == arrived'
<1>5. /\ what' = [what EXCEPT ![n] = kind] /\ pc' = [pc EXCEPT ![n] = label]
      /\ todo' = [todo EXCEPT ![n] = ps]
      /\ on' = [on EXCEPT ![n] = IF label = "end" THEN NoProcess ELSE a]
  BY DEF Arrive
<1>6. /\ what \in [Update -> Kind] /\ pc \in [Update -> Label] /\ DOMAIN todo = Update
      /\ on \in [Update -> Process \cup {NoProcess}]
  BY DEF Types, TypeOK, Control, ControlOf
<1>. HIDE DEF n
<1>. QED
  BY <1>1, <1>2, <1>3, <1>4, <1>5, <1>6 DEF Enters, n

(* What a step of the handler of u changes besides.                        *)
Goes(u, label) ==
  /\ arrived' = arrived /\ what' = what /\ crossed' = crossed
  /\ pc'[u] = label
  /\ label = "end" => todo'[u] = <<>> /\ on'[u] = NoProcess
  /\ label # "end" => todo'[u] = todo[u] /\ on'[u] = on[u]
  /\ \A v \in Update \ {u} : pc'[v] = pc[v] /\ todo'[v] = todo[v] /\ on'[v] = on[v]
  /\ DOMAIN pc' = Update /\ DOMAIN todo' = Update /\ DOMAIN on' = Update
  /\ pc' \in [Update -> Label] /\ on' \in [Update -> Process \cup {NoProcess}]

LEMMA ContinueGoes ==
  ASSUME Types, NEW u \in Update, NEW label \in Label, Continue(u, label)
  PROVE  Goes(u, label)
BY DEF Types, TypeOK, Control, ControlOf, Continue, Goes

-----------------------------------------------------------------------------
(* Type correctness and control, action by action.                         *)
LEMMA EntersControl ==
  ASSUME Types, NEW n, NEW a \in Process, NEW kind \in Kind, NEW ps \in Seq(Preset),
         NEW label \in Label \ {"new"}, Enters(n, a, kind, ps, label),
         label \in StoreLabel <=> ps # <<>>,
         label = "write" => doc'[n] \in Doc,
         label = "read" => kind \in {"enable", "disable"},
         label \in WizardLabel => kind \in WizardKind,
         kind \in WizardKind => label \notin StoreLabel,
         \A u \in Update \ {n} : doc'[u] = doc[u],
         created' = created, writer' = writer
  PROVE  Control'
<1>1. created' \subseteq Update
  BY DEF Types, Control, ControlOf
<1>2. \A u \in Update : u \in Nat /\ arrived \in Nat /\ arrived' = arrived + 1
  BY Constants DEF Enters, Types, TypeOK
<1>. SUFFICES ASSUME NEW u \in Update
              PROVE  ControlOf(u)'
  BY <1>1 DEF Control, Enters, Types
<1>3. CASE u = n
  BY <1>3, <1>2, Constants DEF Enters, ControlOf
<1>4. CASE u # n
  <2>1. pc[u] = "new" <=> u > arrived
    BY DEF Types, Control, ControlOf
  <2>2. pc'[u] = "new" <=> u > arrived'
    BY <1>4, <1>2, <2>1 DEF Enters
  <2>. QED
    BY <1>4, <2>2 DEF Enters, Types, Control, ControlOf
<1>. QED
  BY <1>3, <1>4

LEMMA GoesControl ==
  ASSUME Types, NEW u \in Update, NEW label \in Label \ {"new"}, Goes(u, label),
         pc[u] \notin {"new", "end"},
         label # "end" => (label \in StoreLabel <=> pc[u] \in StoreLabel),
         label = "write" => doc'[u] \in Doc,
         label = "read" => pc[u] = "read",
         label = "erase" => pc[u] = "erase",
         \A v \in Update \ {u} : doc'[v] = doc[v],
         created' = created, DOMAIN writer' = Preset
  PROVE  Control'
<1>. SUFFICES ASSUME NEW v \in Update
              PROVE  ControlOf(v)'
  BY DEF Control, Goes, Types
<1>1. CASE v # u
  BY <1>1 DEF Types, Control, ControlOf, Goes
<1>2. CASE v = u /\ label = "end"
  BY <1>2, Constants, NoneAtHand DEF Types, Control, ControlOf, Goes, StoreLabel, WizardLabel
<1>3. CASE v = u /\ label # "end"
  BY <1>3 DEF Types, Control, ControlOf, Goes, Label, StoreLabel, WizardLabel
<1>. QED
  BY <1>1, <1>2, <1>3

LEMMA TypeOKFrom ==
  ASSUME Control',
         row' \in [Preset -> Doc \cup {NoDoc}],
         memory' \in [Process -> [Preset -> Doc \cup {NoDoc}]],
         custom' \in [Process -> SUBSET Preset], arrived' \in 0..MaxUpdates,
         what' \in [Update -> Kind], on' \in [Update -> Process \cup {NoProcess}],
         doc' \in [Update -> Doc \cup {NoDoc}],
         asks' \in 0..LastField, data' \in Fields, got' \in [Update -> Fields],
         asked' \in [Update -> 0..LastField]
  PROVE  TypeOK'
<1>1. \A u \in Update :
        pc'[u] \in {"read", "write", "erase"} => todo'[u] # <<>> /\ on'[u] \in Process
  BY DEF Control, ControlOf, StoreLabel
<1>2. \A u \in Update : pc'[u] = "write" => doc'[u] # NoDoc
  BY Documents DEF Control, ControlOf
<1>. QED
  BY <1>1, <1>2 DEF TypeOK

LEMMA FirstLabel ==
  ASSUME NEW kind \in WizardKind
  PROVE  /\ First(kind) \in {"turn", "clear", "end", "get"}
         /\ First(kind) = "turn" <=> kind = "start"
         /\ First(kind) = "clear" <=> kind = "menu"
         /\ First(kind) = "get" <=> kind = "text" /\ asks # 0
BY DEF First, WizardKind

LEMMA MessageTypes ==
  ASSUME Types, NEW a \in WizardAt, NEW kind \in WizardKind, Message(a, kind)
  PROVE  Types' /\ Enters(arrived', a, kind, <<>>, First(kind))
<1>. DEFINE label == First(kind)
<1>1. /\ label \in Label \ {"new"} /\ label \notin StoreLabel /\ kind \in Kind /\ a \in Process
      /\ label \in {"turn", "clear", "end", "get"}
  BY FirstLabel, WizardAssumption DEF Label, StoreLabel, WizardLabel, Kind
<1>2. Arrive(a, kind, <<>>, label)
  BY DEF Message
<1>. HIDE DEF label
<1>3. Enters(arrived', a, kind, <<>>, label)
  BY <1>1, <1>2, ArriveEnters
<1>4. asked' = [asked EXCEPT ![arrived'] = IF kind = "text" THEN asks ELSE 0]
      /\ UNCHANGED <<row, memory, custom, doc, writer, asks, data, got, created>>
  BY DEF Message, store, ghosts
<1>5. Control'
  <2>. <<>> \in Seq(Preset)
    BY NoneAtHand
  <2>. QED
    BY <1>1, <1>3, <1>4, EntersControl DEF WizardKind
<1>6. asked' \in [Update -> 0..LastField]
  <2>1. asked \in [Update -> 0..LastField] /\ asks \in 0..LastField /\ 0 \in 0..LastField
    BY Constants DEF Types, TypeOK
  <2>2. arrived' \in Update
    BY <1>3 DEF Enters
  <2>. DEFINE n == arrived'
  <2>. HIDE DEF n
  <2>3. asked' = [asked EXCEPT ![n] = IF kind = "text" THEN asks ELSE 0]
    BY <1>4 DEF n
  <2>. QED
    BY <2>1, <2>2, <2>3
<1>7. TypeOK'
  <2>1. arrived' \in 0..MaxUpdates
    <3>1. arrived' \in Update
      BY <1>3 DEF Enters
    <3>. QED
      BY <3>1, Constants
  <2>2. /\ row' \in [Preset -> Doc \cup {NoDoc}]
        /\ memory' \in [Process -> [Preset -> Doc \cup {NoDoc}]]
        /\ custom' \in [Process -> SUBSET Preset] /\ doc' \in [Update -> Doc \cup {NoDoc}]
        /\ asks' \in 0..LastField /\ data' \in Fields /\ got' \in [Update -> Fields]
    <3>1. /\ row \in [Preset -> Doc \cup {NoDoc}]
          /\ memory \in [Process -> [Preset -> Doc \cup {NoDoc}]]
          /\ custom \in [Process -> SUBSET Preset] /\ doc \in [Update -> Doc \cup {NoDoc}]
          /\ asks \in 0..LastField /\ data \in Fields /\ got \in [Update -> Fields]
      BY DEF Types, TypeOK
    <3>. QED
      BY <1>4, <3>1
  <2>3. what' \in [Update -> Kind] /\ on' \in [Update -> Process \cup {NoProcess}]
    BY <1>3 DEF Enters
  <2>. QED
    BY <2>1, <2>2, <2>3, <1>5, <1>6, TypeOKFrom
<1>8. Asking'
  <2>. SUFFICES ASSUME NEW u \in Update PROVE  AskingOf(u)'
    BY DEF Asking
  <2>0. asked \in [Update -> 0..LastField] /\ arrived' \in Update
    BY <1>3 DEF Types, TypeOK, Enters
  <2>. DEFINE n == arrived'
  <2>. HIDE DEF n
  <2>1. CASE u = n
    <3>1. asked'[u] = IF kind = "text" THEN asks ELSE 0
      BY <2>0, <2>1, <1>4 DEF n
    <3>2. pc'[u] = label /\ what'[u] = kind
      BY <2>1, <1>3 DEF Enters, n
    <3>. QED
      BY <3>1, <3>2, FirstLabel, Constants DEF label, AskingOf
  <2>2. CASE u # n
    <3>1. asked'[u] = asked[u]
      BY <2>0, <2>2, <1>4 DEF n
    <3>2. pc'[u] = pc[u] /\ what'[u] = what[u]
      BY <2>2, <1>3 DEF Enters, n
    <3>. QED
      BY <3>1, <3>2 DEF Types, Asking, AskingOf
  <2>. QED
    BY <2>1, <2>2
<1>. QED
  BY <1>3, <1>5, <1>7, <1>8 DEF Types, label


(* The steps of the store leave the wizard's variables alone, and who is   *)
(* in the wizard.                                                          *)
LEMMA AskingKept ==
  ASSUME Types, NEW u \in Update, asked' = asked, what'[u] = what[u],
         pc'[u] = pc[u] \/ pc'[u] \in StoreLabel \cup {"end"}
  PROVE  AskingOf(u)'
BY DEF Types, Asking, AskingOf, StoreLabel

LEMMA AskingBesides ==
  ASSUME Types, NEW n, NEW a, NEW kind, NEW ps, NEW label \in StoreLabel,
         Enters(n, a, kind, ps, label), asked' = asked
  PROVE  Asking'
<1>. SUFFICES ASSUME NEW u \in Update
              PROVE  AskingOf(u)'
  BY DEF Asking
<1>1. CASE u = n
  BY <1>1 DEF Enters, StoreLabel, AskingOf
<1>2. CASE u # n
  BY <1>2, AskingKept DEF Enters
<1>. QED
  BY <1>1, <1>2

LEMMA BeginToggleTypes ==
  ASSUME Types, NEW a \in Process, NEW kind \in StoreKind, NEW p \in Preset,
         BeginToggle(a, kind, p), UNCHANGED wizard
  PROVE  Types' /\ Enters(arrived', a, kind, <<p>>, "read")
<1>1. Enters(arrived', a, kind, <<p>>, "read")
  <2>1. Arrive(a, kind, <<p>>, "read") /\ kind \in Kind /\ "read" \in Label \ {"new"}
    BY DEF BeginToggle, Kind, Label, StoreLabel
  <2>. QED
    BY <2>1, ArriveEnters
<1>2. Control'
  <2>1. kind \in {"enable", "disable"} /\ doc' = doc /\ created' = created /\ writer' = writer
    BY DEF BeginToggle, wizard
  <2>2. kind \in Kind /\ kind \notin WizardKind /\ "read" \in Label \ {"new"}
        /\ "read" \in StoreLabel /\ "read" \notin WizardLabel
    BY <2>1 DEF Kind, WizardKind, StoreKind, Label, StoreLabel, WizardLabel
  <2>. QED
    BY <1>1, <2>1, <2>2, OneAtHand, EntersControl
<1>3. TypeOK'
  <2>. arrived' \in 0..MaxUpdates
    <3>1. arrived' \in Update
      BY <1>1 DEF Enters
    <3>. QED
      BY <3>1, Constants
  <2>. QED
    BY <1>1, <1>2, TypeOKFrom DEF Types, TypeOK, Enters, BeginToggle, wizard, store
<1>4. Asking'
  <2>. asked' = asked /\ "read" \in StoreLabel
    BY DEF wizard, StoreLabel
  <2>. QED
    BY <1>1, AskingBesides
<1>. QED
  BY <1>1, <1>2, <1>3, <1>4 DEF Types

LEMMA BeginDeleteTypes ==
  ASSUME Types, NEW a \in Process, NEW p \in Preset,
         BeginDelete(a, p), UNCHANGED wizard
  PROVE  Types' /\ Enters(arrived', a, "delete", <<p>>, "erase")
<1>1. Enters(arrived', a, "delete", <<p>>, "erase")
  <2>1. Arrive(a, "delete", <<p>>, "erase") /\ "delete" \in Kind /\ "erase" \in Label \ {"new"}
    BY DEF BeginDelete, Kind, StoreKind, Label, StoreLabel
  <2>. QED
    BY <2>1, ArriveEnters
<1>2. Control'
  <2>1. doc' = doc /\ created' = created /\ writer' = writer
    BY DEF BeginDelete, wizard
  <2>2. "delete" \in Kind /\ "delete" \notin WizardKind /\ "erase" \in Label \ {"new"}
        /\ "erase" \in StoreLabel /\ "erase" \notin WizardLabel
    BY DEF Kind, WizardKind, StoreKind, Label, StoreLabel, WizardLabel
  <2>. QED
    BY <1>1, <2>1, <2>2, OneAtHand, EntersControl
<1>3. TypeOK'
  <2>1. arrived' \in 0..MaxUpdates
    <3>1. arrived' \in Update
      BY <1>1 DEF Enters
    <3>. QED
      BY <3>1, Constants
  <2>2. /\ memory' \in [Process -> [Preset -> Doc \cup {NoDoc}]]
        /\ custom' \in [Process -> SUBSET Preset]
    BY DEF Types, TypeOK, BeginDelete
  <2>. QED
    BY <2>1, <2>2, <1>1, <1>2, TypeOKFrom DEF Types, TypeOK, Enters, BeginDelete, wizard
<1>4. Asking'
  <2>. asked' = asked /\ "erase" \in StoreLabel
    BY DEF wizard, StoreLabel
  <2>. QED
    BY <1>1, AskingBesides
<1>. QED
  BY <1>1, <1>2, <1>3, <1>4 DEF Types

LEMMA BeginSeedTypes ==
  ASSUME Types, NEW a \in Process, BeginSeed(a), UNCHANGED wizard
  PROVE  Types' /\ Enters(arrived', a, "seed", Defaults, "write")
<1>. DEFINE d == [text |-> FromFile, active |-> TRUE]
<1>0. d \in Doc /\ Defaults \in Seq(Preset) /\ Defaults # <<>> /\ Head(Defaults) \in Preset
  BY Documents, HeadAtHand, StoreAssumption DEF BeginSeed
<1>1. Enters(arrived', a, "seed", Defaults, "write")
  <2>1. Arrive(a, "seed", Defaults, "write") /\ "seed" \in Kind /\ "write" \in Label \ {"new"}
    BY DEF BeginSeed, Kind, StoreKind, Label, StoreLabel
  <2>. QED
    BY <2>1, ArriveEnters
<1>2. /\ doc' = [doc EXCEPT ![arrived'] = d]
      /\ memory' = [memory EXCEPT ![a][Head(Defaults)] = d]
      /\ row' = row /\ custom' = custom
      /\ UNCHANGED <<asks, data, asked, got, created, writer>>
  BY DEF BeginSeed, wizard
<1>. HIDE DEF d
<1>3. /\ doc' \in [Update -> Doc \cup {NoDoc}] /\ doc'[arrived'] = d
      /\ \A u \in Update \ {arrived'} : doc'[u] = doc[u]
  <2>1. doc \in [Update -> Doc \cup {NoDoc}] /\ arrived' \in Update
    BY <1>1 DEF Types, TypeOK, Enters
  <2>. DEFINE n == arrived'
  <2>. HIDE DEF n
  <2>2. doc' = [doc EXCEPT ![n] = d]
    BY <1>2 DEF n
  <2>. QED
    BY <1>0, <2>1, <2>2 DEF n
<1>4. Control'
  <2>. "seed" \in Kind /\ "seed" \notin WizardKind /\ "write" \in Label \ {"new"}
       /\ "write" \in StoreLabel /\ "write" \notin WizardLabel
    BY DEF Kind, WizardKind, StoreKind, Label, StoreLabel, WizardLabel
  <2>. QED
    BY <1>0, <1>1, <1>2, <1>3, EntersControl
<1>5. TypeOK'
  <2>1. arrived' \in 0..MaxUpdates
    <3>1. arrived' \in Update
      BY <1>1 DEF Enters
    <3>. QED
      BY <3>1, Constants
  <2>2. memory' \in [Process -> [Preset -> Doc \cup {NoDoc}]]
    BY <1>0, <1>2 DEF Types, TypeOK
  <2>. QED
    BY <2>1, <2>2, <1>1, <1>2, <1>3, <1>4, TypeOKFrom DEF Types, TypeOK, Enters
<1>6. Asking'
  <2>. asked' = asked /\ "write" \in StoreLabel
    BY DEF wizard, StoreLabel
  <2>. QED
    BY <1>1, AskingBesides
<1>. QED
  BY <1>1, <1>4, <1>5, <1>6 DEF Types

(* What a step of the wizard's handler changes besides its own purpose.    *)
Proceeds(u, label) ==
  /\ Goes(u, label)
  /\ label # "end" => asked'[u] = asked[u]
  /\ \A v \in Update \ {u} : asked'[v] = asked[v]
  /\ asked' \in [Update -> 0..LastField]
  /\ UNCHANGED <<row, memory, custom, doc, recalled, writer, unsynced, mixed>>

LEMMA StaysProceeds ==
  ASSUME Types, NEW u \in Update, NEW label \in Label, Stays(u, label)
  PROVE  Proceeds(u, label)
<1>1. Goes(u, label)
  BY ContinueGoes DEF Stays
<1>2. asked \in [Update -> 0..LastField] /\ 0 \in 0..LastField
  BY Constants DEF Types, TypeOK
<1>3. asked' = [asked EXCEPT ![u] = IF label = "end" THEN 0 ELSE @]
      /\ UNCHANGED <<row, memory, custom, doc, recalled, writer, unsynced, mixed>>
  BY DEF Stays, store
<1>. QED
  BY <1>1, <1>2, <1>3 DEF Proceeds

LEMMA KeepKeeps ==
  ASSUME Types, NEW u \in Update, NEW d \in Fields, Keep(u, d)
  PROVE  /\ got' \in [Update -> Fields] /\ got'[u] = d
         /\ \A v \in Update \ {u} : got'[v] = got[v]
BY DEF Types, TypeOK, Keep

LEMMA ProceedsTypes ==
  ASSUME Types, NEW u \in Update, NEW label \in WizardLabel \cup {"end"},
         pc[u] \in WizardLabel, Proceeds(u, label), created' = created,
         asks' \in 0..LastField, data' \in Fields, got' \in [Update -> Fields],
         AskingOf(u)'
  PROVE  Types'
<1>1. Control'
  <2>1. /\ label \in Label \ {"new"} /\ label \notin StoreLabel /\ pc[u] \notin StoreLabel
        /\ pc[u] \notin {"new", "end"}
    BY DEF Label, WizardLabel, StoreLabel
  <2>2. label # "write" /\ label # "read" /\ label # "erase"
    BY DEF WizardLabel
  <2>. QED
    BY <2>1, <2>2, GoesControl DEF Proceeds, Types, Control
<1>2. TypeOK'
  BY <1>1, TypeOKFrom DEF Types, TypeOK, Proceeds, Goes
<1>3. Asking'
  <2>. SUFFICES ASSUME NEW v \in Update \ {u} PROVE AskingOf(v)'
    BY DEF Asking
  <2>. QED
    BY DEF Types, Asking, AskingOf, Proceeds, Goes
<1>. QED
  BY <1>1, <1>2, <1>3 DEF Types

(* What the handler has before and after each await of the wizard.         *)
LEMMA GetDataTypes ==
  ASSUME Types, NEW u \in Update, GetData(u)
  PROVE  /\ Types' /\ pc[u] = "get" /\ UNCHANGED <<asks, data, created, raised>>
         /\ \A v \in Update \ {u} : got'[v] = got[v]
         /\ \/ /\ asked[u] = LastField /\ Proceeds(u, "clear") /\ got'[u] = data
            \/ /\ asked[u] # LastField /\ Proceeds(u, "set")
               /\ asked[u] \in 1..(LastField - 1) /\ got'[u] = [data EXCEPT ![asked[u]] = u]
<1>1. pc[u] = "get" /\ UNCHANGED <<asks, data, created, raised>>
  BY DEF GetData
<1>2. /\ what[u] = "text" /\ asked[u] # 0 /\ asked[u] \in 0..LastField /\ data \in Fields
      /\ asks \in 0..LastField
  BY <1>1 DEF Types, TypeOK, Asking, AskingOf
<1>3. CASE asked[u] = LastField
  <2>1. Proceeds(u, "clear") /\ Keep(u, data)
    BY <1>3, StaysProceeds DEF GetData, Label, WizardLabel
  <2>2. AskingOf(u)'
    BY <1>2, <1>3, <2>1 DEF Proceeds, Goes, AskingOf
  <2>. QED
    BY <1>1, <1>2, <1>3, <2>1, <2>2, KeepKeeps, ProceedsTypes DEF WizardLabel
<1>4. CASE asked[u] # LastField
  <2>. DEFINE d == [data EXCEPT ![asked[u]] = u]
  <2>1. asked[u] \in 1..(LastField - 1)
    BY <1>2, <1>4, Constants
  <2>2. d \in Fields
    <3>. u \in 0..MaxUpdates
      BY Constants
    <3>. QED
      BY <1>2, <2>1 DEF Fields
  <2>3. Proceeds(u, "set") /\ Keep(u, d)
    BY <1>4, StaysProceeds DEF GetData, Label, WizardLabel
  <2>. HIDE DEF d
  <2>4. AskingOf(u)'
    BY <1>2, <1>4, <2>3 DEF Proceeds, Goes, AskingOf
  <2>5. Types' /\ got'[u] = d /\ \A v \in Update \ {u} : got'[v] = got[v]
    BY <1>1, <1>2, <2>2, <2>3, <2>4, KeepKeeps, ProceedsTypes DEF WizardLabel
  <2>. QED
    BY <1>1, <1>4, <2>1, <2>3, <2>5 DEF d
<1>. QED
  BY <1>3, <1>4

LEMMA SetDataTypes ==
  ASSUME Types, NEW u \in Update, SetData(u)
  PROVE  /\ Types' /\ pc[u] = "set" /\ Proceeds(u, "turn") /\ data' = got[u]
         /\ \A v \in Update \ {u} : got'[v] = got[v]
         /\ UNCHANGED <<asks, created, raised>>
<1>1. pc[u] = "set" /\ data' = got[u] /\ UNCHANGED <<asks, created, raised>>
  BY DEF SetData
<1>2. what[u] = "text" /\ asked[u] # 0 /\ asked[u] # LastField /\ asks \in 0..LastField
      /\ got[u] \in Fields
  BY <1>1 DEF Types, TypeOK, Asking, AskingOf
<1>3. Proceeds(u, "turn") /\ Keep(u, NoFields)
  BY StaysProceeds DEF SetData, Label, WizardLabel
<1>4. AskingOf(u)'
  BY <1>2, <1>3 DEF Proceeds, Goes, AskingOf
<1>. QED
  BY <1>1, <1>2, <1>3, <1>4, KeepKeeps, ProceedsTypes, Constants DEF WizardLabel

LEMMA SetStateTypes ==
  ASSUME Types, NEW u \in Update, SetState(u)
  PROVE  /\ Types' /\ pc[u] = "turn" /\ Proceeds(u, "end") /\ asks' = asked[u] + 1
         /\ UNCHANGED <<data, got, created, raised>>
<1>1. pc[u] = "turn" /\ asks' = asked[u] + 1 /\ UNCHANGED <<data, got, created, raised>>
  BY DEF SetState
<1>2. asked[u] # LastField /\ asked[u] \in 0..LastField /\ data \in Fields
      /\ got \in [Update -> Fields]
  BY <1>1 DEF Types, TypeOK, Asking, AskingOf
<1>3. Proceeds(u, "end")
  BY StaysProceeds DEF SetState, Label
<1>4. AskingOf(u)'
  BY <1>3 DEF Proceeds, Goes, AskingOf
<1>5. asks' \in 0..LastField
  BY <1>1, <1>2, Constants
<1>. QED
  BY <1>1, <1>2, <1>3, <1>4, <1>5, ProceedsTypes DEF WizardLabel

LEMMA ClearStateTypes ==
  ASSUME Types, NEW u \in Update, ClearState(u)
  PROVE  /\ Types' /\ pc[u] = "clear" /\ Proceeds(u, "wipe") /\ asks' = 0
         /\ UNCHANGED <<data, got, created, raised>>
<1>1. pc[u] = "clear" /\ asks' = 0 /\ UNCHANGED <<data, got, created, raised>>
  BY DEF ClearState
<1>2. Proceeds(u, "wipe")
  BY StaysProceeds DEF ClearState, Label, WizardLabel
<1>3. AskingOf(u)'
  BY <1>1, <1>2 DEF Proceeds, Goes, Types, Asking, AskingOf
<1>4. asks' \in 0..LastField /\ data \in Fields /\ got \in [Update -> Fields]
  BY <1>1, Constants DEF Types, TypeOK
<1>. QED
  BY <1>1, <1>2, <1>3, <1>4, ProceedsTypes DEF WizardLabel

LEMMA RaiseTypes ==
  ASSUME Types, NEW u \in Update, Raise(u)
  PROVE  /\ Types' /\ pc[u] \in WizardLabel /\ Proceeds(u, "end") /\ raised' = raised \cup {u}
         /\ \A v \in Update \ {u} : got'[v] = got[v]
         /\ UNCHANGED <<asks, data, created>>
<1>1. pc[u] \in WizardLabel /\ raised' = raised \cup {u} /\ UNCHANGED <<asks, data, created>>
  BY DEF Raise, WizardLabel
<1>2. Proceeds(u, "end") /\ Keep(u, NoFields)
  BY StaysProceeds DEF Raise, Label
<1>3. AskingOf(u)'
  BY <1>2 DEF Proceeds, Goes, AskingOf
<1>. QED
  BY <1>1, <1>2, <1>3, KeepKeeps, ProceedsTypes, Constants DEF Types, TypeOK

(* The memory of process a takes document d for preset p.                  *)
Remembers(a, p, d) ==
  /\ memory'[a][p] = d
  /\ \A b \in Process, q \in Preset : b # a \/ q # p => memory'[b][q] = memory[b][q]

LEMMA RememberKeeps ==
  ASSUME Types, NEW a \in Process, NEW p \in Preset, NEW d \in Doc \cup {NoDoc},
         memory' = [memory EXCEPT ![a][p] = d]
  PROVE  memory' \in [Process -> [Preset -> Doc \cup {NoDoc}]] /\ Remembers(a, p, d)
<1>1. memory \in [Process -> [Preset -> Doc \cup {NoDoc}]]
  BY DEF Types, TypeOK
<1>2. memory' = [memory EXCEPT ![a] = [memory[a] EXCEPT ![p] = d]]
  BY <1>1
<1>. QED
  BY <1>1, <1>2 DEF Remembers

(* The end of a run of the wizard: the preset is made and its saving       *)
(* begins.                                                                 *)
Creates(u, p, d) ==
  /\ p \in Preset /\ d \in Doc /\ doc'[u] = d /\ Remembers(on[u], p, d)
  /\ \A v \in Update \ {u} : doc'[v] = doc[v]
  /\ arrived' = arrived /\ what' = what /\ crossed' = Crossing(u, {p})
  /\ pc'[u] = "write" /\ todo'[u] = <<p>> /\ on'[u] = on[u]
  /\ \A v \in Update \ {u} : pc'[v] = pc[v] /\ todo'[v] = todo[v] /\ on'[v] = on[v]
  /\ UNCHANGED <<row, custom, recalled, writer, unsynced, got, mixed>>
  /\ created' = created \cup {u} /\ what[u] = "text"
  /\ \A k \in 1..(LastField - 1) : got[u][k] # 0

LEMMA ClearDataTypes ==
  ASSUME Types, NEW u \in Update, ClearData(u)
  PROVE  /\ Types' /\ pc[u] = "wipe" /\ data' = NoFields /\ UNCHANGED <<asks, raised>>
         /\ \A v \in Update \ {u} : got'[v] = got[v]
         /\ \/ Proceeds(u, "end") /\ created' = created
            \/ \E p \in Preset, d \in Doc : Creates(u, p, d)
<1>1. pc[u] = "wipe" /\ data' = NoFields /\ UNCHANGED <<asks, raised>>
  BY DEF ClearData
<1>2. data \in Fields /\ asks \in 0..LastField /\ got \in [Update -> Fields] /\ NoFields \in Fields
  BY Constants DEF Types, TypeOK
<1>3. CASE Stays(u, "end") /\ Keep(u, NoFields) /\ UNCHANGED created
  <2>1. Proceeds(u, "end")
    BY <1>3, StaysProceeds DEF Label
  <2>2. AskingOf(u)'
    BY <2>1 DEF Proceeds, Goes, AskingOf
  <2>. QED
    BY <1>1, <1>2, <1>3, <2>1, <2>2, KeepKeeps, ProceedsTypes DEF WizardLabel
<1>4. ASSUME /\ what[u] = "text" /\ \A k \in DOMAIN data : got[u][k] # 0
             /\ created' = created \cup {u} /\ asked' = [asked EXCEPT ![u] = 0]
             /\ UNCHANGED <<arrived, left, what, on, row, custom, recalled, writer, unsynced,
                            got, mixed>>,
             NEW p \in Preset,
             /\ todo' = [todo EXCEPT ![u] = <<p>>] /\ pc' = [pc EXCEPT ![u] = "write"]
             /\ Saving(u, [text |-> u, active |-> TRUE])
             /\ Remember(u, p, [text |-> u, active |-> TRUE])
             /\ crossed' = Crossing(u, {p})
      PROVE  Types' /\ \E d \in Doc : Creates(u, p, d)
  <2>. DEFINE d == [text |-> u, active |-> TRUE]
  <2>1. d \in Doc
    BY Documents
  <2>2. doc' = [doc EXCEPT ![u] = d] /\ memory' = [memory EXCEPT ![on[u]][p] = d]
    BY <1>4 DEF Saving, Remember
  <2>. HIDE DEF d
  <2>3. on[u] \in Process /\ todo[u] = <<>>
    BY <1>1 DEF Types, Control, ControlOf, StoreLabel
  <2>4. memory' \in [Process -> [Preset -> Doc \cup {NoDoc}]] /\ Remembers(on[u], p, d)
    BY <2>1, <2>2, <2>3, RememberKeeps
  <2>5. /\ doc' \in [Update -> Doc \cup {NoDoc}] /\ doc'[u] = d
        /\ \A v \in Update \ {u} : doc'[v] = doc[v]
    BY <2>1, <2>2 DEF Types, TypeOK
  <2>6. DOMAIN data = 1..(LastField - 1)
    BY <1>2 DEF Fields
  <2>7. /\ pc'[u] = "write" /\ todo'[u] = <<p>> /\ on'[u] = on[u]
        /\ \A v \in Update \ {u} : pc'[v] = pc[v] /\ todo'[v] = todo[v] /\ on'[v] = on[v]
        /\ pc' \in [Update -> Label] /\ DOMAIN todo' = Update
    BY <1>4 DEF Types, Control, Label, StoreLabel
  <2>8. Creates(u, p, d)
    BY <1>1, <1>4, <2>1, <2>4, <2>5, <2>6, <2>7 DEF Creates
  <2>9. Control'
    <3>1. ControlOf(u)'
      BY <1>1, <1>4, <2>1, <2>3, <2>5, <2>7, OneAtHand
         DEF Types, Control, ControlOf, StoreLabel, WizardLabel
    <3>2. \A v \in Update \ {u} : ControlOf(v)'
      BY <1>4, <2>5, <2>7 DEF Types, Control, ControlOf
    <3>. QED
      BY <1>4, <2>7, <3>1, <3>2 DEF Control, Types
  <2>10. asked' \in [Update -> 0..LastField] /\ \A v \in Update \ {u} : asked'[v] = asked[v]
    BY <1>4, Constants DEF Types, TypeOK
  <2>11. TypeOK'
    BY <1>1, <1>2, <1>4, <2>4, <2>5, <2>9, <2>10, TypeOKFrom DEF Types, TypeOK
  <2>12. Asking'
    <3>1. AskingOf(u)'
      BY <2>7 DEF AskingOf
    <3>2. \A v \in Update \ {u} : AskingOf(v)'
      BY <1>4, <2>7, <2>10 DEF Types, Asking, AskingOf
    <3>. QED
      BY <3>1, <3>2 DEF Asking
  <2>. QED
    BY <2>1, <2>8, <2>9, <2>11, <2>12 DEF Types
<1>5. \/ Stays(u, "end") /\ Keep(u, NoFields) /\ UNCHANGED created
      \/ /\ what[u] = "text" /\ \A k \in DOMAIN data : got[u][k] # 0
         /\ created' = created \cup {u} /\ asked' = [asked EXCEPT ![u] = 0]
         /\ UNCHANGED <<arrived, left, what, on, row, custom, recalled, writer, unsynced,
                        got, mixed>>
         /\ \E p \in Preset :
              /\ todo' = [todo EXCEPT ![u] = <<p>>] /\ pc' = [pc EXCEPT ![u] = "write"]
              /\ Saving(u, [text |-> u, active |-> TRUE])
              /\ Remember(u, p, [text |-> u, active |-> TRUE])
              /\ crossed' = Crossing(u, {p})
  BY DEF ClearData
<1>6. CASE Types' /\ \E p \in Preset, d \in Doc : Creates(u, p, d)
  BY <1>1, <1>6 DEF Creates
<1>. QED
  BY <1>3, <1>4, <1>5, <1>6

(* A query writes or deletes the row of the preset at hand, or fails.      *)
Queries(u, new) ==
  LET p == Head(todo[u])
  IN  /\ \/ /\ row'[p] = new /\ writer'[p] = on[u]
            /\ \A q \in Preset \ {p} : row'[q] = row[q] /\ writer'[q] = writer[q]
            /\ unsynced' = unsynced \ {<<on[u], p>>}
         \/ /\ UNCHANGED <<row, writer>>
            /\ unsynced' = unsynced \cup {<<on[u], p>>}

Reads(u) ==
  LET p == Head(todo[u])
  IN  /\ UNCHANGED <<row, custom, writer, unsynced>>
      /\ \A v \in Update \ {u} : v \in recalled' <=> v \in recalled
      /\ \A v \in Update \ {u} : doc'[v] = doc[v]
      /\ \/ Goes(u, "end") /\ memory' = memory
         \/ \E d \in Doc :
              /\ Goes(u, "write") /\ doc'[u] = d /\ Remembers(on[u], p, d)
              /\ u \in recalled' \/ d.text = row[p].text
              /\ row[p] = NoDoc => memory[on[u]][p] # NoDoc

LEMMA AtWorkOn ==
  ASSUME Types, NEW u \in Update, pc[u] \in StoreLabel
  PROVE  /\ todo[u] # <<>> /\ todo[u] \in Seq(Preset) /\ Head(todo[u]) \in Preset
         /\ on[u] \in Process /\ pc[u] \notin {"new", "end"}
BY HeadAtHand DEF Types, Control, ControlOf, StoreLabel

(* The steps of the store leave the wizard to itself.                      *)
LEMMA StoreTypes ==
  ASSUME Types, NEW u \in Update, UNCHANGED wizard, Control',
         what' = what, arrived' = arrived, \A v \in Update \ {u} : pc'[v] = pc[v],
         pc'[u] \in StoreLabel \cup {"end"},
         on' \in [Update -> Process \cup {NoProcess}],
         row' \in [Preset -> Doc \cup {NoDoc}],
         memory' \in [Process -> [Preset -> Doc \cup {NoDoc}]],
         custom' = custom, doc' \in [Update -> Doc \cup {NoDoc}]
  PROVE  Types'
<1>1. TypeOK'
  BY TypeOKFrom DEF Types, TypeOK, wizard
<1>2. Asking'
  BY AskingKept DEF Asking, wizard
<1>. QED
  BY <1>1, <1>2 DEF Types

LEMMA ReadRowTypes ==
  ASSUME Types, NEW u \in Update, ReadRow(u), UNCHANGED wizard
  PROVE  Types' /\ pc[u] = "read" /\ Reads(u)
<1>. DEFINE p == Head(todo[u])
            a == on[u]
            Change(d) == [d EXCEPT !.active = what[u] = "enable"]
            Take(d) == \/ d = NoDoc /\ Continue(u, "end") /\ memory' = memory /\ doc' = doc
                       \/ /\ d # NoDoc /\ Continue(u, "write") /\ Saving(u, Change(d))
                          /\ Remember(u, p, Change(d))
<1>1. pc[u] = "read" /\ pc[u] \in StoreLabel /\ UNCHANGED <<row, custom, writer, unsynced>>
  BY DEF ReadRow, StoreLabel
<1>2. p \in Preset /\ a \in Process /\ pc[u] \notin {"new", "end"}
  BY <1>1, AtWorkOn
<1>3. row[p] \in Doc \cup {NoDoc} /\ memory[a][p] \in Doc \cup {NoDoc}
  BY <1>2 DEF Types, TypeOK
<1>4. /\ \/ Take(row[p]) /\ recalled' = recalled
         \/ Take(memory[a][p]) /\ recalled' = recalled \cup {u}
  BY DEF ReadRow
<1>5. PICK d \in {row[p], memory[a][p]} :
        /\ Take(d) /\ (d = row[p] \/ u \in recalled')
        /\ \A v \in Update \ {u} : v \in recalled' <=> v \in recalled
  BY <1>4
<1>6. CASE d = NoDoc
  <2>1. Goes(u, "end") /\ memory' = memory /\ doc' = doc
    BY <1>3, <1>5, <1>6, ContinueGoes DEF Label
  <2>2. Reads(u)
    BY <1>1, <1>5, <2>1 DEF Reads
  <2>3. Control'
    BY <1>1, <1>2, <2>1, GoesControl DEF Label, wizard, Types, Control
  <2>. QED
    BY <1>1, <2>1, <2>2, <2>3, StoreTypes DEF Types, TypeOK, Goes
<1>7. CASE d # NoDoc
  <2>. DEFINE e == Change(d)
  <2>1. d \in Doc /\ e \in Doc /\ e.text = d.text
    BY <1>3, <1>5, <1>7, Documents
  <2>2. /\ Continue(u, "write") /\ doc' = [doc EXCEPT ![u] = e]
        /\ memory' = [memory EXCEPT ![a][p] = e]
    BY <1>5, <1>7 DEF Saving, Remember
  <2>. HIDE DEF e
  <2>3. Goes(u, "write")
    BY <2>2, ContinueGoes DEF Label, StoreLabel
  <2>4. memory' \in [Process -> [Preset -> Doc \cup {NoDoc}]] /\ Remembers(a, p, e)
    BY <1>2, <2>1, <2>2, RememberKeeps
  <2>5. /\ doc' \in [Update -> Doc \cup {NoDoc}] /\ doc'[u] = e
        /\ \A v \in Update \ {u} : doc'[v] = doc[v]
    BY <2>1, <2>2 DEF Types, TypeOK
  <2>6. /\ u \in recalled' \/ e.text = row[p].text
        /\ row[p] = NoDoc => memory[a][p] # NoDoc
    BY <1>5, <1>7, <2>1
  <2>7. Reads(u)
    BY <1>1, <1>5, <2>1, <2>3, <2>4, <2>5, <2>6 DEF Reads
  <2>8. Control'
    BY <1>1, <1>2, <2>1, <2>3, <2>5, GoesControl DEF Label, StoreLabel, wizard, Types, Control
  <2>. QED
    BY <1>1, <2>3, <2>4, <2>5, <2>7, <2>8, StoreTypes DEF Types, TypeOK, Goes, StoreLabel
<1>. QED
  BY <1>6, <1>7

LEMMA QueryQueries ==
  ASSUME Types, NEW u \in Update, pc[u] \in StoreLabel, NEW new \in Doc \cup {NoDoc}, Query(u, new)
  PROVE  /\ Queries(u, new) /\ row' \in [Preset -> Doc \cup {NoDoc}]
         /\ DOMAIN writer' = Preset
<1>1. Head(todo[u]) \in Preset /\ row \in [Preset -> Doc \cup {NoDoc}]
  BY AtWorkOn DEF Types, TypeOK
<1>2. DOMAIN writer = Preset
  BY DEF Types, Control
<1>. QED
  BY <1>1, <1>2 DEF Query, Queries

LEMMA EraseRowTypes ==
  ASSUME Types, NEW u \in Update, EraseRow(u), UNCHANGED wizard
  PROVE  /\ Types' /\ pc[u] = "erase" /\ Goes(u, "end") /\ Queries(u, NoDoc)
         /\ UNCHANGED <<memory, custom, doc, recalled>>
<1>1. pc[u] = "erase" /\ pc[u] \in StoreLabel /\ Query(u, NoDoc) /\ Continue(u, "end")
      /\ UNCHANGED <<memory, custom, doc, recalled>>
  BY DEF EraseRow, StoreLabel
<1>2. /\ Queries(u, NoDoc) /\ row' \in [Preset -> Doc \cup {NoDoc}] /\ Goes(u, "end")
      /\ DOMAIN writer' = Preset
  BY <1>1, QueryQueries, ContinueGoes DEF Label
<1>3. Control'
  BY <1>1, <1>2, AtWorkOn, GoesControl DEF Label, wizard
<1>. QED
  BY <1>1, <1>2, <1>3, StoreTypes DEF Types, TypeOK, Goes

(* The document is saved, and the next preset of a seed is taken up.       *)
Writes(u) ==
  /\ Queries(u, doc[u]) /\ UNCHANGED <<custom, recalled>>
  /\ \/ /\ Goes(u, "end") /\ memory' = memory
        /\ \A v \in Update \ {u} : doc'[v] = doc[v]
     \/ LET s == todo[u]
        IN /\ s # <<>> /\ Len(s) # 1 /\ todo'[u] = Tail(s)
           /\ Remembers(on[u], Head(Tail(s)), doc[u])
           /\ \A v \in Update \ {u} : todo'[v] = todo[v]
           /\ UNCHANGED <<arrived, what, on, pc, doc, crossed>>

LEMMA WriteRowTypes ==
  ASSUME Types, NEW u \in Update, WriteRow(u), UNCHANGED wizard
  PROVE  Types' /\ pc[u] = "write" /\ Writes(u)
<1>1. pc[u] = "write" /\ pc[u] \in StoreLabel /\ Query(u, doc[u]) /\ UNCHANGED <<custom, recalled>>
  BY DEF WriteRow, StoreLabel
<1>2. doc[u] \in Doc /\ doc \in [Update -> Doc \cup {NoDoc}]
  BY <1>1 DEF Types, TypeOK, Control, ControlOf
<1>3. /\ Queries(u, doc[u]) /\ row' \in [Preset -> Doc \cup {NoDoc}] /\ DOMAIN writer' = Preset
      /\ todo[u] # <<>> /\ todo[u] \in Seq(Preset) /\ on[u] \in Process
      /\ pc[u] \notin {"new", "end"}
  BY <1>1, <1>2, QueryQueries, AtWorkOn
<1>4. CASE Len(todo[u]) = 1
  <2>1. Continue(u, "end") /\ doc' = [doc EXCEPT ![u] = NoDoc] /\ memory' = memory
    BY <1>4 DEF WriteRow, Saving
  <2>2. Goes(u, "end")
    BY <2>1, ContinueGoes DEF Label
  <2>3. /\ doc' \in [Update -> Doc \cup {NoDoc}]
        /\ \A v \in Update \ {u} : doc'[v] = doc[v]
    BY <1>2, <2>1
  <2>4. Control'
    BY <1>3, <2>2, <2>3, GoesControl DEF Label, wizard
  <2>5. Writes(u)
    BY <1>1, <1>3, <2>1, <2>2, <2>3 DEF Writes
  <2>. QED
    BY <1>1, <1>3, <2>1, <2>2, <2>3, <2>4, <2>5, StoreTypes DEF Types, TypeOK, Goes
<1>5. CASE Len(todo[u]) # 1
  <2>. DEFINE s == todo[u]
  <2>1. /\ todo' = [todo EXCEPT ![u] = Tail(s)]
        /\ memory' = [memory EXCEPT ![on[u]][s[2]] = doc[u]]
        /\ UNCHANGED <<arrived, left, what, on, pc, doc, crossed>>
    BY <1>5 DEF WriteRow, Remember
  <2>2. /\ Tail(s) \in Seq(Preset) /\ Tail(s) # <<>> /\ Head(Tail(s)) = s[2] /\ s[2] \in Preset
    <3>1. Tail(s) \in Seq(Preset) /\ Tail(s) # <<>> /\ Head(Tail(s)) = s[2]
      BY <1>3, <1>5, HeadAtHand
    <3>. QED
      BY <3>1, HeadAtHand
  <2>. HIDE DEF s
  <2>3. memory' \in [Process -> [Preset -> Doc \cup {NoDoc}]] /\ Remembers(on[u], s[2], doc[u])
    BY <1>2, <1>3, <2>1, <2>2, RememberKeeps
  <2>4. /\ todo'[u] = Tail(s) /\ DOMAIN todo' = Update
        /\ \A v \in Update \ {u} : todo'[v] = todo[v]
    BY <2>1 DEF Types, Control
  <2>5. Writes(u)
    BY <1>1, <1>3, <1>5, <2>1, <2>2, <2>3, <2>4 DEF Writes, s
  <2>6. Control'
    <3>1. ControlOf(u)'
      BY <1>1, <1>3, <2>1, <2>2, <2>4 DEF Types, Control, ControlOf
    <3>2. \A v \in Update \ {u} : ControlOf(v)'
      BY <2>1, <2>4 DEF Types, Control, ControlOf
    <3>. QED
      BY <1>3, <2>1, <2>4, <3>1, <3>2 DEF Types, Control, wizard
  <2>. QED
    BY <1>1, <1>2, <1>3, <2>1, <2>3, <2>5, <2>6, StoreTypes DEF Types, TypeOK
<1>. QED
  BY <1>4, <1>5

-----------------------------------------------------------------------------
(* The memory and the table.                                               *)
Toggle == {"enable", "disable"}

(* Handlers that share a preset have crossed.                              *)
Alone ==
  \A p \in Preset : p \notin crossed =>
    \A u, v \in Update : p \in Touched(u) /\ p \in Touched(v) => u = v

(* The memory of a may differ from the row, although nothing crossed.      *)
Apart(a, p) == writer[p] \notin {a, NoProcess} \/ <<a, p>> \in unsynced

(* Unless another handler works on it too, the process remembers the       *)
(* preset as the handler is about to leave it in the table; a toggle       *)
(* writes the text of the row, unless it took what the process remembers,  *)
(* and makes a row only if that was apart from the table.                  *)
HandOf(u, p) ==
  /\ pc[u] = "write" => memory[on[u]][p] = doc[u]
  /\ pc[u] = "erase" => memory[on[u]][p] = NoDoc /\ p \notin custom[on[u]]
  /\ pc[u] = "write" /\ what[u] \in Toggle /\ u \notin recalled => doc[u].text = row[p].text
  /\ pc[u] = "write" /\ what[u] \in Toggle /\ row[p] = NoDoc => Apart(on[u], p)
Hand(u) ==
  todo[u] # <<>> => /\ Head(todo[u]) \notin crossed => HandOf(u, Head(todo[u]))
                    /\ what[u] \in Toggle => Len(todo[u]) = 1

(* While a process is about to change a row, its memory is ahead of it.    *)
Changing(a, p) ==
  \E u \in Update : pc[u] \in {"write", "erase"} /\ on[u] = a /\ Head(todo[u]) = p
Matches(a, p) ==
  ~Apart(a, p) /\ p \notin crossed /\ ~Changing(a, p)
    => memory[a][p] = row[p] /\ (writer[p] = a /\ row[p] = NoDoc => p \notin custom[a])

StoreOK ==
  /\ Alone
  /\ \A u \in Update : Hand(u)
  /\ \A a \in Process, p \in Preset : Matches(a, p)

LEMMA InitStoreOK == Init => StoreOK
<1>. SUFFICES ASSUME Init PROVE StoreOK
  OBVIOUS
<1>1. /\ \A u \in Update : todo[u] = <<>>
      /\ \A p \in Preset : writer[p] = NoProcess
      /\ \A a \in Process, p \in Preset : memory[a][p] = row[p]
  BY DEF Init, StoreInit
<1>2. Alone
  BY <1>1, NoneAtHand DEF Alone, Touched
<1>3. \A u \in Update : Hand(u)
  BY <1>1 DEF Hand
<1>4. \A a \in Process, p \in Preset : Matches(a, p)
  BY <1>1, Constants DEF Matches
<1>. QED
  BY <1>2, <1>3, <1>4 DEF StoreOK

LEMMA TouchedHead ==
  ASSUME Types, NEW u \in Update
  PROVE  /\ todo[u] # <<>> => Head(todo[u]) \in Touched(u) /\ u \in Running /\ pc[u] \in StoreLabel
         /\ todo[u] = <<>> => Touched(u) = {} /\ pc[u] \notin StoreLabel
         /\ Touched(u) \subseteq Preset
<1>1. todo[u] \in Seq(Preset) /\ (pc[u] \in StoreLabel <=> todo[u] # <<>>)
  BY DEF Types, Control, ControlOf
<1>2. todo[u] # <<>> => Head(todo[u]) \in Touched(u) /\ Touched(u) \subseteq Preset
  BY <1>1, HeadAtHand DEF Touched
<1>3. todo[u] = <<>> => Touched(u) = {}
  BY NoneAtHand DEF Touched
<1>4. todo[u] # <<>> => u \in Running
  BY <1>1 DEF Running, StoreLabel
<1>. QED
  BY <1>1, <1>2, <1>3, <1>4

(* A step that takes nothing up and changes no document.                   *)
LEMMA StoreIdle ==
  ASSUME Types, StoreOK,
         UNCHANGED <<row, memory, custom, writer, unsynced, recalled, crossed>>,
         \A v \in Update : todo'[v] = todo[v],
         \A v \in Update : todo[v] # <<>> =>
           pc'[v] = pc[v] /\ on'[v] = on[v] /\ what'[v] = what[v] /\ doc'[v] = doc[v],
         \A v \in Update : todo[v] = <<>> => pc'[v] \notin StoreLabel
  PROVE  StoreOK'
<1>1. \A v \in Update : todo[v] = <<>> <=> pc[v] \notin StoreLabel
  BY DEF Types, Control, ControlOf
<1>2. \A v \in Update : Touched(v)' = Touched(v)
  BY DEF Touched
<1>3. Alone'
  BY <1>2 DEF StoreOK, Alone
<1>4. \A v \in Update : Hand(v)'
  BY <1>1 DEF StoreOK, Hand, HandOf, Apart
<1>5. ASSUME NEW a \in Process, NEW p \in Preset PROVE Matches(a, p)'
  <2>1. Changing(a, p)' <=> Changing(a, p)
    BY <1>1 DEF Changing, StoreLabel
  <2>. QED
    BY <2>1 DEF StoreOK, Matches, Apart
<1>. QED
  BY <1>3, <1>4, <1>5 DEF StoreOK

(* A handler takes presets up.                                             *)
LEMMA StoreTakesUp ==
  ASSUME Types, Types', StoreOK, NEW n \in Update, NEW a \in Process, NEW p \in Preset,
         todo[n] = <<>>, todo'[n] # <<>>, p = Head(todo'[n]), on'[n] = a,
         what'[n] \in Toggle => Len(todo'[n]) = 1,
         \A v \in Update \ {n} : todo'[v] = todo[v] /\ pc'[v] = pc[v] /\ on'[v] = on[v]
                                 /\ what'[v] = what[v] /\ doc'[v] = doc[v],
         crossed' = Crossing(n, Touched(n)'),
         UNCHANGED <<row, writer, unsynced, recalled>>,
         pc'[n] = "read" => memory' = memory /\ custom' = custom,
         pc'[n] = "write" => /\ Remembers(a, p, doc'[n]) /\ custom' = custom
                             /\ what'[n] \notin Toggle,
         pc'[n] = "erase" => /\ Remembers(a, p, NoDoc) /\ p \notin custom'[a]
                             /\ \A b \in Process, q \in Preset :
                                  b # a \/ q # p => (q \in custom'[b] <=> q \in custom[b])
  PROVE  StoreOK'
<1>1. pc'[n] \in {"read", "write", "erase"} /\ p \in Touched(n)'
  <2>1. todo'[n] \in Seq(Preset) /\ pc'[n] \in StoreLabel
    BY DEF Types, Control, ControlOf
  <2>. QED
    BY <2>1, HeadAtHand DEF Touched, StoreLabel
<1>2. /\ Touched(n) = {} /\ pc[n] \notin StoreLabel
      /\ \A v \in Update : todo[v] # <<>> => v \in Running
  BY TouchedHead
<1>3. \A v \in Update \ {n} : Touched(v)' = Touched(v)
  BY DEF Touched
<1>4. \A q \in Preset : q \notin crossed' =>
        /\ q \notin crossed
        /\ q \in Touched(n)' => \A v \in Update \ {n} : q \notin Touched(v)
  BY TouchedHead DEF Crossing
<1>5. Alone'
  BY <1>2, <1>3, <1>4 DEF StoreOK, Alone
<1>6. ASSUME NEW v \in Update \ {n} PROVE Hand(v)'
  <2>. SUFFICES ASSUME todo[v] # <<>>
                PROVE  /\ Head(todo[v]) \notin crossed' => HandOf(v, Head(todo[v]))'
                       /\ what[v] \in Toggle => Len(todo[v]) = 1
    BY DEF Hand
  <2>. DEFINE q == Head(todo[v])
  <2>1. q \in Touched(v) /\ q \in Preset /\ pc[v] \in StoreLabel
    BY TouchedHead
  <2>2. what[v] \in Toggle => Len(todo[v]) = 1
    BY DEF StoreOK, Hand
  <2>3. ASSUME q \notin crossed' PROVE HandOf(v, q)'
    <3>1. q # p /\ q \notin crossed
      BY <1>1, <1>4, <2>1, <2>3
    <3>2. HandOf(v, q)
      BY <3>1 DEF StoreOK, Hand
    <3>3. on[v] \in Process
      BY <2>1, AtWorkOn
    <3>4. memory'[on[v]][q] = memory[on[v]][q] /\ (q \in custom'[on[v]] <=> q \in custom[on[v]])
      BY <1>1, <2>1, <3>1, <3>3 DEF Remembers
    <3>5. on'[v] = on[v] /\ pc'[v] = pc[v] /\ doc'[v] = doc[v] /\ what'[v] = what[v]
          /\ todo'[v] = todo[v]
          /\ row' = row /\ recalled' = recalled /\ writer' = writer /\ unsynced' = unsynced
      OBVIOUS
    <3>. QED
      BY <3>2, <3>4, <3>5 DEF HandOf, Apart
  <2>. QED
    BY <2>2, <2>3
<1>7. Hand(n)'
  BY <1>1 DEF Hand, HandOf, Remembers
<1>8. ASSUME NEW b \in Process, NEW q \in Preset PROVE Matches(b, q)'
  <2>1. Changing(b, q) => Changing(b, q)'
    BY <1>2 DEF Changing, StoreLabel
  <2>2. pc'[n] # "read" /\ b = a /\ q = p => Changing(b, q)'
    BY <1>1 DEF Changing
  <2>3. ~Changing(b, q)' => /\ memory'[b][q] = memory[b][q]
                            /\ q \in custom'[b] <=> q \in custom[b]
    BY <1>1, <2>2 DEF Remembers
  <2>4. q \notin crossed' => q \notin crossed
    BY <1>4
  <2>5. Matches(b, q)
    BY DEF StoreOK
  <2>. QED
    BY <2>1, <2>3, <2>4, <2>5 DEF Matches, Apart
<1>. QED
  BY <1>5, <1>6, <1>7, <1>8 DEF StoreOK

(* A handler goes on or is over: presets are touched by nobody new, and    *)
(* the other handlers, whose presets differ or have crossed, see nothing.  *)
LEMMA StoreOthers ==
  ASSUME Types, StoreOK, NEW u \in Update, NEW p \in Preset, NEW q \in Preset,
         p \in Touched(u), q \in Touched(u),
         Touched(u)' \subseteq Touched(u), crossed' = crossed,
         \A v \in Update \ {u} : todo'[v] = todo[v] /\ pc'[v] = pc[v] /\ on'[v] = on[v]
                                 /\ what'[v] = what[v] /\ doc'[v] = doc[v]
                                 /\ (v \in recalled' <=> v \in recalled),
         \A a \in Process, r \in Preset : r # q => memory'[a][r] = memory[a][r],
         \A r \in Preset : r # p => /\ row'[r] = row[r] /\ writer'[r] = writer[r]
                                   /\ \A a \in Process :
                                        <<a, r>> \in unsynced' <=> <<a, r>> \in unsynced,
         custom' = custom
  PROVE  Alone' /\ \A v \in Update \ {u} : Hand(v)'
<1>1. \A v \in Update \ {u} : Touched(v)' = Touched(v)
  BY DEF Touched
<1>2. Alone'
  BY <1>1 DEF StoreOK, Alone
<1>3. ASSUME NEW v \in Update \ {u} PROVE Hand(v)'
  <2>. SUFFICES ASSUME todo[v] # <<>>
                PROVE  /\ Head(todo[v]) \notin crossed => HandOf(v, Head(todo[v]))'
                       /\ what[v] \in Toggle => Len(todo[v]) = 1
    BY DEF Hand
  <2>. DEFINE h == Head(todo[v])
  <2>1. h \in Touched(v) /\ h \in Preset /\ pc[v] \in StoreLabel
    BY TouchedHead
  <2>2. what[v] \in Toggle => Len(todo[v]) = 1
    BY DEF StoreOK, Hand
  <2>3. ASSUME h \notin crossed PROVE HandOf(v, h)'
    <3>1. h # p /\ h # q
      BY <2>1, <2>3 DEF StoreOK, Alone
    <3>2. HandOf(v, h)
      BY <2>3 DEF StoreOK, Hand
    <3>3. on[v] \in Process
      BY <2>1, AtWorkOn
    <3>4. /\ memory'[on[v]][h] = memory[on[v]][h] /\ row'[h] = row[h]
          /\ writer'[h] = writer[h] /\ (<<on[v], h>> \in unsynced' <=> <<on[v], h>> \in unsynced)
      BY <2>1, <3>1, <3>3
    <3>5. on'[v] = on[v] /\ pc'[v] = pc[v] /\ doc'[v] = doc[v] /\ what'[v] = what[v]
          /\ todo'[v] = todo[v] /\ custom' = custom /\ (v \in recalled' <=> v \in recalled)
      OBVIOUS
    <3>. QED
      BY <3>2, <3>4, <3>5 DEF HandOf, Apart
  <2>. QED
    BY <2>2, <2>3
<1>. QED
  BY <1>2, <1>3

LEMMA StoreReads ==
  ASSUME Types, Types', StoreOK, NEW u \in Update, pc[u] = "read", Reads(u)
  PROVE  StoreOK'
<1>. DEFINE p == Head(todo[u])
<1>1. /\ p \in Touched(u) /\ p \in Preset /\ on[u] \in Process /\ todo[u] # <<>>
      /\ Touched(u) \subseteq Preset
  BY TouchedHead, AtWorkOn DEF StoreLabel
<1>2. /\ UNCHANGED <<row, custom, writer, unsynced>>
      /\ \A v \in Update \ {u} : v \in recalled' <=> v \in recalled
      /\ \A v \in Update \ {u} : doc'[v] = doc[v]
  BY DEF Reads
<1>3. CASE Goes(u, "end") /\ memory' = memory
  <2>1. Touched(u)' \subseteq Touched(u) /\ todo'[u] = <<>> /\ crossed' = crossed
    BY <1>3, NoneAtHand DEF Goes, Touched
  <2>2. Alone' /\ \A v \in Update \ {u} : Hand(v)'
    <3>1. \A v \in Update \ {u} : todo'[v] = todo[v] /\ pc'[v] = pc[v] /\ on'[v] = on[v]
                                 /\ what'[v] = what[v]
      BY <1>3 DEF Goes
    <3>. HIDE DEF p
    <3>. QED
      BY <1>1, <1>2, <1>3, <2>1, <3>1, StoreOthers
  <2>3. Hand(u)'
    BY <2>1 DEF Hand
  <2>4. ASSUME NEW b \in Process, NEW q \in Preset PROVE Matches(b, q)'
    <3>1. Changing(b, q)' <=> Changing(b, q)
      BY <1>3 DEF Changing, Goes
    <3>. QED
      BY <1>2, <1>3, <2>1, <3>1 DEF StoreOK, Matches, Apart
  <2>. QED
    BY <2>2, <2>3, <2>4 DEF StoreOK
<1>4. ASSUME NEW d \in Doc, Goes(u, "write"), doc'[u] = d, Remembers(on[u], p, d),
             u \in recalled' \/ d.text = row[p].text,
             row[p] = NoDoc => memory[on[u]][p] # NoDoc
      PROVE  StoreOK'
  <2>1. /\ todo'[u] = todo[u] /\ crossed' = crossed /\ on'[u] = on[u] /\ pc'[u] = "write"
        /\ what' = what
        /\ \A v \in Update \ {u} : todo'[v] = todo[v] /\ pc'[v] = pc[v] /\ on'[v] = on[v]
                                 /\ what'[v] = what[v]
    BY <1>4 DEF Goes
  <2>2. Touched(u)' = Touched(u)
    BY <2>1 DEF Touched
  <2>3. Alone' /\ \A v \in Update \ {u} : Hand(v)'
    <3>1. \A a \in Process, r \in Preset : r # p => memory'[a][r] = memory[a][r]
      BY <1>4 DEF Remembers
    <3>. HIDE DEF p
    <3>. QED
      BY <1>1, <1>2, <2>1, <2>2, <3>1, StoreOthers
  <2>4. Hand(u)'
    <3>1. memory'[on'[u]][p] = doc'[u] /\ row' = row
      BY <1>2, <1>4, <2>1 DEF Remembers
    <3>2. what[u] \in Toggle => Len(todo[u]) = 1
      BY <1>1 DEF StoreOK, Hand
    <3>3. ASSUME p \notin crossed, row[p] = NoDoc PROVE Apart(on[u], p)'
      <4>1. ~Changing(on[u], p)
        <5>. SUFFICES ASSUME NEW v \in Update, pc[v] \in {"write", "erase"}, Head(todo[v]) = p
                      PROVE  FALSE
          BY DEF Changing
        <5>1. p \in Touched(v)
          BY TouchedHead, AtWorkOn DEF StoreLabel
        <5>. QED
          BY <1>1, <3>3, <5>1 DEF StoreOK, Alone
      <4>2. Matches(on[u], p)
        BY <1>1 DEF StoreOK
      <4>. QED
        BY <1>2, <1>4, <2>1, <3>3, <4>1, <4>2 DEF Matches, Apart
    <3>. QED
      BY <1>4, <2>1, <3>1, <3>2, <3>3 DEF Hand, HandOf
  <2>5. ASSUME NEW b \in Process, NEW q \in Preset PROVE Matches(b, q)'
    <3>1. Changing(b, q) => Changing(b, q)'
      BY <2>1 DEF Changing
    <3>2. b = on[u] /\ q = p => Changing(b, q)'
      BY <2>1 DEF Changing
    <3>3. b # on[u] \/ q # p => memory'[b][q] = memory[b][q]
      BY <1>4 DEF Remembers
    <3>. QED
      BY <1>2, <2>1, <3>1, <3>2, <3>3 DEF StoreOK, Matches, Apart
  <2>. QED
    BY <2>3, <2>4, <2>5 DEF StoreOK
<1>. QED
  BY <1>3, <1>4 DEF Reads

(* The last query of a handler.                                            *)
LEMMA StoreEnds ==
  ASSUME Types, Types', StoreOK, NEW u \in Update, NEW new,
         pc[u] \in {"write", "erase"}, Queries(u, new), Goes(u, "end"),
         new = IF pc[u] = "write" THEN doc[u] ELSE NoDoc,
         UNCHANGED <<memory, custom, recalled>>,
         \A v \in Update \ {u} : doc'[v] = doc[v]
  PROVE  StoreOK'
<1>. DEFINE p == Head(todo[u])
<1>1. /\ p \in Touched(u) /\ p \in Preset /\ on[u] \in Process /\ todo[u] # <<>>
  BY TouchedHead, AtWorkOn DEF StoreLabel
<1>2. /\ Touched(u)' \subseteq Touched(u) /\ todo'[u] = <<>> /\ crossed' = crossed
      /\ pc'[u] = "end"
      /\ \A v \in Update \ {u} : todo'[v] = todo[v] /\ pc'[v] = pc[v] /\ on'[v] = on[v]
                                 /\ what'[v] = what[v]
  BY NoneAtHand DEF Goes, Touched
<1>3. \A r \in Preset : r # p => /\ row'[r] = row[r] /\ writer'[r] = writer[r]
                                 /\ \A a \in Process :
                                      <<a, r>> \in unsynced' <=> <<a, r>> \in unsynced
  BY DEF Queries
<1>4. Alone' /\ \A v \in Update \ {u} : Hand(v)'
  <2>. HIDE DEF p
  <2>. QED
    BY <1>1, <1>2, <1>3, StoreOthers
<1>5. Hand(u)'
  BY <1>2 DEF Hand
<1>6. p \notin crossed => memory[on[u]][p] = new /\ (new = NoDoc => p \notin custom[on[u]])
  <2>1. p \notin crossed => HandOf(u, p)
    BY <1>1 DEF StoreOK, Hand
  <2>2. pc[u] = "write" => doc[u] # NoDoc
    BY DEF Types, TypeOK
  <2>. QED
    BY <2>1, <2>2 DEF HandOf
<1>7. ASSUME NEW b \in Process, NEW q \in Preset PROVE Matches(b, q)'
  <2>1. b # on[u] \/ q # p => (Changing(b, q) => Changing(b, q)')
    BY <1>2 DEF Changing
  <2>2. CASE q # p
    BY <1>2, <1>3, <2>1, <2>2 DEF StoreOK, Matches, Apart
  <2>3. CASE q = p /\ row'[p] = new /\ writer'[p] = on[u]
    BY <1>1, <1>2, <1>6, <2>3, Constants DEF Matches, Apart
  <2>4. CASE q = p /\ UNCHANGED <<row, writer>> /\ unsynced' = unsynced \cup {<<on[u], p>>}
    <3>1. b = on[u] => <<b, q>> \in unsynced'
      BY <2>4
    <3>2. b # on[u] => (<<b, q>> \in unsynced' <=> <<b, q>> \in unsynced)
      BY <2>4
    <3>. QED
      BY <1>2, <2>1, <2>4, <3>1, <3>2 DEF StoreOK, Matches, Apart
  <2>. QED
    BY <2>2, <2>3, <2>4 DEF Queries
<1>. QED
  BY <1>4, <1>5, <1>7 DEF StoreOK

(* A seed has written one preset and takes up the next one.                *)
LEMMA StoreNext ==
  ASSUME Types, Types', StoreOK, NEW u \in Update, pc[u] = "write",
         Queries(u, doc[u]), UNCHANGED <<custom, recalled>>,
         todo[u] # <<>>, Len(todo[u]) # 1, todo'[u] = Tail(todo[u]),
         Remembers(on[u], Head(Tail(todo[u])), doc[u]),
         \A v \in Update \ {u} : todo'[v] = todo[v],
         UNCHANGED <<arrived, what, on, pc, doc, crossed>>
  PROVE  StoreOK'
<1>. DEFINE p == Head(todo[u])
            n == Head(Tail(todo[u]))
<1>1. /\ p \in Touched(u) /\ p \in Preset /\ on[u] \in Process /\ todo[u] \in Seq(Preset)
  BY TouchedHead, AtWorkOn DEF StoreLabel
<1>2. /\ Tail(todo[u]) # <<>> /\ n = todo[u][2] /\ n \in Touched(u) /\ n \in Preset
      /\ Touched(u)' \subseteq Touched(u)
  <2>. DEFINE s == todo[u]
  <2>1. /\ Len(s) \in Nat \ {0} /\ \A i \in 1..Len(s) : s[i] \in Preset
        /\ Len(Tail(s)) = Len(s) - 1 /\ Tail(s) # <<>> /\ Head(Tail(s)) = s[2]
        /\ \A i \in 1..Len(Tail(s)) : Tail(s)[i] = s[i + 1]
    BY <1>1, HeadAtHand
  <2>2. 2 \in 1..Len(s) /\ \A i \in 1..Len(Tail(s)) : i + 1 \in 1..Len(s)
    BY <2>1
  <2>3. Touched(u)' = {Tail(s)[i] : i \in 1..Len(Tail(s))} /\ Touched(u) = {s[i] : i \in 1..Len(s)}
    BY DEF Touched
  <2>. HIDE DEF s
  <2>. QED
    BY <2>1, <2>2, <2>3 DEF s
<1>3. \A r \in Preset : r # p => /\ row'[r] = row[r] /\ writer'[r] = writer[r]
                                 /\ \A a \in Process :
                                      <<a, r>> \in unsynced' <=> <<a, r>> \in unsynced
  BY DEF Queries
<1>4. \A a \in Process, r \in Preset : r # n => memory'[a][r] = memory[a][r]
  BY DEF Remembers
<1>5. what[u] \notin Toggle
  BY DEF StoreOK, Hand
<1>6. Alone' /\ \A v \in Update \ {u} : Hand(v)'
  <2>. HIDE DEF p, n
  <2>. QED
    BY <1>1, <1>2, <1>3, <1>4, StoreOthers
<1>7. Hand(u)'
  BY <1>2, <1>5 DEF Hand, HandOf, Remembers
<1>8. p \notin crossed => memory[on[u]][p] = doc[u]
  BY <1>1 DEF StoreOK, Hand, HandOf
<1>9. doc[u] # NoDoc
  BY DEF Types, TypeOK
<1>10. ASSUME NEW b \in Process, NEW q \in Preset PROVE Matches(b, q)'
  <2>1. b = on[u] /\ q = n => Changing(b, q)'
    BY DEF Changing
  <2>2. b # on[u] \/ q # p => (Changing(b, q) => Changing(b, q)')
    BY DEF Changing
  <2>3. b # on[u] \/ q # n => memory'[b][q] = memory[b][q]
    BY DEF Remembers
  <2>4. CASE q # p
    BY <1>3, <2>1, <2>2, <2>3, <2>4 DEF StoreOK, Matches, Apart
  <2>5. CASE q = p /\ row'[p] = doc[u] /\ writer'[p] = on[u]
    BY <1>1, <1>8, <1>9, <2>1, <2>3, <2>5, Constants DEF Matches, Apart
  <2>6. CASE q = p /\ UNCHANGED <<row, writer>> /\ unsynced' = unsynced \cup {<<on[u], p>>}
    <3>1. b = on[u] => <<b, q>> \in unsynced'
      BY <2>6
    <3>2. b # on[u] => (<<b, q>> \in unsynced' <=> <<b, q>> \in unsynced)
      BY <2>6
    <3>. QED
      BY <2>1, <2>2, <2>3, <2>6, <3>1, <3>2 DEF StoreOK, Matches, Apart
  <2>. QED
    BY <2>4, <2>5, <2>6 DEF Queries
<1>. QED
  BY <1>6, <1>7, <1>10 DEF StoreOK

-----------------------------------------------------------------------------
(* The wizard.  As long as no two of its updates were handled at once:     *)
(* whoever is at work is the latest of them ...                            *)
Latest ==
  \A u \in Update :
    u \in Running /\ what[u] \in WizardKind =>
      \A v \in 1..arrived : what[v] \in WizardKind => v <= u

(* ... and the first k - 1 fields of f are texts in order, since the first *)
(* of which nobody has started the wizard again or left it.                *)
Excused(v) == what[v] \in {"start", "menu"} => v \in raised \/ pc[v] \in WizardLabel
Rising(f, k) ==
  /\ \A j \in 2..(k - 1) : f[j - 1] < f[j]
  /\ k > 1 => f[1] >= 1
Since(f, k) == k > 1 => f[k - 1] <= arrived /\ \A v \in f[1]..arrived : Excused(v)
Chain(f, k) == Rising(f, k) /\ Since(f, k)
Before(f, k, u) == k > 1 => f[k - 1] < u

(* So are the fields of the state that the wizard is in, and of the one    *)
(* that a handler is about to enter.                                       *)
Turns(u) ==
  /\ pc[u] \in {"get", "set"} => asked[u] = asks /\ Before(data, asks, u)
  /\ pc[u] = "set" => Chain(got[u], asks + 1)
  /\ pc[u] = "turn" /\ what[u] = "text" => asked[u] = asks /\ Chain(data, asks + 1)
  /\ pc[u] \in {"clear", "wipe"} /\ what[u] = "text" =>
       Chain(got[u], LastField) /\ Before(got[u], LastField, u)
  /\ pc[u] = "wipe" => asks = 0

(* A finished run of the wizard, as WizardSavesOneRun says.                *)
MadeOfOne(u) ==
  LET f == got[u]
  IN  /\ Rising(f, LastField) /\ Before(f, LastField, u)
      /\ \A v \in f[1]..u : what[v] \in {"start", "menu"} => v \in raised

WizardOK ==
  /\ \A u \in created : u <= arrived /\ pc[u] \in {"write", "end"}
  /\ ~mixed => /\ Latest /\ Chain(data, asks)
               /\ \A u \in Update : Turns(u)
               /\ \A u \in created : MadeOfOne(u)

LEMMA InitWizardOK == Init => WizardOK
BY Constants DEF Init, StoreInit, WizardOK, Latest, Running, Chain, Rising, Since, Turns

LEMMA FieldsAreNat ==
  ASSUME NEW f \in Fields, NEW k \in 1..(LastField - 1)
  PROVE  f[k] \in Nat
BY Constants DEF Fields

LEMMA SinceKept ==
  ASSUME Types, Types', NEW f \in Fields, NEW k \in 0..LastField, Since(f, k), Rising(f, k),
         arrived <= arrived',
         \A v \in 1..arrived : Excused(v) => Excused(v)',
         \A v \in (arrived + 1)..arrived' : Excused(v)'
  PROVE  Since(f, k)'
<1>1. arrived \in Nat /\ arrived' \in Nat
  BY Constants DEF Types, TypeOK
<1>. SUFFICES ASSUME k > 1
              PROVE  f[k - 1] <= arrived' /\ \A v \in f[1]..arrived' : Excused(v)'
  BY DEF Since
<1>2. f[k - 1] \in Nat /\ f[1] \in Nat /\ f[1] >= 1 /\ f[k - 1] <= arrived
      /\ \A v \in f[1]..arrived : Excused(v)
  BY FieldsAreNat, Constants DEF Since, Rising
<1>3. ASSUME NEW v \in f[1]..arrived' PROVE Excused(v)'
  <2>1. CASE v <= arrived
    BY <1>1, <1>2, <2>1
  <2>2. CASE v > arrived
    BY <1>1, <1>2, <2>2
  <2>. QED
    BY <1>1, <1>2, <2>1, <2>2
<1>. QED
  BY <1>1, <1>2, <1>3

LEMMA ShorterChain ==
  ASSUME Types, NEW f \in Fields, NEW k \in 1..(LastField - 1), Chain(f, k + 1)
  PROVE  Chain(f, k)
<1>1. arrived \in Nat
  BY Constants DEF Types, TypeOK
<1>2. Rising(f, k) /\ f[1] >= 1
  BY Constants DEF Chain, Rising
<1>3. f[k] <= arrived /\ \A v \in f[1]..arrived : Excused(v)
  BY Constants DEF Chain, Since
<1>4. k > 1 => f[k - 1] < f[k] /\ f[k - 1] \in Nat /\ f[k] \in Nat
  BY FieldsAreNat, Constants DEF Chain, Rising
<1>. QED
  BY <1>1, <1>2, <1>3, <1>4 DEF Chain, Since

LEMMA LongerChain ==
  ASSUME Types, NEW f \in Fields, NEW k \in 1..(LastField - 1), Chain(f, k),
         NEW u \in Update, u <= arrived, Before(f, k, u), what[u] = "text",
         \A v \in 1..arrived : what[v] \in WizardKind => v <= u
  PROVE  Chain([f EXCEPT ![k] = u], k + 1)
<1>. DEFINE g == [f EXCEPT ![k] = u]
<1>1. arrived \in Nat /\ arrived <= MaxUpdates /\ u \in Nat /\ u >= 1
  BY Constants DEF Types, TypeOK
<1>2. g \in Fields /\ g[k] = u /\ \A j \in 1..(LastField - 1) : j # k => g[j] = f[j]
  BY Constants DEF Fields
<1>3. \A j \in 1..(LastField - 1) : f[j] \in Nat /\ g[j] \in Nat
  BY <1>2, FieldsAreNat
<1>. HIDE DEF g
<1>4. Rising(g, k + 1)
  <2>1. ASSUME NEW j \in 2..k PROVE g[j - 1] < g[j]
    <3>1. CASE j = k
      BY <1>2, <3>1, Constants DEF Before
    <3>2. CASE j # k
      BY <1>2, <3>2, Constants DEF Chain, Rising
    <3>. QED
      BY <3>1, <3>2
  <2>2. g[1] >= 1
    BY <1>1, <1>2, Constants DEF Chain, Rising
  <2>. QED
    BY <2>1, <2>2, Constants DEF Rising
<1>5. ASSUME NEW v \in g[1]..arrived PROVE Excused(v)
  <2>1. CASE k > 1
    BY <1>2, <2>1, Constants DEF Chain, Since
  <2>2. CASE k = 1
    <3>1. v \in 1..arrived /\ v >= u
      BY <1>1, <1>2, <2>2
    <3>2. what[v] \in WizardKind => v = u
      BY <1>1, <3>1
    <3>. QED
      BY <3>2 DEF Excused, WizardKind
  <2>. QED
    BY <2>1, <2>2, Constants
<1>. QED
  BY <1>1, <1>2, <1>4, <1>5, Constants DEF Chain, Since, g

(* What a step leaves of the chains that it does not lengthen.             *)
LEMMA ChainKept ==
  ASSUME Types, Types', NEW f \in Fields, NEW k \in 0..LastField, Chain(f, k),
         arrived <= arrived',
         \A v \in 1..arrived : Excused(v) => Excused(v)',
         \A v \in (arrived + 1)..arrived' : Excused(v)'
  PROVE  Rising(f, k) /\ Since(f, k)'
BY SinceKept DEF Chain

(* The steps of the store do not disturb the wizard.                       *)
LEMMA WizardIdle ==
  ASSUME Types, Types', WizardOK, UNCHANGED wizard,
         arrived' \in {arrived, arrived + 1},
         arrived' # arrived => what'[arrived'] \notin WizardKind,
         \A v \in 1..arrived : what'[v] = what[v],
         \A v \in Update : pc'[v] \in WizardLabel <=> pc[v] \in WizardLabel,
         \A v \in Update : pc[v] \in WizardLabel => pc'[v] = pc[v],
         \A v \in Update :
           pc[v] \in {"write", "end"} /\ v <= arrived => pc'[v] \in {"write", "end"},
         \A v \in Update : v \in Running' /\ what'[v] \in WizardKind => v \in Running
  PROVE  WizardOK'
<1>1. arrived \in Nat /\ arrived' \in 0..MaxUpdates /\ arrived <= arrived'
      /\ \A v \in Update : v \in Nat /\ v >= 1
  BY Constants DEF Types, TypeOK
<1>2. \A v \in Update : pc[v] \in WizardLabel \cup {"write", "end"} /\ pc[v] # "new" => v <= arrived
  BY <1>1 DEF Types, Control, ControlOf
<1>3. \A u \in created' : u <= arrived' /\ pc'[u] \in {"write", "end"}
  BY <1>1 DEF WizardOK, wizard, Types, Control
<1>. SUFFICES ASSUME ~mixed
              PROVE  /\ Latest' /\ Chain(data, asks)'
                     /\ \A u \in Update : Turns(u)'
                     /\ \A u \in created : MadeOfOne(u)'
  BY <1>3 DEF WizardOK, wizard
<1>4. /\ data' = data /\ asks' = asks /\ asked' = asked /\ got' = got /\ raised' = raised
      /\ data \in Fields /\ asks \in 0..LastField
      /\ \A u \in Update : got[u] \in Fields /\ asked[u] \in 0..LastField
  BY DEF wizard, Types, TypeOK
<1>5. \A v \in 1..arrived : v \in Update
  BY <1>1, Constants DEF Update, Types, TypeOK
<1>6. /\ \A v \in 1..arrived : Excused(v) => Excused(v)'
      /\ \A v \in (arrived + 1)..arrived' : Excused(v)'
  <2>1. \A v \in 1..arrived : Excused(v) => Excused(v)'
    BY <1>4, <1>5 DEF Excused
  <2>2. ASSUME NEW v \in (arrived + 1)..arrived' PROVE Excused(v)'
    <3>1. arrived' # arrived /\ v = arrived'
      BY <1>1
    <3>. QED
      BY <3>1 DEF Excused, WizardKind
  <2>. QED
    BY <2>1, <2>2
<1>7. Latest'
  <2>. SUFFICES ASSUME NEW u \in Update, u \in Running', what'[u] \in WizardKind,
                       NEW v \in 1..arrived', what'[v] \in WizardKind
                PROVE  v <= u
    BY DEF Latest
  <2>1. v \in 1..arrived
    BY <1>1
  <2>2. u \in Running /\ u \in 1..arrived
    BY <1>1 DEF Running, Types, Control, ControlOf
  <2>. QED
    BY <2>1, <2>2 DEF WizardOK, Latest
<1>8. \A f \in Fields, k \in 0..LastField : Chain(f, k) => Rising(f, k) /\ Since(f, k)'
  BY <1>1, <1>6, ChainKept
<1>9. Chain(data, asks)'
  BY <1>4, <1>8 DEF WizardOK, Chain, Rising, Since
<1>10. ASSUME NEW u \in Update PROVE Turns(u)'
  <2>. SUFFICES ASSUME pc[u] \in WizardLabel PROVE Turns(u)'
    BY DEF Turns, WizardLabel
  <2>1. pc'[u] = pc[u] /\ what'[u] = what[u] /\ u <= arrived
    BY <1>1, <1>2 DEF WizardLabel
  <2>2. pc[u] = "set" => asks + 1 \in 0..LastField
    BY <1>4, Constants DEF WizardOK, Turns, Types, Asking, AskingOf
  <2>3. pc[u] = "turn" /\ what[u] = "text" => asks + 1 \in 0..LastField
    BY <1>4, Constants DEF WizardOK, Turns, Types, Asking, AskingOf
  <2>4. pc[u] = "set" => Chain(got[u], asks + 1)'
    <3>1. pc[u] = "set" => Chain(got[u], asks + 1)
      BY DEF WizardOK, Turns
    <3>. QED
      BY <1>4, <1>8, <2>2, <3>1 DEF Chain, Rising, Since
  <2>5. pc[u] = "turn" /\ what[u] = "text" => Chain(data, asks + 1)'
    <3>1. pc[u] = "turn" /\ what[u] = "text" => Chain(data, asks + 1)
      BY DEF WizardOK, Turns
    <3>. QED
      BY <1>4, <1>8, <2>3, <3>1 DEF Chain, Rising, Since
  <2>6. pc[u] \in {"clear", "wipe"} /\ what[u] = "text" => Chain(got[u], LastField)'
    <3>1. pc[u] \in {"clear", "wipe"} /\ what[u] = "text" => Chain(got[u], LastField)
      BY DEF WizardOK, Turns
    <3>2. LastField \in 0..LastField
      BY Constants
    <3>. QED
      BY <1>4, <1>8, <3>1, <3>2 DEF Chain, Rising, Since
  <2>7. Turns(u)
    BY DEF WizardOK
  <2>. QED
    BY <1>4, <2>1, <2>4, <2>5, <2>6, <2>7 DEF Turns, Before
<1>11. ASSUME NEW u \in created PROVE MadeOfOne(u)'
  <2>1. u \in Update /\ u <= arrived /\ MadeOfOne(u) /\ got[u] \in Fields
    BY <1>4 DEF WizardOK, Types, Control
  <2>2. got[u][1] \in Nat /\ got[u][1] >= 1
    BY <2>1, FieldsAreNat, Constants DEF MadeOfOne, Rising
  <2>3. \A v \in got[u][1]..u : v \in 1..arrived
    BY <1>1, <2>1, <2>2
  <2>. QED
    BY <1>4, <2>1, <2>3 DEF MadeOfOne, Rising, Before
<1>. QED
  BY <1>7, <1>9, <1>10, <1>11

LEMMA Arrivals ==
  ASSUME Types
  PROVE  /\ arrived \in Nat /\ arrived <= MaxUpdates
         /\ \A v \in Update : pc[v] # "new" <=> v <= arrived
         /\ \A v \in 1..arrived : v \in Update
         /\ \A v \in Update : pc[v] \in WizardLabel =>
              v \in Running /\ what[v] \in WizardKind /\ v \in 1..arrived
<1>1. arrived \in Nat /\ arrived <= MaxUpdates
  BY Constants DEF Types, TypeOK
<1>2. \A v \in Update : pc[v] # "new" <=> v <= arrived
  BY <1>1, Constants DEF Types, Control, ControlOf
<1>3. \A v \in 1..arrived : v \in Update
  BY <1>1, Constants DEF Update
<1>4. \A v \in Update : pc[v] \in WizardLabel => v \in Running /\ what[v] \in WizardKind
  BY DEF Types, Control, ControlOf, Running, WizardLabel
<1>5. \A v \in Update : pc[v] \in WizardLabel => v \in 1..arrived
  BY <1>1, <1>2, Constants DEF WizardLabel
<1>. QED
  BY <1>1, <1>2, <1>3, <1>4, <1>5

(* The handler of the wizard is the only one, and the latest.              *)
LEMMA OneInWizard ==
  ASSUME Types, WizardOK, ~mixed, NEW u \in Update, pc[u] \in WizardLabel
  PROVE  /\ u \in 1..arrived
         /\ \A v \in 1..arrived : what[v] \in WizardKind => v <= u
         /\ \A v \in Update \ {u} : pc[v] \notin WizardLabel
<1>1. Latest
  BY DEF WizardOK
<1>2. u \in 1..arrived /\ \A v \in 1..arrived : what[v] \in WizardKind => v <= u
  BY <1>1, Arrivals DEF Latest
<1>3. ASSUME NEW v \in Update \ {u}, pc[v] \in WizardLabel PROVE FALSE
  BY <1>1, <1>2, <1>3, Arrivals, Constants DEF Latest
<1>. QED
  BY <1>2, <1>3

(* What a step of the wizard leaves to prove.                              *)
LEMMA WizardMoves ==
  ASSUME Types, Types', WizardOK, NEW u \in Update, pc[u] \in WizardLabel,
         arrived' = arrived, what' = what, mixed' = mixed,
         \A v \in Update \ {u} : pc'[v] = pc[v] /\ got'[v] = got[v],
         raised \subseteq raised',
         \/ created' = created
         \/ created' = created \cup {u} /\ pc'[u] \in {"write", "end"},
         pc'[u] # "new",
         ~mixed => /\ Chain(data, asks)' /\ Turns(u)'
                   /\ u \in created' => MadeOfOne(u)'
  PROVE  WizardOK'
<1>1. u \notin created /\ \A v \in created : v \in Update /\ v # u
  BY DEF WizardOK, WizardLabel, Types, Control
<1>2. \A v \in created' : v <= arrived' /\ pc'[v] \in {"write", "end"}
  <2>1. u <= arrived
    BY Arrivals, Constants
  <2>. QED
    BY <1>1, <2>1 DEF WizardOK
<1>3. ASSUME ~mixed
      PROVE  /\ Latest'
             /\ \A v \in Update : Turns(v)'
             /\ \A v \in created' : MadeOfOne(v)'
  <2>1. Latest'
    <3>1. \A v \in Update : v \in Running' => v \in Running
      <4>. u \in Running
        BY Arrivals
      <4>. QED
        BY DEF Running
    <3>. QED
      BY <1>3, <3>1 DEF WizardOK, Latest
  <2>2. \A v \in Update \ {u} : Turns(v)'
    BY <1>3, OneInWizard DEF Turns, WizardLabel
  <2>3. ASSUME NEW v \in created PROVE MadeOfOne(v)'
    <3>1. MadeOfOne(v) /\ got'[v] = got[v]
      BY <1>1, <1>3, <2>3 DEF WizardOK
    <3>. QED
      BY <3>1 DEF MadeOfOne, Rising, Before
  <2>. QED
    BY <1>3, <2>1, <2>2, <2>3
<1>. QED
  BY <1>2, <1>3 DEF WizardOK

LEMMA ExcusedKept ==
  ASSUME Types, NEW u \in Update, what' = what, raised \subseteq raised',
         \A v \in Update \ {u} : pc'[v] = pc[v],
         what[u] = "text" \/ u \in raised' \/ pc'[u] \in WizardLabel
  PROVE  \A v \in 1..arrived : Excused(v) => Excused(v)'
BY Arrivals DEF Excused

LEMMA ChainStays ==
  ASSUME Types, Types', arrived' = arrived,
         \A v \in 1..arrived : Excused(v) => Excused(v)',
         NEW f \in Fields, NEW k \in 0..LastField, Chain(f, k)
  PROVE  Rising(f, k) /\ Since(f, k)'
<1>1. arrived \in Nat
  BY Arrivals
<1>2. (arrived + 1)..arrived' = {} /\ arrived <= arrived'
  BY <1>1
<1>. QED
  BY <1>2, ChainKept

LEMMA GetDataWizard ==
  ASSUME Types, WizardOK, NEW u \in Update, GetData(u)
  PROVE  WizardOK'
<1>1. /\ Types' /\ pc[u] = "get" /\ UNCHANGED <<asks, data, created, raised>>
      /\ \A v \in Update \ {u} : got'[v] = got[v]
  BY GetDataTypes
<1>2. what[u] = "text" /\ data \in Fields /\ asks \in 0..LastField /\ pc[u] \in WizardLabel
  BY <1>1 DEF Types, TypeOK, Asking, AskingOf, WizardLabel
<1>3. PICK label \in {"clear", "set"} :
        /\ Proceeds(u, label)
        /\ \/ label = "clear" /\ asked[u] = LastField /\ got'[u] = data
           \/ /\ label = "set" /\ asked[u] \in 1..(LastField - 1)
              /\ got'[u] = [data EXCEPT ![asked[u]] = u]
  BY GetDataTypes
<1>4. /\ arrived' = arrived /\ what' = what /\ mixed' = mixed /\ pc'[u] = label
      /\ \A v \in Update \ {u} : pc'[v] = pc[v] /\ got'[v] = got[v]
      /\ asked'[u] = asked[u]
  BY <1>1, <1>3 DEF Proceeds, Goes
<1>5. \A v \in 1..arrived : Excused(v) => Excused(v)'
  BY <1>1, <1>2, <1>4, ExcusedKept
<1>6. ASSUME ~mixed PROVE Chain(data, asks)' /\ Turns(u)' /\ (u \in created' => MadeOfOne(u)')
  <2>1. Chain(data, asks) /\ asked[u] = asks /\ Before(data, asks, u)
    BY <1>1, <1>6 DEF WizardOK, Turns
  <2>2. Chain(data, asks)'
    BY <1>1, <1>2, <1>4, <1>5, <2>1, ChainStays DEF Chain, Rising, Since
  <2>3. u \notin created
    BY <1>1 DEF WizardOK
  <2>4. CASE label = "clear"
    BY <1>1, <1>2, <1>3, <1>4, <2>1, <2>2, <2>3, <2>4 DEF Turns, Before, Chain, Rising, Since
  <2>5. CASE label = "set"
    <3>. DEFINE g == [data EXCEPT ![asks] = u]
    <3>1. asks \in 1..(LastField - 1) /\ got'[u] = g
      BY <1>3, <2>1, <2>5
    <3>2. Chain(g, asks + 1)
      BY <1>2, <1>6, <2>1, <3>1, OneInWizard, LongerChain
    <3>3. g \in Fields /\ asks + 1 \in 0..LastField
      BY <1>2, <3>1, Constants DEF Fields
    <3>. HIDE DEF g
    <3>4. \A f \in Fields, k \in 0..LastField : Chain(f, k) => Rising(f, k) /\ Since(f, k)'
      BY <1>1, <1>4, <1>5, ChainStays
    <3>5. Chain(got[u], asks + 1)'
      BY <1>1, <3>1, <3>2, <3>3, <3>4 DEF Chain, Rising, Since
    <3>. QED
      BY <1>1, <1>2, <1>3, <1>4, <2>1, <2>2, <2>3, <2>5, <3>5 DEF Turns, Before
  <2>. QED
    BY <1>3, <2>4, <2>5
<1>. QED
  BY <1>1, <1>2, <1>3, <1>4, <1>6, WizardMoves

LEMMA SetDataWizard ==
  ASSUME Types, WizardOK, NEW u \in Update, SetData(u)
  PROVE  WizardOK'
<1>1. /\ Types' /\ pc[u] = "set" /\ Proceeds(u, "turn") /\ data' = got[u]
      /\ \A v \in Update \ {u} : got'[v] = got[v]
      /\ UNCHANGED <<asks, created, raised>>
  BY SetDataTypes
<1>2. /\ what[u] = "text" /\ asked[u] \in 1..(LastField - 1) /\ got[u] \in Fields
      /\ pc[u] \in WizardLabel
  BY <1>1, Constants DEF Types, TypeOK, Asking, AskingOf, WizardLabel
<1>3. /\ arrived' = arrived /\ what' = what /\ mixed' = mixed /\ pc'[u] = "turn"
      /\ \A v \in Update \ {u} : pc'[v] = pc[v] /\ got'[v] = got[v]
      /\ asked'[u] = asked[u]
  BY <1>1 DEF Proceeds, Goes
<1>4. \A v \in 1..arrived : Excused(v) => Excused(v)'
  BY <1>1, <1>2, <1>3, ExcusedKept
<1>5. \A f \in Fields, k \in 0..LastField : Chain(f, k) => Rising(f, k) /\ Since(f, k)'
  BY <1>1, <1>3, <1>4, ChainStays
<1>6. ASSUME ~mixed PROVE Chain(data, asks)' /\ Turns(u)' /\ (u \in created' => MadeOfOne(u)')
  <2>1. asked[u] = asks /\ Chain(got[u], asks + 1)
    BY <1>1, <1>6 DEF WizardOK, Turns
  <2>2. Chain(got[u], asks) /\ asks \in 0..LastField /\ asks + 1 \in 0..LastField
    BY <1>2, <2>1, ShorterChain, Constants
  <2>3. Chain(data, asks)' /\ Chain(data, asks + 1)'
    BY <1>1, <1>2, <1>5, <2>1, <2>2 DEF Chain, Rising, Since
  <2>4. u \notin created
    BY <1>1 DEF WizardOK
  <2>. QED
    BY <1>1, <1>3, <2>1, <2>3, <2>4 DEF Turns
<1>. QED
  BY <1>1, <1>2, <1>3, <1>6, WizardMoves

LEMMA SetStateWizard ==
  ASSUME Types, WizardOK, NEW u \in Update, SetState(u)
  PROVE  WizardOK'
<1>1. /\ Types' /\ pc[u] = "turn" /\ Proceeds(u, "end") /\ asks' = asked[u] + 1
      /\ UNCHANGED <<data, got, created, raised>>
  BY SetStateTypes
<1>2. /\ data \in Fields /\ pc[u] \in WizardLabel /\ asked[u] \in 0..(LastField - 1)
      /\ asked[u] + 1 \in 0..LastField
      /\ (what[u] = "start" /\ asked[u] = 0) \/ what[u] = "text"
  BY <1>1, Constants DEF Types, TypeOK, Asking, AskingOf, WizardLabel
<1>3. /\ arrived' = arrived /\ what' = what /\ mixed' = mixed /\ pc'[u] = "end"
      /\ \A v \in Update \ {u} : pc'[v] = pc[v] /\ got'[v] = got[v]
  BY <1>1 DEF Proceeds, Goes
<1>4. ASSUME ~mixed PROVE Chain(data, asks)' /\ Turns(u)' /\ (u \in created' => MadeOfOne(u)')
  <2>1. ASSUME what[u] = "start" /\ asked[u] = 0 PROVE Chain(data, asks)'
    <3>1. asks' = 1
      BY <1>1, <2>1
    <3>. QED
      BY <3>1 DEF Chain, Rising, Since
  <2>2. ASSUME what[u] = "text" PROVE Chain(data, asks)'
    <3>1. \A v \in 1..arrived : Excused(v) => Excused(v)'
      BY <1>1, <1>3, <2>2, ExcusedKept
    <3>2. Chain(data, asked[u] + 1)
      BY <1>1, <1>4, <2>2 DEF WizardOK, Turns
    <3>3. \A f \in Fields, k \in 0..LastField : Chain(f, k) => Rising(f, k) /\ Since(f, k)'
      BY <1>1, <1>3, <3>1, ChainStays
    <3>. QED
      BY <1>1, <1>2, <3>2, <3>3 DEF Chain, Rising, Since
  <2>3. Chain(data, asks)'
    BY <1>2, <2>1, <2>2
  <2>4. u \notin created /\ Turns(u)'
    BY <1>1, <1>3 DEF WizardOK, Turns
  <2>. QED
    BY <1>1, <2>3, <2>4
<1>. QED
  BY <1>1, <1>2, <1>3, <1>4, WizardMoves

LEMMA ClearStateWizard ==
  ASSUME Types, WizardOK, NEW u \in Update, ClearState(u)
  PROVE  WizardOK'
<1>1. /\ Types' /\ pc[u] = "clear" /\ Proceeds(u, "wipe") /\ asks' = 0
      /\ UNCHANGED <<data, got, created, raised>>
  BY ClearStateTypes
<1>2. got[u] \in Fields /\ LastField \in 0..LastField /\ pc[u] \in WizardLabel
  BY <1>1, Constants DEF Types, TypeOK, WizardLabel
<1>3. /\ arrived' = arrived /\ what' = what /\ mixed' = mixed /\ pc'[u] = "wipe"
      /\ pc'[u] \in WizardLabel
      /\ \A v \in Update \ {u} : pc'[v] = pc[v] /\ got'[v] = got[v]
  BY <1>1 DEF Proceeds, Goes, WizardLabel
<1>4. \A v \in 1..arrived : Excused(v) => Excused(v)'
  BY <1>1, <1>3, ExcusedKept
<1>5. \A f \in Fields, k \in 0..LastField : Chain(f, k) => Rising(f, k) /\ Since(f, k)'
  BY <1>1, <1>3, <1>4, ChainStays
<1>6. ASSUME ~mixed PROVE Chain(data, asks)' /\ Turns(u)' /\ (u \in created' => MadeOfOne(u)')
  <2>1. what[u] = "text" => Chain(got[u], LastField) /\ Before(got[u], LastField, u)
    BY <1>1, <1>6 DEF WizardOK, Turns
  <2>2. what[u] = "text" => Chain(got[u], LastField)'
    BY <1>1, <1>2, <1>5, <2>1 DEF Chain, Rising, Since
  <2>3. Chain(data, asks)'
    BY <1>1 DEF Chain, Rising, Since
  <2>4. u \notin created
    BY <1>1 DEF WizardOK
  <2>. QED
    BY <1>1, <1>3, <2>1, <2>2, <2>3, <2>4 DEF Turns, Before
<1>. QED
  BY <1>1, <1>2, <1>3, <1>6, WizardMoves

LEMMA ClearDataWizard ==
  ASSUME Types, WizardOK, NEW u \in Update, ClearData(u)
  PROVE  WizardOK'
<1>1. /\ Types' /\ pc[u] = "wipe" /\ data' = NoFields /\ UNCHANGED <<asks, raised>>
      /\ \A v \in Update \ {u} : got'[v] = got[v]
      /\ pc[u] \in WizardLabel
  BY ClearDataTypes DEF WizardLabel
<1>2. ~mixed => asks = 0
  BY <1>1 DEF WizardOK, Turns
<1>3. CASE Proceeds(u, "end") /\ created' = created
  <2>1. /\ arrived' = arrived /\ what' = what /\ mixed' = mixed /\ pc'[u] = "end"
        /\ \A v \in Update \ {u} : pc'[v] = pc[v] /\ got'[v] = got[v]
    BY <1>1, <1>3 DEF Proceeds, Goes
  <2>2. ~mixed => Chain(data, asks)' /\ Turns(u)'
    BY <1>1, <1>2, <2>1 DEF Chain, Rising, Since, Turns
  <2>3. u \notin created
    BY <1>1 DEF WizardOK
  <2>. QED
    BY <1>1, <1>3, <2>1, <2>2, <2>3, WizardMoves
<1>4. ASSUME NEW p \in Preset, NEW d \in Doc, Creates(u, p, d) PROVE WizardOK'
  <2>1. /\ arrived' = arrived /\ what' = what /\ mixed' = mixed /\ pc'[u] = "write" /\ got' = got
        /\ \A v \in Update \ {u} : pc'[v] = pc[v] /\ got'[v] = got[v]
        /\ what[u] = "text" /\ created' = created \cup {u}
    BY <1>4 DEF Creates
  <2>2. ~mixed => Chain(data, asks)' /\ Turns(u)'
    BY <1>1, <1>2, <2>1 DEF Chain, Rising, Since, Turns
  <2>3. ASSUME ~mixed PROVE MadeOfOne(u)'
    <3>1. Chain(got[u], LastField) /\ Before(got[u], LastField, u) /\ got[u] \in Fields
      BY <1>1, <2>1, <2>3 DEF WizardOK, Turns, Types, TypeOK
    <3>2. got[u][1] \in Nat /\ got[u][1] >= 1
      BY <3>1, FieldsAreNat, Constants DEF Chain, Rising
    <3>3. ASSUME NEW v \in got[u][1]..u, what[v] \in {"start", "menu"} PROVE v \in raised
      <4>1. u \in 1..arrived /\ arrived \in Nat
        BY <1>1, <2>3, OneInWizard, Arrivals
      <4>2. v \in 1..arrived /\ v \in got[u][1]..arrived /\ v \in Update
        BY <3>2, <4>1, Arrivals
      <4>3. Excused(v)
        BY <3>1, <4>2, Constants DEF Chain, Since
      <4>4. v # u
        BY <2>1, <3>3
      <4>. QED
        BY <1>1, <2>3, <3>3, <4>2, <4>3, <4>4, OneInWizard DEF Excused
    <3>. QED
      BY <1>1, <2>1, <3>1, <3>3 DEF MadeOfOne, Chain, Rising, Before
  <2>. QED
    BY <1>1, <2>1, <2>2, <2>3, WizardMoves
<1>. QED
  BY <1>3, <1>4, ClearDataTypes

LEMMA RaiseWizard ==
  ASSUME Types, WizardOK, NEW u \in Update, Raise(u)
  PROVE  WizardOK'
<1>1. /\ Types' /\ pc[u] \in WizardLabel /\ Proceeds(u, "end") /\ raised' = raised \cup {u}
      /\ \A v \in Update \ {u} : got'[v] = got[v]
      /\ UNCHANGED <<asks, data, created>>
  BY RaiseTypes
<1>2. data \in Fields /\ asks \in 0..LastField
  BY DEF Types, TypeOK
<1>3. /\ arrived' = arrived /\ what' = what /\ mixed' = mixed /\ pc'[u] = "end"
      /\ \A v \in Update \ {u} : pc'[v] = pc[v] /\ got'[v] = got[v]
  BY <1>1 DEF Proceeds, Goes
<1>4. \A v \in 1..arrived : Excused(v) => Excused(v)'
  BY <1>1, <1>3, ExcusedKept
<1>5. \A f \in Fields, k \in 0..LastField : Chain(f, k) => Rising(f, k) /\ Since(f, k)'
  BY <1>1, <1>3, <1>4, ChainStays
<1>6. ~mixed => Chain(data, asks)' /\ Turns(u)'
  BY <1>1, <1>2, <1>3, <1>5 DEF WizardOK, Chain, Rising, Since, Turns
<1>7. u \notin created
  BY <1>1 DEF WizardOK, WizardLabel
<1>. QED
  BY <1>1, <1>3, <1>6, <1>7, WizardMoves

LEMMA MessageWizard ==
  ASSUME Types, WizardOK, NEW a \in WizardAt, NEW kind \in WizardKind, Message(a, kind)
  PROVE  WizardOK'
<1>. DEFINE first == First(kind)
<1>0. PICK n \in Update, label \in {first} : n = arrived'
  BY MessageTypes DEF Enters
<1>1. /\ Types' /\ Enters(n, a, kind, <<>>, label) /\ label \in {"turn", "clear", "end", "get"}
      /\ label = "turn" <=> kind = "start"
      /\ label = "clear" <=> kind = "menu"
      /\ label = "get" <=> kind = "text" /\ asks # 0
  <2>. label = first
    OBVIOUS
  <2>. QED
    BY <1>0, MessageTypes, FirstLabel
<1>2. /\ n \in Update /\ arrived' = n /\ n = arrived + 1 /\ pc[n] = "new" /\ what'[n] = kind
      /\ pc'[n] = label
      /\ \A u \in Update \ {n} : what'[u] = what[u] /\ pc'[u] = pc[u]
  BY <1>1 DEF Enters
<1>3. /\ mixed' = (mixed \/ \E u \in Running : what[u] \in WizardKind)
      /\ UNCHANGED <<asks, data, got, created, raised>>
      /\ asked' = [asked EXCEPT ![arrived'] = IF kind = "text" THEN asks ELSE 0]
  BY DEF Message
<1>. HIDE DEF first
<1>4. asked'[n] = (IF kind = "text" THEN asks ELSE 0) /\ data \in Fields /\ asks \in 0..LastField
  BY <1>2, <1>3 DEF Types, TypeOK
<1>5. arrived \in Nat /\ (\A v \in 1..arrived : v \in Update /\ v # n) /\ 1..n = 1..arrived \cup {n}
  BY <1>2, Arrivals
<1>6. \A u \in created' : u <= arrived' /\ u # n /\ pc'[u] \in {"write", "end"}
  BY <1>2, <1>3, <1>5, Constants DEF WizardOK, Types, Control
<1>7. ASSUME ~mixed'
      PROVE  /\ Latest' /\ Chain(data, asks)'
             /\ \A u \in Update : Turns(u)'
             /\ \A u \in created' : MadeOfOne(u)'
  <2>1. ~mixed /\ \A u \in Update : pc[u] \notin WizardLabel
    BY <1>3, <1>7, Arrivals
  <2>2. Latest'
    <3>. SUFFICES ASSUME NEW u \in Update, u \in Running', what'[u] \in WizardKind,
                         NEW v \in 1..n
                  PROVE  v <= u
      BY <1>2 DEF Latest
    <3>1. u = n
      BY <1>2, <1>3, <1>7 DEF Running
    <3>. QED
      BY <1>5, <1>2, <3>1
  <2>3. /\ \A v \in 1..arrived : Excused(v) => Excused(v)'
        /\ \A v \in (arrived + 1)..arrived' : Excused(v)'
        /\ arrived <= arrived'
    <3>1. \A v \in 1..arrived : Excused(v) => Excused(v)'
      BY <1>2, <1>3, <1>5 DEF Excused
    <3>2. Excused(n)'
      BY <1>1, <1>2 DEF Excused, WizardLabel
    <3>3. \A v \in (arrived + 1)..arrived' : v = n
      BY <1>2, <1>5
    <3>. QED
      BY <1>2, <1>5, <3>1, <3>2, <3>3
  <2>4. \A f \in Fields, k \in 0..LastField : Chain(f, k) => Rising(f, k) /\ Since(f, k)'
    BY <1>1, <2>3, ChainKept
  <2>5. Chain(data, asks)'
    BY <1>3, <1>4, <2>1, <2>4 DEF WizardOK, Chain, Rising, Since
  <2>6. \A u \in Update \ {n} : Turns(u)'
    BY <1>2, <2>1 DEF Turns, WizardLabel
  <2>7. Turns(n)'
    <3>1. label = "get" => asked'[n] = asks /\ Before(data, asks, n)
      <4>1. asks > 1 => data[asks - 1] \in Nat /\ data[asks - 1] <= arrived
        BY <1>4, <2>1, FieldsAreNat, Constants DEF WizardOK, Chain, Since
      <4>. QED
        BY <1>1, <1>2, <1>4, <1>5, <4>1 DEF Before
    <3>. QED
      BY <1>1, <1>2, <1>3, <3>1 DEF Turns, Before
  <2>8. ASSUME NEW u \in created' PROVE MadeOfOne(u)'
    <3>1. MadeOfOne(u) /\ u \in Update /\ got[u] \in Fields /\ u <= arrived
      BY <1>3, <2>1 DEF WizardOK, Types, TypeOK, Control
    <3>2. got[u][1] \in Nat /\ got[u][1] >= 1
      BY <3>1, FieldsAreNat, Constants DEF MadeOfOne, Rising
    <3>3. \A v \in got[u][1]..u : v \in 1..arrived
      BY <1>5, <3>1, <3>2, Constants
    <3>4. \A v \in got[u][1]..u : what'[v] = what[v]
      BY <1>2, <1>5, <3>3
    <3>. QED
      BY <1>3, <3>1, <3>4 DEF MadeOfOne, Rising, Before
  <2>. QED
    BY <2>2, <2>5, <2>6, <2>7, <2>8
<1>. QED
  BY <1>6, <1>7 DEF WizardOK

-----------------------------------------------------------------------------
(* Every step keeps the invariant.                                         *)
IInv == Types /\ StoreOK /\ WizardOK

LEMMA EntersOthers ==
  ASSUME Types, NEW n, NEW a, NEW kind, NEW ps, NEW label, Enters(n, a, kind, ps, label)
  PROVE  /\ arrived' = arrived + 1 /\ arrived' = n /\ n \in Update
         /\ \A v \in 1..arrived : v \in Update \ {n}
BY Arrivals DEF Enters

(* The arrival of an update of the store leaves the wizard to itself.      *)
LEMMA StoreEntersWizard ==
  ASSUME Types, Types', WizardOK, UNCHANGED wizard, NEW n, NEW a, NEW kind \in StoreKind, NEW ps,
         NEW label \in StoreLabel, Enters(n, a, kind, ps, label)
  PROVE  WizardOK'
<1>1. /\ arrived' = arrived + 1 /\ arrived' = n /\ n \in Update
      /\ \A v \in 1..arrived : v \in Update \ {n}
  BY EntersOthers
<1>2. /\ kind \notin WizardKind /\ label \notin WizardLabel /\ label \notin {"new", "end"}
      /\ "new" \notin WizardLabel
  BY DEF StoreKind, WizardKind, WizardLabel, StoreLabel
<1>3. /\ pc[n] = "new" /\ pc'[n] = label /\ what'[n] = kind
      /\ \A v \in Update \ {n} : what'[v] = what[v] /\ pc'[v] = pc[v]
  BY DEF Enters
<1>4. \A v \in Update : v \in Running' /\ what'[v] \in WizardKind => v \in Running
  BY <1>2, <1>3 DEF Running
<1>. QED
  BY <1>1, <1>2, <1>3, <1>4, WizardIdle

LEMMA StoreStepWizard ==
  ASSUME Types, Types', WizardOK, UNCHANGED wizard, NEW u \in Update, pc[u] \in StoreLabel,
         arrived' = arrived, what' = what,
         pc[u] = "write" => pc'[u] \in {"write", "end"},
         pc'[u] \in StoreLabel \cup {"end"},
         \A v \in Update \ {u} : pc'[v] = pc[v]
  PROVE  WizardOK'
<1>1. pc[u] \notin WizardLabel /\ pc'[u] \notin WizardLabel /\ pc[u] # "end" /\ u \in Running
  BY DEF StoreLabel, WizardLabel, Running
<1>2. \A v \in Update : v \in Running' => v \in Running
  BY <1>1 DEF Running
<1>. QED
  BY <1>1, <1>2, WizardIdle

(* The arrival of an update of the store takes its presets up.             *)
LEMMA StoreEnters ==
  ASSUME Types, Types', StoreOK, NEW n, NEW a \in Process, NEW kind, NEW ps \in Seq(Preset),
         NEW label \in StoreLabel, Enters(n, a, kind, ps, label), ps # <<>>,
         kind \in Toggle => Len(ps) = 1,
         \A v \in Update \ {n} : doc'[v] = doc[v],
         crossed' = Crossing(n, {ps[i] : i \in 1..Len(ps)}),
         UNCHANGED <<row, writer, unsynced, recalled>>,
         label = "read" => memory' = memory /\ custom' = custom,
         label = "write" => /\ Remembers(a, Head(ps), doc'[n]) /\ custom' = custom
                            /\ kind \notin Toggle,
         label = "erase" => /\ Remembers(a, Head(ps), NoDoc) /\ Head(ps) \notin custom'[a]
                            /\ \A b \in Process, q \in Preset :
                                 b # a \/ q # Head(ps) => (q \in custom'[b] <=> q \in custom[b])
  PROVE  StoreOK'
<1>1. /\ n \in Update /\ todo[n] = <<>> /\ todo'[n] = ps /\ on'[n] = a /\ what'[n] = kind
      /\ pc'[n] = label
      /\ \A v \in Update \ {n} : todo'[v] = todo[v] /\ pc'[v] = pc[v] /\ on'[v] = on[v]
                                 /\ what'[v] = what[v] /\ doc'[v] = doc[v]
  BY DEF Enters, StoreLabel
<1>2. Touched(n)' = {ps[i] : i \in 1..Len(ps)} /\ Head(ps) \in Preset
  BY <1>1, HeadAtHand DEF Touched
<1>. QED
  BY <1>1, <1>2, StoreTakesUp

LEMMA MessageStep ==
  ASSUME IInv, NEW a \in WizardAt, NEW kind \in WizardKind, Message(a, kind)
  PROVE  IInv'
<1>1. Types' /\ Enters(arrived', a, kind, <<>>, First(kind))
  BY MessageTypes DEF IInv
<1>2. WizardOK'
  BY MessageWizard DEF IInv
<1>3. StoreOK'
  <2>1. UNCHANGED <<row, memory, custom, doc, writer, unsynced, recalled, crossed>>
    BY DEF Message, store, ghosts
  <2>2. \A v \in Update : todo[v] = <<>> <=> pc[v] \notin StoreLabel
    BY DEF IInv, Types, Control, ControlOf
  <2>3. First(kind) \notin StoreLabel
    BY FirstLabel DEF StoreLabel
  <2>4. /\ \A v \in Update : todo'[v] = todo[v]
        /\ \A v \in Update : todo[v] # <<>> =>
             pc'[v] = pc[v] /\ on'[v] = on[v] /\ what'[v] = what[v] /\ doc'[v] = doc[v]
        /\ \A v \in Update : todo[v] = <<>> => pc'[v] \notin StoreLabel
    BY <1>1, <2>1, <2>2, <2>3 DEF Enters
  <2>. QED
    BY <2>1, <2>4, StoreIdle DEF IInv
<1>. QED
  BY <1>1, <1>2, <1>3 DEF IInv

LEMMA BeginToggleStep ==
  ASSUME IInv, NEW a \in Process, NEW kind \in StoreKind, NEW p \in Preset,
         BeginToggle(a, kind, p), UNCHANGED wizard
  PROVE  IInv'
<1>1. Types' /\ Enters(arrived', a, kind, <<p>>, "read") /\ "read" \in StoreLabel
  BY BeginToggleTypes DEF IInv, StoreLabel
<1>2. WizardOK'
  BY <1>1, StoreEntersWizard DEF IInv
<1>3. StoreOK'
  <2>1. /\ UNCHANGED <<row, memory, custom, doc, writer, unsynced, recalled>>
        /\ crossed' = Crossing(arrived', {p})
    BY DEF BeginToggle, store
  <2>2. <<p>> \in Seq(Preset) /\ <<p>> # <<>> /\ {<<p>>[i] : i \in 1..Len(<<p>>)} = {p}
        /\ Len(<<p>>) = 1
    BY OneAtHand
  <2>. QED
    BY <1>1, <2>1, <2>2, StoreEnters DEF IInv
<1>. QED
  BY <1>1, <1>2, <1>3 DEF IInv

LEMMA BeginDeleteStep ==
  ASSUME IInv, NEW a \in Process, NEW p \in Preset, BeginDelete(a, p), UNCHANGED wizard
  PROVE  IInv'
<1>1. Types' /\ Enters(arrived', a, "delete", <<p>>, "erase") /\ "erase" \in StoreLabel
  BY BeginDeleteTypes DEF IInv, StoreLabel
<1>2. WizardOK'
  BY <1>1, StoreEntersWizard DEF IInv, StoreKind
<1>3. StoreOK'
  <2>1. /\ UNCHANGED <<row, doc, writer, unsynced, recalled>>
        /\ crossed' = Crossing(arrived', {p})
        /\ custom' = [custom EXCEPT ![a] = @ \ {p}]
        /\ memory' = [memory EXCEPT ![a][p] = NoDoc]
    BY DEF BeginDelete
  <2>2. <<p>> \in Seq(Preset) /\ <<p>> # <<>> /\ {<<p>>[i] : i \in 1..Len(<<p>>)} = {p}
        /\ Len(<<p>>) = 1 /\ Head(<<p>>) = p
    BY OneAtHand
  <2>3. Remembers(a, p, NoDoc)
    BY <2>1, RememberKeeps DEF IInv
  <2>4. p \notin custom'[a] /\ \A b \in Process, q \in Preset :
                                 b # a \/ q # p => (q \in custom'[b] <=> q \in custom[b])
    BY <2>1 DEF IInv, Types, TypeOK
  <2>. QED
    BY <1>1, <2>1, <2>2, <2>3, <2>4, StoreEnters DEF IInv
<1>. QED
  BY <1>1, <1>2, <1>3 DEF IInv

LEMMA BeginSeedStep ==
  ASSUME IInv, NEW a \in Process, BeginSeed(a), UNCHANGED wizard
  PROVE  IInv'
<1>1. Types' /\ Enters(arrived', a, "seed", Defaults, "write") /\ "write" \in StoreLabel
  BY BeginSeedTypes DEF IInv, StoreLabel
<1>2. WizardOK'
  BY <1>1, StoreEntersWizard DEF IInv, StoreKind
<1>3. StoreOK'
  <2>. DEFINE d == [text |-> FromFile, active |-> TRUE]
  <2>1. d \in Doc /\ Defaults \in Seq(Preset) /\ Defaults # <<>> /\ Head(Defaults) \in Preset
    BY Documents, HeadAtHand, StoreAssumption DEF BeginSeed
  <2>2. /\ doc' = [doc EXCEPT ![arrived'] = d]
        /\ memory' = [memory EXCEPT ![a][Head(Defaults)] = d]
        /\ crossed' = Crossing(arrived', {Defaults[i] : i \in DOMAIN Defaults})
        /\ UNCHANGED <<row, custom, writer, unsynced, recalled>>
    BY DEF BeginSeed
  <2>. HIDE DEF d
  <2>3. Remembers(a, Head(Defaults), d)
    BY <2>1, <2>2, RememberKeeps DEF IInv
  <2>4. DOMAIN Defaults = 1..Len(Defaults)
    BY <2>1
  <2>5. PICK n \in Update : n = arrived'
    BY <1>1 DEF Enters
  <2>6. doc'[n] = d /\ \A v \in Update \ {n} : doc'[v] = doc[v]
    BY <2>2, <2>5 DEF IInv, Types, TypeOK
  <2>7. Remembers(a, Head(Defaults), doc'[n])
    BY <2>3, <2>6
  <2>8. Enters(n, a, "seed", Defaults, "write")
        /\ crossed' = Crossing(n, {Defaults[i] : i \in 1..Len(Defaults)})
    BY <1>1, <2>2, <2>4, <2>5
  <2>. QED
    BY <1>1, <2>1, <2>2, <2>6, <2>7, <2>8, StoreEnters DEF IInv, Toggle
<1>. QED
  BY <1>1, <1>2, <1>3 DEF IInv

(* A step of the wizard's handler that creates nothing.                    *)
LEMMA ProceedsStore ==
  ASSUME Types, StoreOK, NEW u \in Update, NEW label \in WizardLabel \cup {"end"},
         pc[u] \in WizardLabel, Proceeds(u, label)
  PROVE  StoreOK'
<1>1. \A v \in Update : todo[v] = <<>> <=> pc[v] \notin StoreLabel
  BY DEF Types, Control, ControlOf
<1>2. pc[u] \notin StoreLabel /\ label \notin StoreLabel /\ todo[u] = <<>>
  BY <1>1 DEF WizardLabel, StoreLabel
<1>3. /\ UNCHANGED <<row, memory, custom, writer, unsynced, recalled, crossed, doc>>
      /\ what' = what /\ pc'[u] = label /\ todo'[u] = todo[u]
      /\ \A v \in Update \ {u} : pc'[v] = pc[v] /\ todo'[v] = todo[v] /\ on'[v] = on[v]
  BY <1>2 DEF Proceeds, Goes
<1>. QED
  BY <1>1, <1>2, <1>3, StoreIdle

LEMMA CreatesStore ==
  ASSUME Types, Types', StoreOK, NEW u \in Update, pc[u] = "wipe",
         NEW p \in Preset, NEW d \in Doc, Creates(u, p, d)
  PROVE  StoreOK'
<1>1. todo[u] = <<>> /\ on[u] \in Process
  BY DEF Types, Control, ControlOf, StoreLabel
<1>2. /\ doc'[u] = d /\ Remembers(on[u], p, d) /\ what' = what /\ crossed' = Crossing(u, {p})
      /\ pc'[u] = "write" /\ todo'[u] = <<p>> /\ on'[u] = on[u] /\ what[u] = "text"
      /\ \A v \in Update \ {u} : pc'[v] = pc[v] /\ todo'[v] = todo[v] /\ on'[v] = on[v]
                                 /\ what'[v] = what[v] /\ doc'[v] = doc[v]
      /\ UNCHANGED <<row, custom, recalled, writer, unsynced>>
  BY DEF Creates
<1>3. <<p>> # <<>> /\ Head(<<p>>) = p /\ {<<p>>[i] : i \in 1..Len(<<p>>)} = {p}
  BY OneAtHand
<1>4. Touched(u)' = {p}
  BY <1>2, <1>3 DEF Touched
<1>5. PICK a \in Process : a = on[u]
  BY <1>1
<1>6. what'[u] \notin Toggle
  BY <1>2 DEF Toggle
<1>. QED
  BY <1>1, <1>2, <1>3, <1>4, <1>5, <1>6, StoreTakesUp

LEMMA WizardStepKeeps ==
  ASSUME IInv, NEW u \in Update, WizardStep(u)
  PROVE  IInv'
<1>1. CASE GetData(u)
  <2>1. /\ Types' /\ pc[u] = "get" /\ \E label \in WizardLabel : Proceeds(u, label)
    BY <1>1, GetDataTypes DEF IInv, WizardLabel
  <2>. QED
    BY <1>1, <2>1, ProceedsStore, GetDataWizard DEF IInv, WizardLabel
<1>2. CASE SetData(u)
  BY <1>2, SetDataTypes, ProceedsStore, SetDataWizard DEF IInv, WizardLabel
<1>3. CASE SetState(u)
  BY <1>3, SetStateTypes, ProceedsStore, SetStateWizard DEF IInv, WizardLabel
<1>4. CASE ClearState(u)
  BY <1>4, ClearStateTypes, ProceedsStore, ClearStateWizard DEF IInv, WizardLabel
<1>5. CASE ClearData(u)
  <2>1. Types' /\ pc[u] = "wipe" /\ pc[u] \in WizardLabel
    BY <1>5, ClearDataTypes DEF IInv, WizardLabel
  <2>2. \/ Proceeds(u, "end")
        \/ \E p \in Preset, d \in Doc : Creates(u, p, d)
    BY <1>5, ClearDataTypes DEF IInv
  <2>3. StoreOK'
    BY <2>1, <2>2, ProceedsStore, CreatesStore DEF IInv
  <2>. QED
    BY <1>5, <2>1, <2>3, ClearDataWizard DEF IInv
<1>6. CASE Raise(u)
  BY <1>6, RaiseTypes, ProceedsStore, RaiseWizard DEF IInv
<1>. QED
  BY <1>1, <1>2, <1>3, <1>4, <1>5, <1>6 DEF WizardStep

LEMMA StoreStepKeeps ==
  ASSUME IInv, NEW u \in Update, StoreStep(u), UNCHANGED wizard
  PROVE  IInv'
<1>1. CASE ReadRow(u)
  <2>1. Types' /\ pc[u] = "read" /\ Reads(u) /\ pc[u] \in StoreLabel
    BY <1>1, ReadRowTypes DEF IInv, StoreLabel
  <2>2. /\ arrived' = arrived /\ what' = what /\ pc'[u] \in {"write", "end"}
        /\ \A v \in Update \ {u} : pc'[v] = pc[v]
    BY <2>1 DEF Reads, Goes
  <2>3. WizardOK'
    BY <2>1, <2>2, StoreStepWizard DEF IInv, StoreLabel
  <2>. QED
    BY <2>1, <2>3, StoreReads DEF IInv
<1>2. CASE WriteRow(u)
  <2>1. Types' /\ pc[u] = "write" /\ Writes(u) /\ pc[u] \in StoreLabel
    BY <1>2, WriteRowTypes DEF IInv, StoreLabel
  <2>2. /\ arrived' = arrived /\ what' = what /\ pc'[u] \in {"write", "end"}
        /\ \A v \in Update \ {u} : pc'[v] = pc[v]
    BY <2>1 DEF Writes, Goes
  <2>3. WizardOK'
    BY <2>1, <2>2, StoreStepWizard DEF IInv, StoreLabel
  <2>4. CASE Goes(u, "end") /\ memory' = memory /\ \A v \in Update \ {u} : doc'[v] = doc[v]
    BY <2>1, <2>3, <2>4, StoreEnds DEF IInv, Writes
  <2>5. CASE /\ todo[u] # <<>> /\ Len(todo[u]) # 1 /\ todo'[u] = Tail(todo[u])
             /\ Remembers(on[u], Head(Tail(todo[u])), doc[u])
             /\ \A v \in Update \ {u} : todo'[v] = todo[v]
             /\ UNCHANGED <<arrived, what, on, pc, doc, crossed>>
    BY <2>1, <2>3, <2>5, StoreNext DEF IInv, Writes
  <2>. QED
    BY <2>1, <2>4, <2>5 DEF Writes
<1>3. CASE EraseRow(u)
  <2>1. /\ Types' /\ pc[u] = "erase" /\ Goes(u, "end") /\ Queries(u, NoDoc)
        /\ UNCHANGED <<memory, custom, doc, recalled>> /\ pc[u] \in StoreLabel
    BY <1>3, EraseRowTypes DEF IInv, StoreLabel
  <2>2. /\ arrived' = arrived /\ what' = what /\ pc'[u] = "end"
        /\ \A v \in Update \ {u} : pc'[v] = pc[v]
    BY <2>1 DEF Goes
  <2>3. WizardOK'
    BY <2>1, <2>2, StoreStepWizard DEF IInv, StoreLabel
  <2>. QED
    BY <2>1, <2>3, StoreEnds DEF IInv
<1>. QED
  BY <1>1, <1>2, <1>3 DEF StoreStep

LEMMA StutterKeeps ==
  ASSUME IInv, UNCHANGED vars
  PROVE  IInv'
<1>1. UNCHANGED <<row, memory, custom, arrived, what, on, pc, todo, doc, recalled, writer,
                  unsynced, crossed, asks, data, asked, got, created, mixed, raised>>
  BY DEF vars, storeVars, store, work, ghosts, wizard
<1>2. Types'
  BY <1>1 DEF IInv, Types, TypeOK, Control, ControlOf, Asking, AskingOf
<1>3. StoreOK'
  BY <1>1 DEF IInv, StoreOK, Alone, Touched, Hand, HandOf, Apart, Matches, Changing
<1>4. WizardOK'
  BY <1>1 DEF IInv, WizardOK, Latest, Running, Chain, Rising, Since, Excused, Turns, Before,
     MadeOfOne
<1>. QED
  BY <1>2, <1>3, <1>4 DEF IInv

LEMMA Inductive == IInv /\ [Next]_vars => IInv'
<1>. SUFFICES ASSUME IInv, [Next]_vars PROVE IInv'
  OBVIOUS
<1>1. ASSUME NEW a \in WizardAt, NEW kind \in WizardKind, Message(a, kind) PROVE IInv'
  BY <1>1, MessageStep
<1>2. ASSUME UNCHANGED wizard, NEW a \in Process, NEW p \in Preset, BeginDelete(a, p) PROVE IInv'
  BY <1>2, BeginDeleteStep
<1>3. ASSUME UNCHANGED wizard, NEW a \in Process, NEW p \in Preset, NEW kind \in StoreKind,
             BeginToggle(a, kind, p)
      PROVE IInv'
  BY <1>3, BeginToggleStep
<1>4. ASSUME UNCHANGED wizard, NEW a \in Process, BeginSeed(a) PROVE IInv'
  BY <1>4, BeginSeedStep
<1>5. ASSUME NEW u \in Update, WizardStep(u) PROVE IInv'
  BY <1>5, WizardStepKeeps
<1>6. ASSUME NEW u \in Update, StoreStep(u), UNCHANGED wizard PROVE IInv'
  BY <1>6, StoreStepKeeps
<1>7. CASE UNCHANGED vars
  BY <1>7, StutterKeeps
<1>. QED
  BY <1>1, <1>2, <1>3, <1>4, <1>5, <1>6, <1>7 DEF Next

LEMMA Invariant == Spec => []IInv
<1>1. Init => IInv
  BY InitTypes, InitStoreOK, InitWizardOK DEF IInv
<1>. QED
  BY <1>1, Inductive, PTL DEF Spec

-----------------------------------------------------------------------------
(* Type correctness of the store and the wizard, however the handlers of   *)
(* the admin bot interleave and whatever queries fail.                     *)
THEOREM TypeCorrect == Spec => []TypeOK
<1>1. IInv => TypeOK
  BY DEF IInv, Types
<1>. QED
  BY <1>1, Invariant, PTL

(* The process that wrote or deleted a preset last remembers what the      *)
(* table holds (nosql.py:98-164), unless handlers crossed on the preset or *)
(* its last query failed.                                                  *)
THEOREM MemoryFollowsTable == Spec => []MemoryMatches
<1>1. ASSUME IInv, NEW a \in Process, NEW p \in Preset, InStep(a, p)
      PROVE  memory[a][p] = row[p] /\ (row[p] = NoDoc => p \notin custom[a])
  <2>1. ~Changing(a, p)
    <3>. SUFFICES ASSUME NEW u \in Update, pc[u] \in {"write", "erase"}, Head(todo[u]) = p
                  PROVE  FALSE
      BY DEF Changing
    <3>1. todo[u] # <<>>
      BY <1>1 DEF IInv, Types, Control, ControlOf, StoreLabel
    <3>2. u \in Running /\ p \in Touched(u)
      BY <1>1, <3>1, TouchedHead DEF IInv
    <3>. QED
      BY <1>1, <3>2 DEF InStep, AtWork
  <2>. QED
    BY <1>1, <2>1 DEF IInv, StoreOK, Matches, Apart, InStep
<1>2. IInv => MemoryMatches
  BY <1>1 DEF MemoryMatches
<1>. QED
  BY <1>2, Invariant, PTL

(* A preset that the wizard makes is made of the texts of one run of it,   *)
(* unless two of its updates were handled at once (presets.py:154-229).    *)
THEOREM WizardKeepsRunsApart == Spec => []WizardSavesOneRun
<1>1. IInv => WizardSavesOneRun
  <2>. SUFFICES ASSUME IInv, ~mixed, NEW u \in created
                PROVE  LET f == [k \in 1..LastField |-> IF k = LastField THEN u ELSE got[u][k]]
                       IN  /\ \A k \in 2..LastField : f[k - 1] < f[k]
                           /\ \A v \in f[1]..u : what[v] \in {"start", "menu"} => v \in raised
    BY DEF WizardSavesOneRun
  <2>. DEFINE f == [k \in 1..LastField |-> IF k = LastField THEN u ELSE got[u][k]]
  <2>1. MadeOfOne(u)
    BY DEF IInv, WizardOK
  <2>2. f[LastField] = u /\ f[1] = got[u][1] /\ \A k \in 1..(LastField - 1) : f[k] = got[u][k]
    BY Constants
  <2>3. ASSUME NEW k \in 2..LastField PROVE f[k - 1] < f[k]
    <3>1. CASE k = LastField
      BY <2>1, <2>2, <3>1, Constants DEF MadeOfOne, Before
    <3>2. CASE k # LastField
      <4>1. k \in 2..(LastField - 1) /\ k - 1 \in 1..(LastField - 1) /\ k \in 1..(LastField - 1)
        BY <3>2, Constants
      <4>2. got[u][k - 1] < got[u][k]
        BY <2>1, <4>1 DEF MadeOfOne, Rising
      <4>. HIDE DEF f
      <4>. QED
        BY <2>2, <4>1, <4>2
    <3>. QED
      BY <3>1, <3>2
  <2>4. \A v \in f[1]..u : what[v] \in {"start", "menu"} => v \in raised
    BY <2>1, <2>2 DEF MadeOfOne
  <2>. QED
    BY <2>3, <2>4
<1>. QED
  BY <1>1, Invariant, PTL

(* Only the queries of WriteRow and EraseRow change the table.             *)
LEMMA RowsChange ==
  ASSUME IInv, Next, row' # row
  PROVE  \E v \in Update : (WriteRow(v) \/ EraseRow(v)) /\ UNCHANGED wizard
<1>1. ASSUME NEW a \in WizardAt, NEW kind \in WizardKind, Message(a, kind) PROVE row' = row
  BY <1>1 DEF Message, store
<1>2. ASSUME NEW a \in Process, NEW p \in Preset, BeginDelete(a, p) PROVE row' = row
  BY <1>2 DEF BeginDelete
<1>3. ASSUME NEW a \in Process, NEW p \in Preset, NEW kind \in StoreKind, BeginToggle(a, kind, p)
      PROVE row' = row
  BY <1>3 DEF BeginToggle, store
<1>4. ASSUME NEW a \in Process, BeginSeed(a) PROVE row' = row
  BY <1>4 DEF BeginSeed
<1>5. ASSUME NEW v \in Update, WizardStep(v) PROVE row' = row
  <2>1. CASE ClearData(v)
    BY <2>1, ClearDataTypes DEF IInv, Proceeds, Creates
  <2>2. CASE GetData(v)
    BY <2>2, GetDataTypes DEF IInv, Proceeds
  <2>3. CASE SetData(v) \/ SetState(v) \/ ClearState(v) \/ Raise(v)
    BY <2>3, SetDataTypes, SetStateTypes, ClearStateTypes, RaiseTypes DEF IInv, Proceeds
  <2>. QED
    BY <1>5, <2>1, <2>2, <2>3 DEF WizardStep
<1>6. ASSUME NEW v \in Update, ReadRow(v) PROVE row' = row
  BY <1>6 DEF ReadRow
<1>. QED
  BY <1>1, <1>2, <1>3, <1>4, <1>5, <1>6 DEF Next, StoreStep

(* What a toggle that ends leaves in the table.                            *)
LEMMA ToggleEnds ==
  ASSUME IInv, Next, NEW u \in Update, pc[u] = "write", pc'[u] = "end",
         what[u] \in {"enable", "disable"}, row' # row
  PROVE  /\ Queries(u, doc[u]) /\ Head(todo[u]) \in Preset
         /\ Head(todo[u]) \notin crossed => HandOf(u, Head(todo[u]))
<1>1. WriteRow(u) /\ UNCHANGED wizard
  <2>1. PICK v \in Update : (WriteRow(v) \/ EraseRow(v)) /\ UNCHANGED wizard
    BY RowsChange
  <2>2. CASE EraseRow(v)
    <3>1. pc[v] = "erase" /\ Goes(v, "end")
      BY <2>1, <2>2, EraseRowTypes DEF IInv
    <3>. QED
      BY <3>1 DEF Goes
  <2>3. CASE WriteRow(v)
    <3>1. Writes(v)
      BY <2>1, <2>3, WriteRowTypes DEF IInv
    <3>2. v = u
      BY <3>1 DEF Writes, Goes
    <3>. QED
      BY <2>1, <2>3, <3>2
  <2>. QED
    BY <2>1, <2>2, <2>3
<1>2. Queries(u, doc[u])
  BY <1>1, WriteRowTypes DEF IInv, Writes
<1>3. todo[u] # <<>> /\ Head(todo[u]) \in Preset
  BY AtWorkOn DEF IInv, StoreLabel
<1>. QED
  BY <1>2, <1>3 DEF IInv, StoreOK, Hand

(* Enabling or disabling a preset writes back the text it found: another   *)
(* one only if handlers crossed, or if the toggle took the document of its *)
(* memory (nosql.py:130-139).                                              *)
THEOREM TogglesKeepText == Spec => NoLostEdit
<1>1. ASSUME IInv, Next, NEW u \in Update, pc[u] = "write", pc'[u] = "end",
             what[u] \in {"enable", "disable"}, row' # row,
             Head(todo[u]) \notin crossed, u \notin recalled
      PROVE  row'[Head(todo[u])].text = row[Head(todo[u])].text
  <2>1. Queries(u, doc[u]) /\ HandOf(u, Head(todo[u]))
    BY <1>1, ToggleEnds
  <2>2. doc[u].text = row[Head(todo[u])].text
    BY <1>1, <2>1 DEF HandOf, Toggle
  <2>. QED
    BY <1>1, <2>1, <2>2 DEF Queries
<1>2. UNCHANGED vars => UNCHANGED storeVars
  BY DEF vars
<1>3. IInv /\ [Next]_vars =>
        [\A u \in Update :
           /\ pc[u] = "write" /\ pc'[u] = "end" /\ what[u] \in {"enable", "disable"}
           /\ row' # row
           => LET p == Head(todo[u])
              IN  row'[p].text = row[p].text \/ p \in crossed \/ u \in recalled]_storeVars
  BY <1>1, <1>2
<1>. QED
  BY <1>3, Invariant, PTL DEF Spec, NoLostEdit

(* A toggle brings a deleted preset back only if another process deleted   *)
(* it, if the last query of its own process for it failed, or if handlers  *)
(* crossed: otherwise the process has forgotten the preset, and the toggle *)
(* finds nothing to change (nosql.py:90-96, 130-139, 145-164).             *)
THEOREM DeletionsLast == Spec => DeletedStaysDeleted
<1>1. ASSUME IInv, Next, NEW u \in Update, pc[u] = "write", pc'[u] = "end",
             what[u] \in {"enable", "disable"},
             row[Head(todo[u])] = NoDoc, row'[Head(todo[u])] # NoDoc,
             Head(todo[u]) \notin crossed
      PROVE  \/ writer[Head(todo[u])] \notin {on[u], NoProcess}
             \/ <<on[u], Head(todo[u])>> \in unsynced
  <2>1. row' # row
    BY <1>1
  <2>2. HandOf(u, Head(todo[u]))
    BY <1>1, <2>1, ToggleEnds
  <2>. QED
    BY <1>1, <2>2 DEF HandOf, Toggle, Apart
<1>2. UNCHANGED vars => UNCHANGED storeVars
  BY DEF vars
<1>3. IInv /\ [Next]_vars =>
        [\A u \in Update :
           /\ pc[u] = "write" /\ pc'[u] = "end" /\ what[u] \in {"enable", "disable"}
           => LET p == Head(todo[u])
              IN  row[p] = NoDoc /\ row'[p] # NoDoc =>
                    \/ writer[p] \notin {on[u], NoProcess}
                    \/ <<on[u], p>> \in unsynced
                    \/ p \in crossed]_storeVars
  BY <1>1, <1>2
<1>. QED
  BY <1>3, Invariant, PTL DEF Spec, DeletedStaysDeleted
=============================================================================
