---------------------------- MODULE ReportProofs ----------------------------
(***************************************************************************)
(* Theorems about AnalyticsReport, for rows of any number and content: the *)
(* pages of one summary agree, the table of buttons counts the clicks, and *)
(* the live feed shows the newest events.                                  *)
(*                                                                         *)
(* Tally, Only and the sums are folds.  A fold of the library is the       *)
(* function that satisfies an equation; that there is one is shown by      *)
(* induction on the size of the set that is folded, and what it computes   *)
(* by induction on the rows.  Induction is SetInduction, which rests on    *)
(* the least element of a set of natural numbers.                          *)
(***************************************************************************)
EXTENDS AnalyticsReport, FiniteSetTheorems, SequenceTheorems, WellFoundedInduction, TLAPS

(* A set of natural numbers that is not empty has a least element.         *)
LEMMA LeastNatural ==
  ASSUME NEW T \in SUBSET Nat, T # {}
  PROVE  \E n \in T : \A m \in T : n <= m
<1>1. IsWellFoundedOn(OpToRel(<, Nat), Nat)
  BY NatLessThanWellFounded
<1>2. PICK n \in T : \A m \in T : <<m, n>> \notin OpToRel(<, Nat)
  BY <1>1, WFMin
<1>3. \A m \in T : ~(m < n)
  BY <1>2 DEF OpToRel
<1> QED
  BY <1>3

(* Induction over a set T of numbers: what holds of 0, and of k + 1 when   *)
(* it holds of k, holds up to n.                                           *)
LEMMA SetInduction ==
  ASSUME NEW n \in Nat, NEW T, 0 \in T,
         \A k \in 0..(n - 1) : k \in T => k + 1 \in T
  PROVE  \A k \in 0..n : k \in T
<1> SUFFICES ASSUME NEW j \in 0..n, j \notin T PROVE FALSE
  OBVIOUS
<1> DEFINE U == {k \in 0..n : k \notin T}
<1>1. U \in SUBSET Nat /\ U # {}
  OBVIOUS
<1>2. PICK m \in U : \A k \in U : m <= k
  <2> HIDE DEF U
  <2> QED BY <1>1, LeastNatural
<1>3. m # 0 /\ m-1 \in 0..(n-1)
  BY <1>2
<1>4. m-1 \in T
  <2>1. m-1 \notin U
    BY <1>2, <1>3
  <2> QED BY <2>1, <1>3
<1> QED BY <1>3, <1>4, <1>2

(* pick[s] is the member of s that is taken out first.                     *)
Picks(pick, S) == \A s \in SUBSET S : s # {} => pick[s] \in s

(* What comes out of a step can go into the next.                          *)
Steps(step, X, S) == \A x \in X, i \in S : step[x][i] \in X

(* g folds every part of S, from base.                                     *)
Folds(g, S, base, pick, step) ==
  \A s \in SUBSET S :
    g[s] = IF s = {} THEN base ELSE step[g[s \ {pick[s]}]][pick[s]]

(* The equation of a fold over a finite set has a solution, whatever       *)
(* element is taken out first.                                             *)
LEMMA FoldExists ==
  ASSUME NEW S, NEW X, NEW base, NEW pick, NEW step,
         IsFiniteSet(S), base \in X, Picks(pick, S), Steps(step, X, S)
  PROVE  \E g \in [SUBSET S -> X] : Folds(g, S, base, pick, step)
<1> USE DEF Picks, Steps
<1> DEFINE N == Cardinality(S)
           Step(g, s) == IF s = {} THEN base ELSE step[g[s \ {pick[s]}]][pick[s]]
           UpTo(g, k) == \A s \in SUBSET S : Cardinality(s) <= k => g[s] = Step(g, s)
           T == {k \in 0..N : \E g \in [SUBSET S -> X] : UpTo(g, k)}
<1>1. N \in Nat /\ \A s \in SUBSET S : /\ IsFiniteSet(s) /\ Cardinality(s) \in 0..N
                                       /\ Cardinality(s) = 0 <=> s = {}
  BY FS_Subset, FS_CardinalityType, FS_EmptySet
<1>2. 0 \in T
  <2>1. [s \in SUBSET S |-> base] \in [SUBSET S -> X]
    OBVIOUS
  <2>2. UpTo([s \in SUBSET S |-> base], 0)
    BY <1>1
  <2> QED
    BY <2>1, <2>2, <1>1
<1>3. ASSUME NEW k \in 0..(N - 1), k \in T PROVE k + 1 \in T
  <2>1. PICK g \in [SUBSET S -> X] : UpTo(g, k)
    BY <1>3
  <2> DEFINE h == [s \in SUBSET S |-> Step(g, s)]
  <2>2. h \in [SUBSET S -> X]
    <3>1. ASSUME NEW s \in SUBSET S PROVE Step(g, s) \in X
      <4>1. CASE s = {}
        BY <4>1
      <4>2. CASE s # {}
        <5>1. pick[s] \in S /\ s \ {pick[s]} \in SUBSET S
          BY <4>2
        <5>2. g[s \ {pick[s]}] \in X
          BY <5>1
        <5> QED
          BY <5>1, <5>2, <4>2
      <4> QED
        BY <4>1, <4>2
    <3> QED
      BY <3>1
  <2>3. ASSUME NEW s \in SUBSET S, Cardinality(s) <= k + 1 PROVE h[s] = Step(h, s)
    <3>1. CASE s = {}
      BY <3>1
    <3>2. CASE s # {}
      <4> DEFINE t == s \ {pick[s]}
      <4>1. t \in SUBSET S /\ Cardinality(t) = Cardinality(s) - 1
        BY <3>2, <1>1, FS_RemoveElement
      <4>2. Cardinality(t) <= k
        BY <4>1, <2>3, <1>1, <1>3
      <4>3. h[t] = g[t]
        BY <4>1, <4>2, <2>1
      <4>4. Step(h, s) = Step(g, s)
        BY <4>3, <3>2
      <4> QED
        BY <4>4
    <3> QED
      BY <3>1, <3>2
  <2>4. UpTo(h, k + 1)
    BY <2>3
  <2>5. \E f \in [SUBSET S -> X] : UpTo(f, k + 1)
    <3> HIDE DEF h
    <3> WITNESS h \in [SUBSET S -> X]
    <3> QED
      BY <2>4
  <2>6. k + 1 \in 0..N
    BY <1>1, <1>3
  <2> HIDE DEF UpTo
  <2> QED
    BY <2>5, <2>6
<1>4. N \in T
  <2>1. \A k \in 0..N : k \in T
    <3> HIDE DEF T
    <3> QED
      BY <1>1, <1>2, <1>3, SetInduction
  <2> QED
    BY <2>1, <1>1
<1>5. PICK g \in [SUBSET S -> X] : UpTo(g, N)
  BY <1>4
<1>6. ASSUME NEW s \in SUBSET S PROVE g[s] = Step(g, s)
  <2>1. Cardinality(s) <= N
    BY <1>1
  <2> QED
    BY <1>5, <2>1
<1>7. Folds(g, S, base, pick, step)
  BY <1>6 DEF Folds
<1> QED
  BY <1>7

-----------------------------------------------------------------------------
(* Max picks a member of a set of places.                                  *)
LEMMA MaxOfPlaces ==
  ASSUME NEW n \in Nat, NEW s \in SUBSET (1..n), s # {}
  PROVE  Max(s) \in s
<1> DEFINE T == {n - x : x \in s}
<1>1. T \in SUBSET Nat /\ T # {}
  <2>1. \A x \in s : n - x \in Nat
    OBVIOUS
  <2>2. PICK x \in s : TRUE
    OBVIOUS
  <2>3. n - x \in T
    OBVIOUS
  <2> QED
    BY <2>1, <2>3
<1>2. PICK m \in T : \A k \in T : m <= k
  <2> HIDE DEF T
  <2> QED
    BY <1>1, LeastNatural
<1>3. PICK x \in s : m = n - x
  BY <1>2
<1>4. ASSUME NEW y \in s PROVE x >= y
  <2>1. n - y \in T
    OBVIOUS
  <2>2. n - x <= n - y
    BY <1>2, <1>3, <2>1
  <2> QED
    BY <2>2
<1>5. \E z \in s : \A y \in s : z >= y
  BY <1>4
<1> QED
  BY <1>5 DEF Max

(* The last of the first n places.                                         *)
LEMMA MaxOfPrefix ==
  ASSUME NEW n \in Nat \ {0}
  PROVE  Max(1..n) = n /\ (1..n) \ {n} = 1..(n - 1)
<1>1. n \in 1..n /\ \A y \in 1..n : n >= y
  OBVIOUS
<1>2. \A x \in 1..n : (\A y \in 1..n : x >= y) => x = n
  OBVIOUS
<1>3. Max(1..n) = n
  BY <1>1, <1>2 DEF Max
<1> QED
  BY <1>3

(* The names of items.  The literals are strings too, which no prover of    *)
(* tlapm is told.                                                          *)
Word == STRING \cup {"text", "UnknownError", "unknown_button", "unknown_command", "default"}

(* The types of items, of the entries of a tally, and of tallies.          *)
ItemSet == [name : Word, user : Nat]
EntrySet == [count : Nat, users : SUBSET Nat]
TallySet == [names : Seq(Word), of : UNION {[D -> EntrySet] : D \in SUBSET Word}]

(* Counting an item keeps the type of a tally.                             *)
LEMMA CountedType ==
  ASSUME NEW stats \in TallySet, NEW item \in ItemSet
  PROVE  Counted(stats, item) \in TallySet
<1> DEFINE D == DOMAIN stats.of
           old == IF item.name \in D THEN stats.of[item.name] ELSE Fresh
           entry == [count |-> old.count + 1, users |-> old.users \cup ({item.user} \ {0})]
           E == D \cup {item.name}
           of == [n \in E |-> IF n = item.name THEN entry ELSE stats.of[n]]
           names == IF item.name \in D THEN stats.names ELSE Append(stats.names, item.name)
<1>1. D \in SUBSET Word /\ stats.of \in [D -> EntrySet]
  BY DEF TallySet
<1>2. item.name \in Word /\ item.user \in Nat
  BY DEF ItemSet
<1>3. old \in EntrySet
  <2>1. Fresh \in EntrySet
    BY EmptySeq DEF Fresh, EntrySet
  <2> QED
    BY <1>1, <2>1
<1>4. old.count \in Nat /\ old.users \in SUBSET Nat
  <2> HIDE DEF old
  <2> QED
    BY <1>3 DEF EntrySet
<1>6. entry \in EntrySet
  <2> HIDE DEF old
  <2> QED
    BY <1>2, <1>4 DEF EntrySet
<1>7. E \in SUBSET Word /\ of \in [E -> EntrySet]
  <2> HIDE DEF entry
  <2> QED
    BY <1>1, <1>2, <1>6
<1>8. names \in Seq(Word)
  <2>1. stats.names \in Seq(Word)
    BY DEF TallySet
  <2> QED
    BY <1>2, <2>1, AppendProperties
<1>9. of \in UNION {[C -> EntrySet] : C \in SUBSET Word}
  <2> HIDE DEF E, of
  <2> QED
    BY <1>7
<1>10. Counted(stats, item) = [names |-> names, of |-> of]
  BY DEF Counted, Put
<1> HIDE DEF names, of
<1> QED
  BY <1>8, <1>9, <1>10 DEF TallySet

(* What FoldLeft with Counted unfolds to.                                  *)
TallyEquation(g, items) ==
  g = [s \in SUBSET (DOMAIN items) |->
         IF s = {} THEN Nothing ELSE Counted(g[s \ {Max(s)}], items[Max(s)])]

(* Tally is what the folds of the library unfold to,                       *)
LEMMA TallyByEquation ==
  ASSUME NEW items
  PROVE  Tally(items) = (CHOOSE g : TallyEquation(g, items))[DOMAIN items]
BY Zenon DEF Tally, FoldLeft, MapThenFoldSet, TallyEquation

(* and its equation has a solution.                                        *)
LEMMA TallyEquationHolds ==
  ASSUME NEW items \in Seq(ItemSet)
  PROVE  \E g : TallyEquation(g, items) /\ g \in [SUBSET (DOMAIN items) -> TallySet]
<1> DEFINE S == 1..Len(items)
           X == TallySet
           pick == [s \in SUBSET S |-> Max(s)]
           step == [x \in X |-> [i \in S |-> Counted(x, items[i])]]
<1>1. Len(items) \in Nat /\ DOMAIN items = S /\ \A i \in S : items[i] \in ItemSet
  BY LenProperties, ElementOfSeq
<1>2. IsFiniteSet(S)
  BY <1>1, FS_Interval
<1>3. Nothing \in X
  <2>1. <<>> \in [{} -> EntrySet] /\ {} \in SUBSET Word /\ <<>> \in Seq(Word)
    BY EmptySeq
  <2>2. <<>> \in UNION {[D -> EntrySet] : D \in SUBSET Word}
    BY <2>1
  <2> QED
    BY <2>1, <2>2 DEF Nothing, TallySet
<1>4. Picks(pick, S)
  BY <1>1, MaxOfPlaces DEF Picks
<1>5. Steps(step, X, S)
  BY <1>1, CountedType DEF Steps
<1>6. PICK g \in [SUBSET S -> X] : Folds(g, S, Nothing, pick, step)
  <2> HIDE DEF S, X, pick, step
  <2> QED
    BY <1>2, <1>3, <1>4, <1>5, FoldExists
<1>7. ASSUME NEW s \in SUBSET S
      PROVE  g[s] = IF s = {} THEN Nothing ELSE Counted(g[s \ {Max(s)}], items[Max(s)])
  <2>1. CASE s = {}
    BY <1>6, <2>1 DEF Folds
  <2>2. CASE s # {}
    <3>1. pick[s] = Max(s) /\ Max(s) \in S
      BY <1>1, <2>2, MaxOfPlaces
    <3>2. s \ {Max(s)} \in SUBSET S
      OBVIOUS
    <3>3. g[s \ {Max(s)}] \in X
      <4> HIDE DEF X, S
      <4> QED
        BY <3>2
    <3>4. step[g[s \ {Max(s)}]][Max(s)] = Counted(g[s \ {Max(s)}], items[Max(s)])
      <4> HIDE DEF X, S
      <4> QED
        BY <3>1, <3>3
    <3> HIDE DEF step, X
    <3> QED
      BY <1>6, <2>2, <3>1, <3>4 DEF Folds
  <2> QED
    BY <2>1, <2>2
<1>8. TallyEquation(g, items)
  <2> HIDE DEF X, S
  <2> QED
    BY <1>1, <1>7 DEF TallyEquation
<1> QED
  BY <1>8, <1>1

(* A tally is reached by counting one item after the other.                *)
LEMMA TallySteps ==
  ASSUME NEW items \in Seq(ItemSet)
  PROVE  \E h : /\ h[0] = Nothing
                /\ \A k \in 1..Len(items) : h[k] = Counted(h[k - 1], items[k])
                /\ Tally(items) = h[Len(items)]
<1> DEFINE n == Len(items)
           g == CHOOSE f : TallyEquation(f, items)
           h == [k \in 0..n |-> g[1..k]]
<1>1. n \in Nat /\ DOMAIN items = 1..n
  BY LenProperties
<1>2. TallyEquation(g, items)
  <2>1. \E f : TallyEquation(f, items)
    BY TallyEquationHolds
  <2> QED
    BY <2>1
<1>3. Tally(items) = g[1..n]
  BY <1>1, TallyByEquation
<1> HIDE DEF g
<1>4. \A s \in SUBSET (1..n) :
        g[s] = IF s = {} THEN Nothing ELSE Counted(g[s \ {Max(s)}], items[Max(s)])
  <2> HIDE DEF n
  <2> QED
    BY <1>1, <1>2 DEF TallyEquation
<1>5. h[0] = Nothing
  <2>1. 0 \in 0..n /\ 1..0 = {}
    BY <1>1
  <2> QED
    BY <1>4, <2>1
<1>6. ASSUME NEW k \in 1..n PROVE h[k] = Counted(h[k - 1], items[k])
  <2>a. k \in Nat \ {0} /\ k \in 0..n /\ k - 1 \in 0..n /\ k \in 1..k
    BY <1>1
  <2>b. \A i \in 1..k : i \in 1..n
    BY <1>1
  <2>1. /\ k \in Nat \ {0} /\ k \in 0..n /\ k - 1 \in 0..n
        /\ 1..k \in SUBSET (1..n) /\ 1..k # {}
    <3> HIDE DEF n
    <3> QED
      BY <2>a, <2>b
  <2>2. Max(1..k) = k /\ (1..k) \ {k} = 1..(k - 1)
    BY <2>1, MaxOfPrefix
  <2>3. g[1..k] = Counted(g[1..(k - 1)], items[k])
    <3> HIDE DEF n
    <3>1. g[1..k] = Counted(g[(1..k) \ {Max(1..k)}], items[Max(1..k)])
      BY <1>4, <2>1
    <3> QED
      BY <2>2, <3>1
  <2>4. h[k] = g[1..k] /\ h[k - 1] = g[1..(k - 1)]
    BY <2>1
  <2> QED
    BY <2>3, <2>4
<1>7. Tally(items) = h[n]
  BY <1>1, <1>3
<1> HIDE DEF h
<1> QED
  BY <1>5, <1>6, <1>7

(* The places of a name among the first k items.                           *)
At(items, k, n) == {i \in 1..k : items[i].name = n}

(* What a tally of the first k items is.                                   *)
TallyOf(stats, items, k) ==
  /\ stats \in TallySet
  /\ \A i, j \in DOMAIN stats.names : i # j => stats.names[i] # stats.names[j]
  /\ \A i \in DOMAIN stats.names : stats.names[i] \in DOMAIN stats.of
  /\ \A m \in DOMAIN stats.of : \E i \in DOMAIN stats.names : m = stats.names[i]
  /\ DOMAIN stats.of = {items[i].name : i \in 1..k}
  /\ \A m \in DOMAIN stats.of :
       /\ stats.of[m].count = Cardinality(At(items, k, m))
       /\ stats.of[m].users = {items[i].user : i \in At(items, k, m)} \ {0}

(* The places of a name among the first k + 1 items.                       *)
LEMMA AtGrows ==
  ASSUME NEW items, NEW k \in Nat, NEW m
  PROVE  /\ IsFiniteSet(At(items, k, m)) /\ Cardinality(At(items, k, m)) \in Nat
         /\ At(items, k + 1, m) = IF items[k + 1].name = m THEN At(items, k, m) \cup {k + 1}
                                  ELSE At(items, k, m)
         /\ Cardinality(At(items, k + 1, m)) =
              Cardinality(At(items, k, m)) + IF items[k + 1].name = m THEN 1 ELSE 0
<1>1. IsFiniteSet(At(items, k, m)) /\ Cardinality(At(items, k, m)) \in Nat
  <2>1. At(items, k, m) \subseteq 1..k
    BY DEF At
  <2>2. IsFiniteSet(1..k)
    BY FS_Interval
  <2>3. IsFiniteSet(At(items, k, m))
    BY <2>1, <2>2, FS_Subset
  <2> QED
    BY <2>3, FS_CardinalityType
<1>2. At(items, k + 1, m) = IF items[k + 1].name = m THEN At(items, k, m) \cup {k + 1}
                            ELSE At(items, k, m)
  <2>1. 1..(k + 1) = (1..k) \cup {k + 1}
    OBVIOUS
  <2> QED
    BY <2>1 DEF At
<1>3. k + 1 \notin At(items, k, m)
  BY DEF At
<1>4. Cardinality(At(items, k, m) \cup {k + 1}) = Cardinality(At(items, k, m)) + 1
  BY <1>1, <1>3, FS_AddElement
<1> QED
  BY <1>1, <1>2, <1>4

(* One more item counted: the tally stays true to the items so far.        *)
LEMMA CountedCounts ==
  ASSUME NEW items, NEW k \in Nat, items[k + 1] \in ItemSet,
         NEW stats, TallyOf(stats, items, k)
  PROVE  TallyOf(Counted(stats, items[k + 1]), items, k + 1)
<1> DEFINE item == items[k + 1]
           D == DOMAIN stats.of
           new == Counted(stats, item)
           old == IF item.name \in D THEN stats.of[item.name] ELSE Fresh
           entry == [count |-> old.count + 1, users |-> old.users \cup ({item.user} \ {0})]
<1>1. stats \in TallySet /\ item \in ItemSet /\ new \in TallySet
  BY CountedType DEF TallyOf
<1>2. /\ new.names = IF item.name \in D THEN stats.names ELSE Append(stats.names, item.name)
      /\ DOMAIN new.of = D \cup {item.name}
      /\ \A m \in D \cup {item.name} :
           new.of[m] = IF m = item.name THEN entry ELSE stats.of[m]
  BY DEF Counted, Put
<1> HIDE DEF new
<1>3. DOMAIN new.of = {items[i].name : i \in 1..(k + 1)}
  <2>1. 1..(k + 1) = (1..k) \cup {k + 1}
    OBVIOUS
  <2>2. D = {items[i].name : i \in 1..k}
    BY DEF TallyOf
  <2>3. DOMAIN new.of = D \cup {item.name}
    BY <1>2
  <2> HIDE DEF D
  <2>4. \A x \in D : \E i \in 1..(k + 1) : x = items[i].name
    BY <2>1, <2>2
  <2>5. \A i \in 1..(k + 1) : items[i].name \in D \cup {item.name}
    BY <2>1, <2>2
  <2>6. k + 1 \in 1..(k + 1)
    BY <2>1
  <2> QED
    BY <2>3, <2>4, <2>5, <2>6
<1>4. stats.names \in Seq(Word) /\ item.name \in Word /\ item.user \in Nat
  BY <1>1 DEF TallySet, ItemSet
<1>5. /\ \A i, j \in DOMAIN new.names : i # j => new.names[i] # new.names[j]
      /\ \A i \in DOMAIN new.names : new.names[i] \in DOMAIN new.of
      /\ \A m \in DOMAIN new.of : \E i \in DOMAIN new.names : m = new.names[i]
  <2>1. CASE item.name \in D
    <3>1. new.names = stats.names /\ DOMAIN new.of = D
      BY <1>2, <2>1
    <3> QED
      BY <3>1 DEF TallyOf
  <2>2. CASE item.name \notin D
    <3> DEFINE l == Len(stats.names)
    <3>1. l \in Nat /\ DOMAIN stats.names = 1..l
      BY <1>4, LenProperties
    <3>2. /\ DOMAIN new.names = 1..(l + 1)
          /\ \A i \in 1..l : new.names[i] = stats.names[i]
          /\ new.names[l + 1] = item.name
      BY <1>2, <1>4, <2>2, <3>1, AppendProperties
    <3>3. 1..(l + 1) = (1..l) \cup {l + 1} /\ l + 1 \notin 1..l
      BY <3>1
    <3>4. \A i \in 1..l : new.names[i] \in D
      BY <3>1, <3>2 DEF TallyOf
    <3>5. \A i, j \in 1..l : i # j => new.names[i] # new.names[j]
      BY <3>1, <3>2 DEF TallyOf
    <3>6. \A m \in D : \E i \in 1..l : m = new.names[i]
      <4>1. \A m \in D : \E i \in 1..l : m = stats.names[i]
        BY <3>1 DEF TallyOf
      <4> HIDE DEF D, l
      <4> QED
        BY <3>2, <4>1
    <3> HIDE DEF l, D, item
    <3>7. \A i, j \in DOMAIN new.names : i # j => new.names[i] # new.names[j]
      BY <3>2, <3>3, <3>4, <3>5, <2>2
    <3>8. \A i \in DOMAIN new.names : new.names[i] \in DOMAIN new.of
      BY <3>2, <3>3, <3>4, <1>2
    <3>9. \A m \in DOMAIN new.of : \E i \in DOMAIN new.names : m = new.names[i]
      BY <3>2, <3>3, <3>6, <1>2
    <3> QED
      BY <3>7, <3>8, <3>9
  <2> QED
    BY <2>1, <2>2
<1>6. ASSUME NEW m \in DOMAIN new.of
      PROVE  /\ new.of[m].count = Cardinality(At(items, k + 1, m))
             /\ new.of[m].users = {items[i].user : i \in At(items, k + 1, m)} \ {0}
  <2>1. CASE m # item.name
    <3>1. m \in D /\ new.of[m] = stats.of[m]
      BY <1>2, <2>1
    <3>2. At(items, k + 1, m) = At(items, k, m)
      BY <2>1, AtGrows
    <3> QED
      BY <3>1, <3>2 DEF TallyOf
  <2>2. CASE m = item.name
    <3>1. new.of[m] = entry
      BY <1>2, <2>2
    <3>2. new.of[m].count = old.count + 1 /\ new.of[m].users = old.users \cup ({item.user} \ {0})
      <4> HIDE DEF old
      <4> QED
        BY <3>1
    <3>3. /\ old.count = Cardinality(At(items, k, m))
          /\ old.users = {items[i].user : i \in At(items, k, m)} \ {0}
      <4>1. CASE m \in D
        <5>1. old = stats.of[m]
          BY <4>1, <2>2
        <5> HIDE DEF old
        <5> QED
          BY <4>1, <5>1 DEF TallyOf
      <4>2. CASE m \notin D
        <5>1. old.count = 0 /\ old.users = {}
          BY <4>2, <2>2 DEF Fresh
        <5>2. At(items, k, m) = {}
          BY <4>2 DEF TallyOf, At
        <5> HIDE DEF old
        <5> QED
          BY <5>1, <5>2, FS_EmptySet
      <4> QED
        BY <4>1, <4>2
    <3>4. /\ At(items, k + 1, m) = At(items, k, m) \cup {k + 1}
          /\ Cardinality(At(items, k + 1, m)) = Cardinality(At(items, k, m)) + 1
      BY <2>2, AtGrows
    <3> HIDE DEF old
    <3> QED
      BY <3>2, <3>3, <3>4
  <2> QED
    BY <2>1, <2>2
<1> QED
  BY <1>1, <1>3, <1>5, <1>6 DEF TallyOf, new

(* A tally has each name once, with the number and the users of its items. *)
LEMMA TallyCounts ==
  ASSUME NEW items \in Seq(ItemSet)
  PROVE  TallyOf(Tally(items), items, Len(items))
<1> DEFINE n == Len(items)
<1>1. n \in Nat /\ \A k \in 1..n : items[k] \in ItemSet
  BY LenProperties, ElementOfSeq
<1>2. PICK h : /\ h[0] = Nothing
               /\ \A k \in 1..n : h[k] = Counted(h[k - 1], items[k])
               /\ Tally(items) = h[n]
  BY TallySteps
<1> DEFINE T == {k \in 0..n : TallyOf(h[k], items, k)}
<1>3. 0 \in T
  <2>1. Nothing \in TallySet
    <3>1. <<>> \in [{} -> EntrySet] /\ {} \in SUBSET Word /\ <<>> \in Seq(Word)
      BY EmptySeq
    <3>2. <<>> \in UNION {[D -> EntrySet] : D \in SUBSET Word}
      BY <3>1
    <3> QED
      BY <3>1, <3>2 DEF Nothing, TallySet
  <2>2. DOMAIN Nothing.names = {} /\ DOMAIN Nothing.of = {} /\ 1..0 = {}
    BY DEF Nothing
  <2>3. TallyOf(Nothing, items, 0)
    BY <2>1, <2>2 DEF TallyOf
  <2> QED
    BY <1>1, <1>2, <2>3
<1>4. ASSUME NEW k \in 0..(n - 1), k \in T PROVE k + 1 \in T
  <2>1. k \in Nat /\ k + 1 \in 1..n /\ k + 1 \in 0..n /\ (k + 1) - 1 = k
    BY <1>1
  <2>2. h[k + 1] = Counted(h[k], items[k + 1])
    BY <1>2, <2>1
  <2>3. TallyOf(h[k], items, k)
    BY <1>4
  <2>4. TallyOf(h[k + 1], items, k + 1)
    <3> HIDE DEF n
    <3> QED
      BY <1>1, <2>1, <2>2, <2>3, CountedCounts
  <2> QED
    BY <2>1, <2>4
<1>5. \A k \in 0..n : k \in T
  <2> HIDE DEF T, n
  <2> QED
    BY <1>1, <1>3, <1>4, SetInduction
<1>6. n \in T
  BY <1>1, <1>5
<1> QED
  BY <1>2, <1>6

-----------------------------------------------------------------------------
(* The places that come before i.                                          *)
Ahead(key, i) == {j \in DOMAIN key : Before(key, j, i)}

(* Who comes after another has strictly more places ahead of it.           *)
LEMMA AheadGrows ==
  ASSUME NEW n \in Nat, NEW key \in [1..n -> Nat],
         NEW i \in 1..n, NEW j \in 1..n, Before(key, i, j)
  PROVE  Cardinality(Ahead(key, i)) < Cardinality(Ahead(key, j))
<1>1. IsFiniteSet(1..n) /\ Ahead(key, i) \subseteq 1..n /\ Ahead(key, j) \subseteq 1..n
  <2>1. IsFiniteSet(1..n)
    BY FS_Interval
  <2>2. DOMAIN key = 1..n
    OBVIOUS
  <2> QED
    BY <2>1, <2>2 DEF Ahead
<1>2. IsFiniteSet(Ahead(key, j)) /\ IsFiniteSet(Ahead(key, i))
  BY <1>1, FS_Subset
<1>3. Ahead(key, i) \subseteq Ahead(key, j)
  <2>1. SUFFICES ASSUME NEW x \in 1..n, Before(key, x, i) PROVE Before(key, x, j)
    BY DEF Ahead
  <2>2. key[x] \in Nat /\ key[i] \in Nat /\ key[j] \in Nat
    OBVIOUS
  <2> QED
    BY <2>1, <2>2 DEF Before
<1>4. i \in Ahead(key, j) /\ i \notin Ahead(key, i)
  <2>1. key[i] \in Nat
    OBVIOUS
  <2> QED
    BY <2>1 DEF Ahead, Before
<1>5. /\ Cardinality(Ahead(key, i)) <= Cardinality(Ahead(key, j))
      /\ Cardinality(Ahead(key, i)) # Cardinality(Ahead(key, j))
  BY <1>2, <1>3, <1>4, FS_Subset
<1>6. Cardinality(Ahead(key, i)) \in Nat /\ Cardinality(Ahead(key, j)) \in Nat
  BY <1>2, FS_CardinalityType
<1> QED
  BY <1>5, <1>6

(* Sorted is a permutation of the places, by falling key.                  *)
LEMMA SortedPlaces ==
  ASSUME NEW n \in Nat, NEW key \in [1..n -> Nat]
  PROVE  /\ Sorted(key) \in [1..n -> 1..n]
         /\ \A i, j \in 1..n : i # j => Sorted(key)[i] # Sorted(key)[j]
         /\ \A p \in 1..n : \E k \in 1..n : Sorted(key)[k] = p
         /\ \A i, j \in 1..n : i < j => key[Sorted(key)[i]] >= key[Sorted(key)[j]]
<1> DEFINE rank(i) == Cardinality(Ahead(key, i))
           f == [i \in 1..n |-> rank(i) + 1]
           places == Sorted(key)
<1>1. \A i, j \in 1..n : i # j => Before(key, i, j) \/ Before(key, j, i)
  <2>1. \A i \in 1..n : key[i] \in Nat
    OBVIOUS
  <2> QED
    BY <2>1 DEF Before
<1>2. \A i, j \in 1..n : Before(key, i, j) => rank(i) < rank(j)
  BY AheadGrows
<1>3. ASSUME NEW i \in 1..n PROVE rank(i) \in 0..(n - 1)
  <2>1. IsFiniteSet(1..n) /\ Cardinality(1..n) = n /\ i \in 1..n
    BY FS_Interval
  <2>2. Ahead(key, i) \subseteq (1..n) \ {i}
    <3>1. key[i] \in Nat
      OBVIOUS
    <3> QED
      BY <3>1 DEF Ahead, Before
  <2>3. IsFiniteSet((1..n) \ {i}) /\ Cardinality((1..n) \ {i}) = n - 1
    BY <2>1, FS_RemoveElement
  <2>4. IsFiniteSet(Ahead(key, i)) /\ Cardinality(Ahead(key, i)) <= n - 1
    BY <2>2, <2>3, FS_Subset
  <2> QED
    BY <2>4, FS_CardinalityType
<1> HIDE DEF rank
<1>4. ASSUME NEW i \in 1..n, NEW j \in 1..n, i # j PROVE rank(i) # rank(j)
  <2>1. rank(i) \in Int /\ rank(j) \in Int
    BY <1>3
  <2>2. rank(i) < rank(j) \/ rank(j) < rank(i)
    BY <1>1, <1>2, <1>4
  <2> QED
    BY <2>1, <2>2
<1>5. f \in [1..n -> 1..n] /\ \A i, j \in 1..n : f[i] = f[j] => i = j
  <2>1. f \in [1..n -> 1..n]
    BY <1>3
  <2>2. ASSUME NEW i \in 1..n, NEW j \in 1..n, f[i] = f[j] PROVE i = j
    <3>1. rank(i) \in Int /\ rank(j) \in Int /\ rank(i) + 1 = rank(j) + 1
      BY <1>3, <2>2
    <3> QED
      BY <1>4, <3>1
  <2> QED
    BY <2>1, <2>2
<1>6. \A k \in 1..n : \E i \in 1..n : f[i] = k
  <2>1. IsFiniteSet(1..n)
    BY FS_Interval
  <2>2. f \in Injection(1..n, 1..n)
    <3> HIDE DEF f
    <3> QED
      BY <1>5 DEF Injection, IsInjective
  <2>3. f \in Surjection(1..n, 1..n)
    <3> HIDE DEF f
    <3> QED
      BY <2>1, <2>2, FS_Injection
  <2> HIDE DEF f
  <2> QED
    BY <2>3 DEF Surjection
<1>7. \A k \in 1..n : \E i \in 1..n : rank(i) = k - 1
  <2>1. ASSUME NEW k \in 1..n PROVE \E i \in 1..n : rank(i) = k - 1
    <3>1. PICK i \in 1..n : f[i] = k
      BY <1>6
    <3>2. rank(i) \in Int /\ rank(i) + 1 = k
      BY <1>3, <3>1
    <3> QED
      BY <3>2
  <2> QED
    BY <2>1
<1>8. ASSUME NEW k \in 1..n PROVE places[k] \in 1..n /\ rank(places[k]) = k - 1
  <2>1. places[k] = CHOOSE i \in 1..n : rank(i) = k - 1
    <3>1. DOMAIN key = 1..n
      OBVIOUS
    <3> QED
      BY <3>1 DEF Sorted, rank, Ahead
  <2>2. \E i \in 1..n : rank(i) = k - 1
    BY <1>7
  <2> HIDE DEF places
  <2> QED
    BY <2>1, <2>2
<1>9. places \in [1..n -> 1..n]
  <2> DEFINE ith(k) == CHOOSE i \in 1..n : rank(i) = k - 1
  <2>1. places = [k \in 1..n |-> ith(k)]
    <3>1. DOMAIN key = 1..n
      OBVIOUS
    <3> QED
      BY <3>1 DEF Sorted, rank, Ahead
  <2> HIDE DEF places, ith
  <2>2. \A k \in 1..n : ith(k) \in 1..n
    BY <1>8, <2>1
  <2> QED
    BY <2>1, <2>2
<1> HIDE DEF places, f
<1>10. \A i, j \in 1..n : i # j => places[i] # places[j]
  <2>1. ASSUME NEW i \in 1..n, NEW j \in 1..n, places[i] = places[j] PROVE i = j
    <3>1. i - 1 = j - 1
      BY <1>8, <2>1
    <3> QED
      BY <3>1
  <2> QED
    BY <2>1
<1>11. ASSUME NEW p \in 1..n PROVE \E k \in 1..n : places[k] = p
  <2>1. rank(p) + 1 \in 1..n
    BY <1>3
  <2>2. places[rank(p) + 1] \in 1..n /\ rank(places[rank(p) + 1]) = rank(p)
    BY <1>8, <2>1, <1>3
  <2>3. places[rank(p) + 1] = p
    BY <1>4, <2>2
  <2> QED
    BY <2>1, <2>3
<1>12. ASSUME NEW i \in 1..n, NEW j \in 1..n, i < j PROVE key[places[i]] >= key[places[j]]
  <2>1. /\ places[i] \in 1..n /\ places[j] \in 1..n
        /\ rank(places[i]) < rank(places[j]) /\ rank(places[j]) \in Int
    BY <1>8, <1>12
  <2>2. rank(places[i]) \in Int /\ places[i] # places[j]
    BY <2>1, <1>3
  <2>3. Before(key, places[i], places[j])
    BY <1>1, <1>2, <2>1, <2>2
  <2>4. key[places[i]] \in Nat /\ key[places[j]] \in Nat
    BY <2>1
  <2> QED
    BY <2>3, <2>4 DEF Before
<1> QED
  BY <1>9, <1>10, <1>11, <1>12 DEF places

(* The rows of a table, and what a table says of the items it ranks.       *)
RowSet == [name : Word, count : Nat, users : SUBSET Nat]

RankOf(table, items) ==
  LET m == Len(table)
      n == Len(items)
  IN  /\ table \in Seq(RowSet)
      /\ \A i, j \in 1..m : i # j => table[i].name # table[j].name
      /\ \A i, j \in 1..m : i < j => table[i].count >= table[j].count
      /\ \A i \in 1..m :
           /\ table[i].count = Cardinality(At(items, n, table[i].name))
           /\ table[i].users = {items[k].user : k \in At(items, n, table[i].name)} \ {0}
           /\ \E k \in 1..n : items[k].name = table[i].name
      /\ \A k \in 1..n : \E i \in 1..m : items[k].name = table[i].name

(* A breakdown has each name once, the most frequent first, with the       *)
(* number and the users of its items.                                      *)
LEMMA BreakdownRanked ==
  ASSUME NEW items \in Seq(ItemSet)
  PROVE  RankOf(Ranked(Tally(items)), items)
<1> DEFINE stats == Tally(items)
           table == Ranked(stats)
           m == Len(stats.names)
           n == Len(items)
           key == [i \in 1..m |-> stats.of[stats.names[i]].count]
           places == Sorted(key)
           nm(k) == stats.names[places[k]]
           row(k) == [name |-> nm(k), count |-> stats.of[nm(k)].count,
                      users |-> stats.of[nm(k)].users]
<1>1. TallyOf(stats, items, n) /\ n \in Nat
  BY TallyCounts, LenProperties
<1> HIDE DEF stats
<1>2. stats \in TallySet /\ stats.names \in Seq(Word)
  BY <1>1 DEF TallyOf, TallySet
<1>3. m \in Nat /\ DOMAIN stats.names = 1..m
  BY <1>2, LenProperties
<1>4. \A i \in 1..m : stats.names[i] \in DOMAIN stats.of /\ stats.names[i] \in Word
  BY <1>1, <1>2, <1>3, ElementOfSeq DEF TallyOf
<1>5. ASSUME NEW c \in DOMAIN stats.of
      PROVE  stats.of[c].count \in Nat /\ stats.of[c].users \in SUBSET Nat
  <2>1. stats.of[c] \in EntrySet
    BY <1>2 DEF TallySet
  <2> QED
    BY <2>1 DEF EntrySet
<1>6. table = [k \in 1..m |-> row(k)]
  BY <1>3 DEF Ranked
<1>7. key \in [1..m -> Nat]
  BY <1>4, <1>5
<1>8. /\ \A k \in 1..m : places[k] \in 1..m
      /\ \A i, j \in 1..m : i # j => places[i] # places[j]
      /\ \A p \in 1..m : \E k \in 1..m : places[k] = p
      /\ \A i, j \in 1..m : i < j => key[places[i]] >= key[places[j]]
  <2> HIDE DEF key, m
  <2>1. /\ Sorted(key) \in [1..m -> 1..m]
        /\ \A i, j \in 1..m : i # j => Sorted(key)[i] # Sorted(key)[j]
        /\ \A p \in 1..m : \E k \in 1..m : Sorted(key)[k] = p
        /\ \A i, j \in 1..m : i < j => key[Sorted(key)[i]] >= key[Sorted(key)[j]]
    BY <1>3, <1>7, SortedPlaces
  <2>2. \A k \in 1..m : places[k] \in 1..m
    BY <2>1
  <2> QED
    BY <2>1, <2>2
<1> HIDE DEF places, table, m
<1>9. \A k \in 1..m : nm(k) \in DOMAIN stats.of /\ nm(k) \in Word
  BY <1>4, <1>8
<1>10. \A k \in 1..m : row(k) \in RowSet
  BY <1>5, <1>9 DEF RowSet
<1> HIDE DEF nm
<1>11. table \in Seq(RowSet) /\ Len(table) = m /\ \A k \in 1..m : table[k] = row(k)
  <2> HIDE DEF row
  <2>1. table \in [1..m -> RowSet]
    BY <1>6, <1>10
  <2> QED
    BY <1>3, <1>6, <2>1, IsASeq, LenProperties
<1>12. \A k \in 1..m : /\ table[k].name = nm(k) /\ table[k].count = stats.of[nm(k)].count
                       /\ table[k].users = stats.of[nm(k)].users
  BY <1>11
<1>13. \A i, j \in 1..m : i # j => table[i].name # table[j].name
  <2>1. \A i, j \in 1..m : i # j => stats.names[i] # stats.names[j]
    BY <1>1, <1>3 DEF TallyOf
  <2>2. \A i, j \in 1..m : i # j => nm(i) # nm(j)
    BY <2>1, <1>8 DEF nm
  <2> QED
    BY <2>2, <1>12
<1>14. ASSUME NEW i \in 1..m, NEW j \in 1..m, i < j PROVE table[i].count >= table[j].count
  <2>1. key[places[i]] >= key[places[j]] /\ places[i] \in 1..m /\ places[j] \in 1..m
    BY <1>8, <1>14
  <2>2. key[places[i]] = table[i].count /\ key[places[j]] = table[j].count
    BY <2>1, <1>12 DEF nm
  <2> QED
    BY <2>1, <2>2
<1>15. ASSUME NEW i \in 1..m
       PROVE  /\ table[i].count = Cardinality(At(items, n, table[i].name))
              /\ table[i].users = {items[k].user : k \in At(items, n, table[i].name)} \ {0}
              /\ \E k \in 1..n : items[k].name = table[i].name
  BY <1>1, <1>9, <1>12 DEF TallyOf
<1>16. ASSUME NEW k \in 1..n PROVE \E i \in 1..m : items[k].name = table[i].name
  <2>1. items[k].name \in DOMAIN stats.of
    BY <1>1 DEF TallyOf
  <2>2. PICK p \in 1..m : items[k].name = stats.names[p]
    BY <1>1, <1>3, <2>1 DEF TallyOf
  <2>3. PICK i \in 1..m : places[i] = p
    BY <1>8
  <2> QED
    BY <2>2, <2>3, <1>12 DEF nm
<1>17. RankOf(table, items)
  <2>1. Len(table) = m
    BY <1>11
  <2> HIDE DEF row
  <2> QED
    BY <2>1, <1>11, <1>13, <1>14, <1>15, <1>16 DEF RankOf
<1> QED
  BY <1>17 DEF table, stats

-----------------------------------------------------------------------------
Places(rows) == [i \in DOMAIN rows |-> i]

(* What FoldLeftDomain unfolds to in Only.                                 *)
OnlyEquation(g, rows, picked) ==
  g = [s \in SUBSET (DOMAIN Places(rows)) |->
         IF s = {} THEN <<>>
         ELSE IF Places(rows)[Max(s)] \in picked
              THEN Append(g[s \ {Max(s)}], rows[Places(rows)[Max(s)]])
              ELSE g[s \ {Max(s)}]]

(* Only is what the folds of the library unfold to,                        *)
LEMMA OnlyByEquation ==
  ASSUME NEW rows, NEW picked
  PROVE  Only(rows, picked) = (CHOOSE g : OnlyEquation(g, rows, picked))[DOMAIN Places(rows)]
BY Zenon DEF Only, FoldLeftDomain, FoldLeft, MapThenFoldSet, OnlyEquation, Places

Added(kept, rows, picked, i) == IF i \in picked THEN Append(kept, rows[i]) ELSE kept

(* and its equation has a solution.                                        *)
LEMMA OnlyEquationHolds ==
  ASSUME NEW R, NEW rows \in Seq(R), NEW picked
  PROVE  \E g : OnlyEquation(g, rows, picked)
<1> DEFINE S == 1..Len(rows)
           X == Seq(R)
           pick == [s \in SUBSET S |-> Max(s)]
           step == [x \in X |-> [i \in S |-> Added(x, rows, picked, i)]]
<1>1. /\ Len(rows) \in Nat /\ DOMAIN rows = S /\ \A i \in S : rows[i] \in R
      /\ DOMAIN Places(rows) = S /\ \A i \in S : Places(rows)[i] = i
  BY LenProperties, ElementOfSeq DEF Places
<1>2. IsFiniteSet(S)
  BY <1>1, FS_Interval
<1>3. <<>> \in X
  BY EmptySeq
<1>4. Picks(pick, S)
  BY <1>1, MaxOfPlaces DEF Picks
<1>5. Steps(step, X, S)
  <2>1. ASSUME NEW x \in X, NEW i \in S PROVE Added(x, rows, picked, i) \in X
    BY <1>1, AppendProperties DEF Added
  <2> HIDE DEF X, S
  <2> QED
    BY <2>1 DEF Steps
<1>6. PICK g \in [SUBSET S -> X] : Folds(g, S, <<>>, pick, step)
  <2> HIDE DEF S, X, pick, step
  <2> QED
    BY <1>2, <1>3, <1>4, <1>5, FoldExists
<1>7. ASSUME NEW s \in SUBSET S
      PROVE  g[s] = IF s = {} THEN <<>> ELSE Added(g[s \ {Max(s)}], rows, picked, Max(s))
  <2>1. CASE s = {}
    BY <1>6, <2>1 DEF Folds
  <2>2. CASE s # {}
    <3>1. pick[s] = Max(s) /\ Max(s) \in S
      BY <1>1, <2>2, MaxOfPlaces
    <3>2. s \ {Max(s)} \in SUBSET S
      OBVIOUS
    <3>3. g[s \ {Max(s)}] \in X
      <4> HIDE DEF X, S
      <4> QED
        BY <3>2
    <3>4. step[g[s \ {Max(s)}]][Max(s)] = Added(g[s \ {Max(s)}], rows, picked, Max(s))
      <4> HIDE DEF X, S
      <4> QED
        BY <3>1, <3>3
    <3> HIDE DEF step, X
    <3> QED
      BY <1>6, <2>2, <3>1, <3>4 DEF Folds
  <2> QED
    BY <2>1, <2>2
<1>8. \A s \in SUBSET S : s # {} => Max(s) \in S
  BY <1>1, MaxOfPlaces
<1>9. OnlyEquation(g, rows, picked)
  <2> HIDE DEF X, S
  <2>1. \A s \in SUBSET S :
          g[s] = IF s = {} THEN <<>>
                 ELSE IF Places(rows)[Max(s)] \in picked
                      THEN Append(g[s \ {Max(s)}], rows[Places(rows)[Max(s)]])
                      ELSE g[s \ {Max(s)}]
    BY <1>1, <1>7, <1>8 DEF Added
  <2> QED
    BY <1>1, <2>1 DEF OnlyEquation
<1> QED
  BY <1>9

(* Only is reached by looking at one row after the other.                  *)
LEMMA OnlySteps ==
  ASSUME NEW R, NEW rows \in Seq(R), NEW picked
  PROVE  \E h : /\ h[0] = <<>>
                /\ \A k \in 1..Len(rows) : h[k] = Added(h[k - 1], rows, picked, k)
                /\ Only(rows, picked) = h[Len(rows)]
<1> DEFINE n == Len(rows)
           g == CHOOSE f : OnlyEquation(f, rows, picked)
           h == [k \in 0..n |-> g[1..k]]
<1>1. /\ n \in Nat /\ DOMAIN Places(rows) = 1..n /\ \A i \in 1..n : Places(rows)[i] = i
  BY LenProperties DEF Places
<1>2. OnlyEquation(g, rows, picked)
  <2>1. \E f : OnlyEquation(f, rows, picked)
    BY OnlyEquationHolds
  <2> QED
    BY <2>1
<1>3. Only(rows, picked) = g[1..n]
  BY <1>1, OnlyByEquation
<1> HIDE DEF g
<1>4. \A s \in SUBSET (1..n) :
        g[s] = IF s = {} THEN <<>>
               ELSE IF Places(rows)[Max(s)] \in picked
                    THEN Append(g[s \ {Max(s)}], rows[Places(rows)[Max(s)]])
                    ELSE g[s \ {Max(s)}]
  <2> HIDE DEF n
  <2> QED
    BY <1>1, <1>2 DEF OnlyEquation
<1>5. h[0] = <<>>
  <2>1. 0 \in 0..n /\ 1..0 = {}
    BY <1>1
  <2> QED
    BY <1>4, <2>1
<1>6. ASSUME NEW k \in 1..n PROVE h[k] = Added(h[k - 1], rows, picked, k)
  <2>a. k \in Nat \ {0} /\ k \in 0..n /\ k - 1 \in 0..n /\ k \in 1..k
    BY <1>1
  <2>b. \A i \in 1..k : i \in 1..n
    BY <1>1
  <2>1. /\ k \in Nat \ {0} /\ k \in 0..n /\ k - 1 \in 0..n
        /\ 1..k \in SUBSET (1..n) /\ 1..k # {}
    <3> HIDE DEF n
    <3> QED
      BY <2>a, <2>b
  <2>2. Max(1..k) = k /\ (1..k) \ {k} = 1..(k - 1)
    BY <2>1, MaxOfPrefix
  <2>3. g[1..k] = Added(g[1..(k - 1)], rows, picked, k)
    <3> HIDE DEF n
    <3>1. g[1..k] = IF Places(rows)[Max(1..k)] \in picked
                    THEN Append(g[(1..k) \ {Max(1..k)}], rows[Places(rows)[Max(1..k)]])
                    ELSE g[(1..k) \ {Max(1..k)}]
      BY <1>4, <2>1
    <3> QED
      BY <1>1, <2>2, <3>1 DEF Added
  <2>4. h[k] = g[1..k] /\ h[k - 1] = g[1..(k - 1)]
    BY <2>1
  <2> QED
    BY <2>3, <2>4
<1>7. Only(rows, picked) = h[n]
  BY <1>1, <1>3
<1> HIDE DEF h
<1> QED
  BY <1>5, <1>6, <1>7

(* b says for each row of kept where it comes from.                        *)
PickOf(b, kept, rows, picked, k) ==
  LET l == Len(kept)
  IN  /\ b \in [1..l -> picked \cap (1..k)]
      /\ \A i, j \in 1..l : i # j => b[i] # b[j]
      /\ \A i \in 1..l : kept[i] = rows[b[i]]
      /\ \A p \in picked \cap (1..k) : \E i \in 1..l : b[i] = p

OnlyOf(kept, rows, picked, k, R) == kept \in Seq(R) /\ \E b : PickOf(b, kept, rows, picked, k)

(* One more row looked at: what is kept stays true to the rows so far.     *)
LEMMA AddedPicks ==
  ASSUME NEW R, NEW rows, NEW picked, NEW k \in Nat, rows[k + 1] \in R,
         NEW kept, OnlyOf(kept, rows, picked, k, R)
  PROVE  OnlyOf(Added(kept, rows, picked, k + 1), rows, picked, k + 1, R)
<1> DEFINE new == Added(kept, rows, picked, k + 1)
           l == Len(kept)
<1>1. kept \in Seq(R) /\ l \in Nat
  BY LenProperties DEF OnlyOf
<1>2. PICK b : PickOf(b, kept, rows, picked, k)
  BY DEF OnlyOf
<1>3. 1..(k + 1) = (1..k) \cup {k + 1} /\ k + 1 \notin 1..k
  OBVIOUS
<1>4. CASE k + 1 \notin picked
  <2>1. new = kept /\ picked \cap (1..(k + 1)) = picked \cap (1..k)
    BY <1>3, <1>4 DEF Added
  <2>2. PickOf(b, kept, rows, picked, k + 1)
    BY <1>2, <2>1 DEF PickOf
  <2> QED
    BY <1>1, <2>1, <2>2 DEF OnlyOf
<1>5. CASE k + 1 \in picked
  <2> DEFINE c == [i \in 1..(l + 1) |-> IF i = l + 1 THEN k + 1 ELSE b[i]]
  <2>1. /\ new \in Seq(R) /\ Len(new) = l + 1
        /\ \A i \in 1..l : new[i] = kept[i] /\ new[l + 1] = rows[k + 1]
    BY <1>1, <1>5, AppendProperties DEF Added
  <2>2. new[l + 1] = rows[k + 1]
    BY <1>1, <1>5, AppendProperties DEF Added
  <2>3. picked \cap (1..(k + 1)) = (picked \cap (1..k)) \cup {k + 1}
    BY <1>3, <1>5
  <2>4. 1..(l + 1) = (1..l) \cup {l + 1} /\ l + 1 \notin 1..l
    BY <1>1
  <2>5. c[l + 1] = k + 1 /\ \A i \in 1..l : c[i] = b[i]
    BY <1>1
  <2>6. \A i \in 1..l : b[i] \in picked \cap (1..k)
    BY <1>2 DEF PickOf
  <2>7. c \in [1..(l + 1) -> picked \cap (1..(k + 1))]
    BY <2>3, <2>4, <2>5, <2>6
  <2> HIDE DEF c, l, new
  <2>8. \A i, j \in 1..(l + 1) : i # j => c[i] # c[j]
    <3>1. \A i, j \in 1..l : i # j => b[i] # b[j]
      BY <1>2 DEF PickOf, l
    <3>2. \A i \in 1..l : b[i] # k + 1
      BY <2>6, <1>3
    <3> QED
      BY <2>4, <2>5, <3>1, <3>2
  <2>9. \A i \in 1..(l + 1) : new[i] = rows[c[i]]
    <3>1. \A i \in 1..l : kept[i] = rows[b[i]]
      BY <1>2 DEF PickOf, l
    <3> QED
      BY <2>1, <2>2, <2>4, <2>5, <3>1
  <2>10. \A p \in picked \cap (1..(k + 1)) : \E i \in 1..(l + 1) : c[i] = p
    <3>1. \A p \in picked \cap (1..k) : \E i \in 1..l : b[i] = p
      BY <1>2 DEF PickOf, l
    <3> QED
      BY <2>3, <2>4, <2>5, <3>1
  <2>11. PickOf(c, new, rows, picked, k + 1)
    BY <2>1, <2>7, <2>8, <2>9, <2>10 DEF PickOf
  <2>12. OnlyOf(new, rows, picked, k + 1, R)
    BY <2>1, <2>11 DEF OnlyOf
  <2> QED
    BY <2>12 DEF new
<1> QED
  BY <1>4, <1>5

(* Only keeps each row that is picked once, and no other.                  *)
LEMMA OnlyPicks ==
  ASSUME NEW R, NEW rows \in Seq(R), NEW picked
  PROVE  OnlyOf(Only(rows, picked), rows, picked, Len(rows), R)
<1> DEFINE n == Len(rows)
<1>1. n \in Nat /\ \A k \in 1..n : rows[k] \in R
  BY LenProperties, ElementOfSeq
<1>2. PICK h : /\ h[0] = <<>>
               /\ \A k \in 1..n : h[k] = Added(h[k - 1], rows, picked, k)
               /\ Only(rows, picked) = h[n]
  BY OnlySteps
<1> DEFINE T == {k \in 0..n : OnlyOf(h[k], rows, picked, k, R)}
<1>3. 0 \in T
  <2>1. <<>> \in Seq(R) /\ Len(<<>>) = 0 /\ 1..0 = {}
    BY EmptySeq
  <2>2. PickOf([i \in 1..0 |-> i], <<>>, rows, picked, 0)
    BY <2>1 DEF PickOf
  <2>3. OnlyOf(<<>>, rows, picked, 0, R)
    BY <2>1, <2>2 DEF OnlyOf
  <2> QED
    BY <1>1, <1>2, <2>3
<1>4. ASSUME NEW k \in 0..(n - 1), k \in T PROVE k + 1 \in T
  <2>1. k \in Nat /\ k + 1 \in 1..n /\ k + 1 \in 0..n /\ (k + 1) - 1 = k
    BY <1>1
  <2>2. h[k + 1] = Added(h[k], rows, picked, k + 1)
    BY <1>2, <2>1
  <2>3. OnlyOf(h[k], rows, picked, k, R)
    BY <1>4
  <2>4. OnlyOf(h[k + 1], rows, picked, k + 1, R)
    <3> HIDE DEF n
    <3> QED
      BY <1>1, <2>1, <2>2, <2>3, AddedPicks
  <2> QED
    BY <2>1, <2>4
<1>5. \A k \in 0..n : k \in T
  <2> HIDE DEF T, n
  <2> QED
    BY <1>1, <1>3, <1>4, SetInduction
<1>6. n \in T
  BY <1>1, <1>5
<1> QED
  BY <1>2, <1>6

-----------------------------------------------------------------------------
(* An injective image has as many members as the set.                      *)
LEMMA InjectiveImage ==
  ASSUME NEW S, IsFiniteSet(S), NEW f, \A x, y \in S : x # y => f[x] # f[y]
  PROVE  /\ IsFiniteSet({f[x] : x \in S})
         /\ Cardinality({f[x] : x \in S}) = Cardinality(S)
<1> DEFINE T == {f[x] : x \in S}
           g == [x \in S |-> f[x]]
<1>1. g \in [S -> T] /\ \A x \in S : g[x] = f[x]
  OBVIOUS
<1>2. \A t \in T : \E x \in S : g[x] = t
  OBVIOUS
<1>3. \A x, y \in S : g[x] = g[y] => x = y
  OBVIOUS
<1>4. DOMAIN g = S
  OBVIOUS
<1> HIDE DEF T, g
<1>5. g \in Bijection(S, T)
  BY <1>1, <1>2, <1>3, <1>4 DEF Bijection, Injection, Surjection, IsInjective
<1>6. ExistsBijection(S, T)
  BY <1>5 DEF ExistsBijection
<1>7. IsFiniteSet(T) /\ Cardinality(T) = Cardinality(S)
  BY <1>6, FS_Bijection
<1> QED
  BY <1>7 DEF T

(* The member that the sum takes out first.                                *)
Taken(s) == CHOOSE x \in s : TRUE

(* What SumFunction unfolds to.                                            *)
SumEquation(g, f) ==
  g = [s \in SUBSET (DOMAIN f) |-> IF s = {} THEN 0 ELSE f[Taken(s)] + g[s \ {Taken(s)}]]

(* SumFunction is what the folds of the library unfold to,                 *)
LEMMA SumByEquation ==
  ASSUME NEW f
  PROVE  SumFunction(f) = (CHOOSE g : SumEquation(g, f))[DOMAIN f]
BY Zenon DEF SumFunction, SumFunctionOnSet, FoldFunctionOnSet, MapThenFoldSet, SumEquation, Taken

(* and its equation has a solution.                                        *)
LEMMA SumEquationHolds ==
  ASSUME NEW S, IsFiniteSet(S), NEW f \in [S -> Nat]
  PROVE  \E g : SumEquation(g, f)
<1> DEFINE pick == [s \in SUBSET S |-> Taken(s)]
           step == [x \in Nat |-> [i \in S |-> f[i] + x]]
<1>1. Picks(pick, S)
  BY DEF Picks, Taken
<1>2. Steps(step, Nat, S)
  BY DEF Steps
<1>3. PICK g \in [SUBSET S -> Nat] : Folds(g, S, 0, pick, step)
  <2> HIDE DEF pick, step
  <2> QED
    BY <1>1, <1>2, FoldExists
<1>4. ASSUME NEW s \in SUBSET S
      PROVE  g[s] = IF s = {} THEN 0 ELSE f[Taken(s)] + g[s \ {Taken(s)}]
  <2>1. CASE s = {}
    BY <1>3, <2>1 DEF Folds
  <2>2. CASE s # {}
    <3>1. pick[s] = Taken(s) /\ Taken(s) \in S
      BY <2>2 DEF Taken
    <3>2. g[s \ {Taken(s)}] \in Nat
      OBVIOUS
    <3>3. step[g[s \ {Taken(s)}]][Taken(s)] = f[Taken(s)] + g[s \ {Taken(s)}]
      BY <3>1, <3>2
    <3> HIDE DEF step, pick
    <3> QED
      BY <1>3, <2>2, <3>1, <3>3 DEF Folds
  <2> QED
    BY <2>1, <2>2
<1>5. SumEquation(g, f)
  <2>1. DOMAIN f = S
    OBVIOUS
  <2> QED
    BY <1>4, <2>1 DEF SumEquation
<1> QED
  BY <1>5

(* No two of the sets share a member.                                      *)
Disjoint(C, S) == \A x, y \in S : x # y => C[x] \cap C[y] = {}

Whole(C, S) == UNION {C[x] : x \in S}

(* f gives the size of each set.                                           *)
Counts(f, C, S) ==
  /\ f = [x \in S |-> f[x]]
  /\ \A x \in S : IsFiniteSet(C[x]) /\ f[x] = Cardinality(C[x])

(* The sum of the sizes of finite sets is at least the size of their       *)
(* union, and equal to it when they are disjoint.                          *)
LEMMA SumOfParts ==
  ASSUME NEW S, IsFiniteSet(S), NEW f, NEW C, Counts(f, C, S)
  PROVE  /\ IsFiniteSet(Whole(C, S))
         /\ SumFunction(f) \in Nat
         /\ Cardinality(Whole(C, S)) <= SumFunction(f)
         /\ Disjoint(C, S) => SumFunction(f) = Cardinality(Whole(C, S))
<1> DEFINE N == Cardinality(S)
           g == CHOOSE h : SumEquation(h, f)
           U(s) == UNION {C[x] : x \in s}
           Good(s) == /\ IsFiniteSet(U(s)) /\ g[s] \in Nat
                      /\ Cardinality(U(s)) <= g[s]
                      /\ Disjoint(C, S) => g[s] = Cardinality(U(s))
           T == {k \in 0..N : \A s \in SUBSET S : Cardinality(s) = k => Good(s)}
<1>0. /\ f = [x \in S |-> f[x]]
      /\ \A x \in S : IsFiniteSet(C[x]) /\ f[x] = Cardinality(C[x])
  BY DEF Counts
<1>1. N \in Nat /\ \A s \in SUBSET S : /\ IsFiniteSet(s) /\ Cardinality(s) \in Nat
                                       /\ Cardinality(s) = 0 <=> s = {}
  BY FS_Subset, FS_CardinalityType, FS_EmptySet
<1>2. f \in [S -> Nat] /\ DOMAIN f = S
  <2>1. \A x \in S : f[x] \in Nat
    BY <1>0, FS_CardinalityType
  <2> QED
    BY <1>0, <2>1
<1>3. SumEquation(g, f)
  <2>1. \E h : SumEquation(h, f)
    BY <1>2, SumEquationHolds
  <2> QED
    BY <2>1
<1>4. SumFunction(f) = g[S]
  BY <1>2, SumByEquation
<1> HIDE DEF g
<1>5. \A s \in SUBSET S : g[s] = IF s = {} THEN 0 ELSE f[Taken(s)] + g[s \ {Taken(s)}]
  BY <1>2, <1>3 DEF SumEquation
<1>6. 0 \in T
  <2>1. U({}) = {} /\ g[{}] = 0
    BY <1>5
  <2>2. Good({})
    BY <2>1, FS_EmptySet
  <2> HIDE DEF Good
  <2> QED
    BY <1>1, <2>2
<1>7. ASSUME NEW k \in 0..(N - 1), k \in T PROVE k + 1 \in T
  <2>1. ASSUME NEW s \in SUBSET S, Cardinality(s) = k + 1 PROVE Good(s)
    <3> DEFINE x == Taken(s)
               t == s \ {x}
    <3>1. s # {} /\ x \in s
      <4>1. s # {}
        BY <1>1, <2>1
      <4> QED
        BY <4>1 DEF Taken
    <3> HIDE DEF x
    <3>2. t \in SUBSET S /\ Cardinality(t) = k
      <4>1. IsFiniteSet(s)
        BY <1>1
      <4>2. Cardinality(t) = Cardinality(s) - 1
        BY <4>1, <3>1, FS_RemoveElement
      <4> QED
        BY <4>2, <2>1, <1>1
    <3>3. Good(t)
      BY <1>7, <3>2
    <3>4. g[s] = f[x] + g[t] /\ f[x] = Cardinality(C[x]) /\ IsFiniteSet(C[x]) /\ f[x] \in Nat
      BY <1>0, <1>5, <1>2, <3>1 DEF x
    <3>5. U(s) = C[x] \cup U(t)
      BY <3>1
    <3> HIDE DEF U
    <3>6. /\ IsFiniteSet(U(s))
          /\ Cardinality(U(s)) = Cardinality(C[x]) + Cardinality(U(t)) - Cardinality(C[x] \cap U(t))
          /\ Cardinality(C[x] \cap U(t)) \in Nat /\ Cardinality(U(t)) \in Nat
      <4>1. IsFiniteSet(U(t)) /\ IsFiniteSet(C[x] \cap U(t))
        BY <3>3, <3>4, FS_Intersection
      <4>2. /\ IsFiniteSet(C[x] \cup U(t))
            /\ Cardinality(C[x] \cup U(t)) =
                 Cardinality(C[x]) + Cardinality(U(t)) - Cardinality(C[x] \cap U(t))
        BY <4>1, <3>4, FS_Union
      <4> QED
        BY <4>1, <4>2, <3>5, FS_CardinalityType
    <3>7. Disjoint(C, S) => C[x] \cap U(t) = {}
      BY <3>1 DEF Disjoint, U
    <3>8. Disjoint(C, S) => Cardinality(C[x] \cap U(t)) = 0
      BY <3>7, FS_EmptySet
    <3>9. g[s] \in Nat /\ Cardinality(U(s)) <= g[s]
      BY <3>3, <3>4, <3>6
    <3>10. Disjoint(C, S) => g[s] = Cardinality(U(s))
      BY <3>3, <3>4, <3>6, <3>8
    <3> QED
      BY <3>6, <3>9, <3>10
  <2>2. k + 1 \in 0..N
    BY <1>1, <1>7
  <2> HIDE DEF Good
  <2> QED
    BY <2>1, <2>2
<1>8. N \in T
  <2>1. \A k \in 0..N : k \in T
    <3> HIDE DEF T
    <3> QED
      BY <1>1, <1>6, <1>7, SetInduction
  <2>2. N \in 0..N
    BY <1>1
  <2> HIDE DEF T
  <2> QED
    BY <2>1, <2>2
<1>9. Good(S)
  <2> HIDE DEF Good
  <2> QED
    BY <1>8
<1> QED
  BY <1>4, <1>9 DEF Whole

-----------------------------------------------------------------------------
(* A set of places is finite.                                              *)
LEMMA FinitePlaces ==
  ASSUME NEW n \in Nat, NEW s, s \subseteq 1..n
  PROVE  IsFiniteSet(s) /\ Cardinality(s) \in Nat
<1>1. IsFiniteSet(1..n)
  BY FS_Interval
<1>2. IsFiniteSet(s)
  BY <1>1, FS_Subset
<1> QED
  BY <1>2, FS_CardinalityType

(* There are n places in a sequence of length n.                           *)
LEMMA CardinalityOfPlaces ==
  ASSUME NEW n \in Nat
  PROVE  IsFiniteSet(1..n) /\ Cardinality(1..n) = n
<1>1. /\ IsFiniteSet(1..n)
      /\ Cardinality(1..n) = IF 1 > n THEN 0 ELSE n - 1 + 1
  BY FS_Interval
<1>2. (IF 1 > n THEN 0 ELSE n - 1 + 1) = n
  OBVIOUS
<1> QED
  BY <1>1, <1>2

(* Of what is kept, as many rows are in Q as of what is picked.            *)
KeptWhich(c, rows, picked, Q) ==
  Cardinality({k \in 1..Len(c) : c[k] \in Q}) = Cardinality({i \in picked : rows[i] \in Q})

(* Of the rows that are kept, as many satisfy Q as of those that are       *)
(* picked.                                                                 *)
LEMMA OnlyWhich ==
  ASSUME NEW R, NEW rows \in Seq(R), NEW picked, picked \subseteq 1..Len(rows), NEW Q
  PROVE  /\ Only(rows, picked) \in Seq(R)
         /\ KeptWhich(Only(rows, picked), rows, picked, Q)
         /\ ToSet(Only(rows, picked)) = {rows[i] : i \in picked}
<1> DEFINE c == Only(rows, picked)
           n == Len(rows)
           l == Len(c)
           K == {k \in 1..l : c[k] \in Q}
<1>1. OnlyOf(c, rows, picked, n, R) /\ n \in Nat
  BY OnlyPicks, LenProperties
<1> HIDE DEF c
<1>2. c \in Seq(R) /\ l \in Nat /\ DOMAIN c = 1..l
  BY <1>1, LenProperties DEF OnlyOf
<1>3. PICK b : PickOf(b, c, rows, picked, n)
  BY <1>1 DEF OnlyOf
<1>4. /\ \A i \in 1..l : b[i] \in picked /\ c[i] = rows[b[i]]
      /\ \A i, j \in 1..l : i # j => b[i] # b[j]
      /\ \A p \in picked : \E i \in 1..l : b[i] = p
  <2>1. picked \cap (1..n) = picked
    OBVIOUS
  <2> QED
    BY <1>3, <2>1 DEF PickOf
<1>5. {b[k] : k \in K} = {i \in picked : rows[i] \in Q}
  <2>1. ASSUME NEW k \in K PROVE b[k] \in picked /\ rows[b[k]] \in Q
    BY <1>4
  <2>2. ASSUME NEW i \in picked, rows[i] \in Q PROVE \E k \in K : i = b[k]
    <3>1. PICK k \in 1..l : b[k] = i
      BY <1>4
    <3>2. k \in K
      BY <1>4, <2>2, <3>1
    <3> QED
      BY <3>1, <3>2
  <2> HIDE DEF K
  <2> QED
    BY <2>1, <2>2
<1>6. IsFiniteSet(K)
  <2>1. K \subseteq 1..l
    OBVIOUS
  <2> QED
    BY <1>2, <2>1, FinitePlaces
<1>7. Cardinality({b[k] : k \in K}) = Cardinality(K)
  <2>1. \A x, y \in K : x # y => b[x] # b[y]
    BY <1>4
  <2> HIDE DEF K
  <2> QED
    BY <1>6, <2>1, InjectiveImage
<1>8. ToSet(c) = {rows[i] : i \in picked}
  <2>1. ASSUME NEW k \in 1..l PROVE \E i \in picked : c[k] = rows[i]
    BY <1>4
  <2>2. ASSUME NEW i \in picked PROVE \E k \in 1..l : rows[i] = c[k]
    <3>1. PICK k \in 1..l : b[k] = i
      BY <1>4
    <3> QED
      BY <1>4, <3>1
  <2>3. ToSet(c) = {c[k] : k \in 1..l}
    BY <1>2 DEF ToSet
  <2> HIDE DEF l
  <2>4. ASSUME NEW x \in ToSet(c) PROVE x \in {rows[i] : i \in picked}
    <3>1. PICK k \in 1..l : x = c[k]
      BY <2>3
    <3> QED
      BY <2>1, <3>1
  <2>5. ASSUME NEW i \in picked PROVE rows[i] \in ToSet(c)
    BY <2>2, <2>3
  <2> QED
    BY <2>4, <2>5
<1> QED
  BY <1>2, <1>5, <1>7, <1>8 DEF c, KeptWhich

(* As many rows are kept as are picked.                                    *)
LEMMA OnlyLength ==
  ASSUME NEW R, NEW rows \in Seq(R), NEW picked, picked \subseteq 1..Len(rows)
  PROVE  /\ Only(rows, picked) \in Seq(R)
         /\ Len(Only(rows, picked)) = Cardinality(picked)
<1> DEFINE c == Only(rows, picked)
<1>1. c \in Seq(R)
  BY OnlyWhich
<1>2. Cardinality({k \in 1..Len(c) : c[k] \in R}) = Cardinality({i \in picked : rows[i] \in R})
  <2>1. KeptWhich(c, rows, picked, R)
    BY OnlyWhich
  <2> HIDE DEF c
  <2> QED
    BY <2>1 DEF KeptWhich
<1> HIDE DEF c
<1>3. \A k \in 1..Len(c) : c[k] \in R
  BY <1>1, ElementOfSeq
<1>4. \A k \in picked : rows[k] \in R
  BY ElementOfSeq
<1>5. {k \in 1..Len(c) : c[k] \in R} = 1..Len(c) /\ {i \in picked : rows[i] \in R} = picked
  BY <1>3, <1>4
<1>6. Len(c) \in Nat
  BY <1>1, LenProperties
<1>7. Cardinality(1..Len(c)) = Len(c)
  BY <1>6, CardinalityOfPlaces
<1> QED
  BY <1>1, <1>2, <1>5, <1>7 DEF c

(* f counts disjoint sets of places.                                       *)
CountsParts(f, C, S, n) ==
  /\ f = [x \in S |-> f[x]]
  /\ \A x \in S : C[x] \subseteq 1..n /\ f[x] = Cardinality(C[x])
  /\ Disjoint(C, S)

(* SumOfParts for sets of places.                                          *)
LEMMA SumOfPlaces ==
  ASSUME NEW n \in Nat, NEW S, IsFiniteSet(S), NEW f, NEW C, CountsParts(f, C, S, n)
  PROVE  /\ SumFunction(f) = Cardinality(Whole(C, S))
         /\ SumFunction(f) \in Nat
         /\ SumFunction(f) <= n
<1>0. /\ f = [x \in S |-> f[x]]
      /\ \A x \in S : C[x] \subseteq 1..n /\ f[x] = Cardinality(C[x])
      /\ Disjoint(C, S)
  BY DEF CountsParts
<1>1. Counts(f, C, S)
  <2>1. \A x \in S : IsFiniteSet(C[x]) /\ f[x] = Cardinality(C[x])
    BY <1>0, FinitePlaces
  <2> QED
    BY <1>0, <2>1 DEF Counts
<1>2. /\ SumFunction(f) = Cardinality(Whole(C, S))
      /\ SumFunction(f) \in Nat
  <2> HIDE DEF Disjoint
  <2>1. /\ SumFunction(f) \in Nat
        /\ Disjoint(C, S) => SumFunction(f) = Cardinality(Whole(C, S))
    BY <1>1, SumOfParts
  <2> QED
    BY <1>0, <2>1
<1>3. Whole(C, S) \subseteq 1..n
  BY <1>0 DEF Whole
<1>4. IsFiniteSet(1..n) /\ Cardinality(1..n) = n
  BY CardinalityOfPlaces
<1>5. Cardinality(Whole(C, S)) <= n
  BY <1>3, <1>4, FS_Subset
<1> QED
  BY <1>2, <1>5

(* A table that is cut shows its first rows.                               *)
LEMMA TopIsPrefix ==
  ASSUME NEW R, NEW seq \in Seq(R), NEW n \in Nat
  PROVE  /\ Top(n, seq) \in Seq(R)
         /\ Len(Top(n, seq)) = IF Len(seq) < n THEN Len(seq) ELSE n
         /\ \A i \in 1..Len(Top(n, seq)) : i \in 1..Len(seq) /\ Top(n, seq)[i] = seq[i]
<1> DEFINE l == IF Len(seq) < n THEN Len(seq) ELSE n
<1>1. Len(seq) \in Nat /\ l \in Nat /\ l <= Len(seq) /\ DOMAIN seq = 1..Len(seq)
  BY LenProperties
<1>2. \A i \in 1..l : seq[i] \in R
  BY <1>1, ElementOfSeq
<1>3. /\ SubSeq(seq, 1, l) \in Seq(R) /\ Len(SubSeq(seq, 1, l)) = l
      /\ \A i \in 1..l : SubSeq(seq, 1, l)[i] = seq[i]
  <2>1. /\ SubSeq(seq, 1, l) \in Seq(R)
        /\ Len(SubSeq(seq, 1, l)) = IF 1 <= l THEN l - 1 + 1 ELSE 0
        /\ \A i \in 1..(l - 1 + 1) : SubSeq(seq, 1, l)[i] = seq[1 + i - 1]
    BY <1>1, <1>2, SubSeqProperties
  <2> QED
    BY <1>1, <2>1
<1> HIDE DEF l
<1>4. Top(n, seq) = SubSeq(seq, 1, l)
  BY DEF Top, l
<1>5. \A i \in 1..l : i \in 1..Len(seq)
  BY <1>1
<1> QED
  BY <1>3, <1>4, <1>5 DEF l

(* The counts of a breakdown sum up to its items, and those of a page stay *)
(* below.                                                                  *)
LEMMA PageAddsUp ==
  ASSUME NEW items \in Seq(ItemSet)
  PROVE  /\ AddsUp(Page(Ranked(Tally(items)), Len(items)))
         /\ LET table == Ranked(Tally(items))
            IN  SumFunction([i \in DOMAIN table |-> table[i].count]) = Len(items)
<1> DEFINE table == Ranked(Tally(items))
           n == Len(items)
           m == Len(table)
           C == [i \in 1..m |-> At(items, n, table[i].name)]
<1>1. RankOf(table, items) /\ n \in Nat
  BY BreakdownRanked, LenProperties
<1> HIDE DEF table
<1>2. table \in Seq(RowSet) /\ m \in Nat /\ DOMAIN table = 1..m
  BY <1>1, LenProperties DEF RankOf
<1>3. \A i \in 1..m : C[i] \subseteq 1..n /\ table[i].count = Cardinality(C[i])
  BY <1>1 DEF RankOf, At
<1>4. Disjoint(C, 1..m)
  BY <1>1 DEF RankOf, At, Disjoint
<1>5. Whole(C, 1..m) = 1..n
  <2>1. \A k \in 1..n : \E i \in 1..m : k \in C[i]
    BY <1>1 DEF RankOf, At
  <2> HIDE DEF C
  <2> QED
    BY <1>3, <2>1 DEF Whole
<1>6. Cardinality(1..n) = n
  BY <1>1, CardinalityOfPlaces
<1>7. ASSUME NEW l \in Nat, l <= m, NEW f, f = [i \in 1..l |-> table[i].count]
      PROVE  /\ SumFunction(f) <= n /\ SumFunction(f) \in Nat
             /\ l = m => SumFunction(f) = n
  <2>1. IsFiniteSet(1..l) /\ \A i \in 1..l : i \in 1..m
    BY <1>2, <1>7, FS_Interval
  <2>2. f = [i \in 1..l |-> f[i]]
    BY <1>7
  <2>3. \A i \in 1..l : C[i] \subseteq 1..n /\ f[i] = Cardinality(C[i])
    BY <1>3, <1>7, <2>1
  <2>4. Disjoint(C, 1..l)
    BY <1>4, <2>1 DEF Disjoint
  <2> HIDE DEF C, n
  <2>a. CountsParts(f, C, 1..l, n)
    BY <2>2, <2>3, <2>4 DEF CountsParts
  <2>5. /\ SumFunction(f) = Cardinality(Whole(C, 1..l))
        /\ SumFunction(f) \in Nat /\ SumFunction(f) <= n
    BY <1>1, <2>1, <2>a, SumOfPlaces
  <2> QED
    BY <2>5, <1>5, <1>6
<1>8. SumFunction([i \in DOMAIN table |-> table[i].count]) = n
  <2> DEFINE f == [i \in 1..m |-> table[i].count]
  <2>1. [i \in DOMAIN table |-> table[i].count] = f
    BY <1>2
  <2>2. f = [i \in 1..m |-> table[i].count] /\ m <= m
    BY <1>2
  <2> HIDE DEF f, m, n
  <2>3. SumFunction(f) = n
    BY <1>2, <1>7, <2>2
  <2> QED
    BY <2>1, <2>3
<1>9. AddsUp(Page(table, n))
  <2> DEFINE top == Top(MaxRows, table)
             l == Len(top)
             f == [i \in DOMAIN top |-> top[i].count]
  <2>1. MaxRows \in Nat
    BY ReportAssumption DEF ReportAssumption
  <2>2. /\ top \in Seq(RowSet) /\ l = IF m < MaxRows THEN m ELSE MaxRows
        /\ \A i \in 1..l : i \in 1..m /\ top[i] = table[i]
    BY <1>2, <2>1, TopIsPrefix
  <2> HIDE DEF top
  <2>3. DOMAIN top = 1..l /\ l \in Nat /\ l <= m
    BY <1>2, <2>1, <2>2, LenProperties
  <2>4. f = [i \in 1..l |-> table[i].count]
    BY <2>2, <2>3
  <2> HIDE DEF f, l, m, n
  <2>5. SumFunction(f) <= n /\ (l = m => SumFunction(f) = n)
    BY <2>3, <2>4, <1>7
  <2>6. m <= MaxRows => l = m
    BY <1>2, <2>1, <2>2
  <2> QED
    BY <2>5, <2>6 DEF AddsUp, Page, f, top, m, n
<1> QED
  BY <1>8, <1>9 DEF table

-----------------------------------------------------------------------------
(* A function on 1..n is a sequence of length n.                           *)
LEMMA MadeSeq ==
  ASSUME NEW X, NEW n \in Nat, NEW q \in [1..n -> X]
  PROVE  q \in Seq(X) /\ Len(q) = n
<1>1. q \in Seq(X)
  BY SeqDef
<1>2. Len(q) \in Nat /\ 1..Len(q) = 1..n
  BY <1>1, LenProperties
<1> QED
  BY <1>1, <1>2

(* The items of the breakdowns of events have their type.                  *)
LEMMA EventItems ==
  ASSUME NEW e \in EventRows
  PROVE  /\ MessageItem(e) \in ItemSet
         /\ ErrorItem(e) \in ItemSet
         /\ ButtonItem(e) \in ItemSet
         /\ CommandItem(e) \in ItemSet
<1>1. /\ e.name \in STRING /\ e.user \in Nat
      /\ e.about.message_type \in STRING /\ e.about.error_type \in STRING
  BY DEF EventRows
<1>2. /\ MessageType(e) \in Word /\ ErrorType(e) \in Word
      /\ Named(e, "unknown_button") \in Word /\ Named(e, "unknown_command") \in Word
  BY <1>1 DEF MessageType, ErrorType, Named, Word
<1> QED
  BY <1>1, <1>2 DEF MessageItem, ErrorItem, ButtonItem, CommandItem, Item, ItemSet

(* So has that of the models.                                              *)
LEMMA ModelItems ==
  ASSUME NEW g \in GenerationRows
  PROVE  /\ ModelItem(g) \in ItemSet
         /\ ModelItem(g).name = Model(g)
<1>1. g.model \in STRING /\ g.user \in Nat
  BY DEF GenerationRows
<1>2. Model(g) \in Word
  BY <1>1 DEF Model, Word
<1> QED
  BY <1>1, <1>2 DEF ModelItem, Item, ItemSet

(* The items of a sequence of rows, one for each row.                      *)
LEMMA ItemsOf ==
  ASSUME NEW R, NEW rows \in Seq(R), NEW f \in [R -> ItemSet]
  PROVE  /\ [i \in DOMAIN rows |-> f[rows[i]]] \in Seq(ItemSet)
         /\ Len([i \in DOMAIN rows |-> f[rows[i]]]) = Len(rows)
<1> DEFINE q == [i \in DOMAIN rows |-> f[rows[i]]]
           n == Len(rows)
<1>1. n \in Nat /\ DOMAIN rows = 1..n /\ \A i \in 1..n : rows[i] \in R
  BY LenProperties, ElementOfSeq
<1>2. q \in [1..n -> ItemSet]
  <2> HIDE DEF n
  <2> QED
    BY <1>1
<1> HIDE DEF q, n
<1>3. q \in Seq(ItemSet) /\ Len(q) = n
  BY <1>1, <1>2, MadeSeq
<1> QED
  BY <1>3 DEF q, n

(* What a breakdown of rows is.                                            *)
RankedItems(table, items, rows) ==
  /\ items \in Seq(ItemSet) /\ Len(items) = Len(rows)
  /\ table = Ranked(Tally(items))
  /\ RankOf(table, items)
  /\ AddsUp(Page(table, Len(rows)))
  /\ SumFunction([i \in DOMAIN table |-> table[i].count]) = Len(rows)

(* What BreakdownRanked and PageAddsUp say of the items of rows.           *)
LEMMA ItemsRanked ==
  ASSUME NEW R, NEW rows \in Seq(R), NEW f \in [R -> ItemSet],
         NEW items, items = [i \in DOMAIN rows |-> f[rows[i]]]
  PROVE  RankedItems(Ranked(Tally(items)), items, rows)
<1>1. items \in Seq(ItemSet) /\ Len(items) = Len(rows)
  BY ItemsOf
<1>2. RankOf(Ranked(Tally(items)), items)
  BY <1>1, BreakdownRanked
<1>3. AddsUp(Page(Ranked(Tally(items)), Len(items)))
  BY <1>1, PageAddsUp
<1>4. SumFunction([i \in DOMAIN Ranked(Tally(items)) |-> Ranked(Tally(items))[i].count]) =
        Len(items)
  BY <1>1, PageAddsUp
<1> QED
  BY <1>1, <1>2, <1>3, <1>4 DEF RankedItems

(* The pages of events, for whatever rows they are drawn from.             *)
LEMMA EventPages ==
  ASSUME NEW rows \in Seq(EventRows)
  PROVE  /\ AddsUp(Page(Breakdown(rows, MessageItem), Len(rows)))
         /\ AddsUp(Page(Breakdown(rows, ErrorItem), Len(rows)))
         /\ AddsUp(Page(Breakdown(rows, CommandItem), Len(rows)))
         /\ RankedItems(Breakdown(rows, ButtonItem),
                        [i \in DOMAIN rows |-> ButtonItem(rows[i])], rows)
<1>0. \A i \in DOMAIN rows : rows[i] \in EventRows
  BY LenProperties, ElementOfSeq
<1>1. AddsUp(Page(Breakdown(rows, MessageItem), Len(rows)))
  <2> DEFINE f == [e \in EventRows |-> MessageItem(e)]
             items == [i \in DOMAIN rows |-> MessageItem(rows[i])]
  <2>1. f \in [EventRows -> ItemSet]
    BY EventItems
  <2>2. items = [i \in DOMAIN rows |-> f[rows[i]]]
    BY <1>0
  <2>3. Breakdown(rows, MessageItem) = Ranked(Tally(items))
    BY DEF Breakdown
  <2> HIDE DEF f, items
  <2>4. RankedItems(Ranked(Tally(items)), items, rows)
    BY <2>1, <2>2, ItemsRanked
  <2> QED
    BY <2>3, <2>4 DEF RankedItems
<1>2. AddsUp(Page(Breakdown(rows, ErrorItem), Len(rows)))
  <2> DEFINE f == [e \in EventRows |-> ErrorItem(e)]
             items == [i \in DOMAIN rows |-> ErrorItem(rows[i])]
  <2>1. f \in [EventRows -> ItemSet]
    BY EventItems
  <2>2. items = [i \in DOMAIN rows |-> f[rows[i]]]
    BY <1>0
  <2>3. Breakdown(rows, ErrorItem) = Ranked(Tally(items))
    BY DEF Breakdown
  <2> HIDE DEF f, items
  <2>4. RankedItems(Ranked(Tally(items)), items, rows)
    BY <2>1, <2>2, ItemsRanked
  <2> QED
    BY <2>3, <2>4 DEF RankedItems
<1>3. AddsUp(Page(Breakdown(rows, CommandItem), Len(rows)))
  <2> DEFINE f == [e \in EventRows |-> CommandItem(e)]
             items == [i \in DOMAIN rows |-> CommandItem(rows[i])]
  <2>1. f \in [EventRows -> ItemSet]
    BY EventItems
  <2>2. items = [i \in DOMAIN rows |-> f[rows[i]]]
    BY <1>0
  <2>3. Breakdown(rows, CommandItem) = Ranked(Tally(items))
    BY DEF Breakdown
  <2> HIDE DEF f, items
  <2>4. RankedItems(Ranked(Tally(items)), items, rows)
    BY <2>1, <2>2, ItemsRanked
  <2> QED
    BY <2>3, <2>4 DEF RankedItems
<1>4. RankedItems(Breakdown(rows, ButtonItem),
                  [i \in DOMAIN rows |-> ButtonItem(rows[i])], rows)
  <2> DEFINE f == [e \in EventRows |-> ButtonItem(e)]
             items == [i \in DOMAIN rows |-> ButtonItem(rows[i])]
  <2>1. f \in [EventRows -> ItemSet]
    BY EventItems
  <2>2. items = [i \in DOMAIN rows |-> f[rows[i]]]
    BY <1>0
  <2>3. Breakdown(rows, ButtonItem) = Ranked(Tally(items))
    BY DEF Breakdown
  <2> HIDE DEF f, items
  <2>4. RankedItems(Ranked(Tally(items)), items, rows)
    BY <2>1, <2>2, ItemsRanked
  <2> QED
    BY <2>3, <2>4 DEF items
<1> QED
  BY <1>1, <1>2, <1>3, <1>4

(* The breakdown of the models.                                            *)
LEMMA ModelsRanked ==
  ASSUME NEW gens \in Seq(GenerationRows)
  PROVE  RankedItems(Breakdown(gens, ModelItem),
                     [i \in DOMAIN gens |-> ModelItem(gens[i])], gens)
<1> DEFINE f == [g \in GenerationRows |-> ModelItem(g)]
           items == [i \in DOMAIN gens |-> ModelItem(gens[i])]
<1>1. f \in [GenerationRows -> ItemSet]
  BY ModelItems
<1>2. items = [i \in DOMAIN gens |-> f[gens[i]]]
  <2>1. \A i \in DOMAIN gens : gens[i] \in GenerationRows
    BY LenProperties, ElementOfSeq
  <2> QED
    BY <2>1
<1>3. Breakdown(gens, ModelItem) = Ranked(Tally(items))
  BY DEF Breakdown
<1> HIDE DEF f, items
<1>4. RankedItems(Ranked(Tally(items)), items, gens)
  BY <1>1, <1>2, ItemsRanked
<1> QED
  BY <1>3, <1>4 DEF items

-----------------------------------------------------------------------------
(* The clicks among the events.                                            *)
LEMMA ClicksOf ==
  ASSUME NEW events \in Seq(EventRows)
  PROVE  /\ Clicks(events) = Only(events, {i \in 1..Len(events) : events[i].type = "click"})
         /\ Clicks(events) \in Seq(EventRows)
         /\ Len(Clicks(events)) = Cardinality({i \in 1..Len(events) : events[i].type = "click"})
<1> DEFINE picked == {i \in 1..Len(events) : events[i].type = "click"}
<1>1. DOMAIN events = 1..Len(events)
  BY LenProperties
<1>2. Clicks(events) = Only(events, picked)
  BY <1>1 DEF Clicks, Where
<1>3. picked \subseteq 1..Len(events)
  OBVIOUS
<1> HIDE DEF picked
<1>4. Only(events, picked) \in Seq(EventRows) /\ Len(Only(events, picked)) = Cardinality(picked)
  BY <1>3, OnlyLength
<1> QED
  BY <1>2, <1>4 DEF picked

(* The commands, messages and errors among the events.                     *)
LEMMA EventParts ==
  ASSUME NEW events \in Seq(EventRows)
  PROVE  /\ Commands(events) \in Seq(EventRows)
         /\ Messages(events) \in Seq(EventRows)
         /\ Errors(events) \in Seq(EventRows)
<1>1. DOMAIN events = 1..Len(events)
  BY LenProperties
<1>2. Commands(events) \in Seq(EventRows)
  <2> DEFINE picked == {i \in 1..Len(events) : events[i].type = "command"}
  <2>1. Commands(events) = Only(events, picked)
    BY <1>1 DEF Commands, Where
  <2>2. picked \subseteq 1..Len(events)
    OBVIOUS
  <2> HIDE DEF picked
  <2> QED
    BY <2>1, <2>2, OnlyLength
<1>3. Messages(events) \in Seq(EventRows)
  <2> DEFINE picked == {i \in 1..Len(events) : IsMessage(events[i])}
  <2>1. Messages(events) = Only(events, picked)
    BY <1>1 DEF Messages, Where
  <2>2. picked \subseteq 1..Len(events)
    OBVIOUS
  <2> HIDE DEF picked
  <2> QED
    BY <2>1, <2>2, OnlyLength
<1>4. Errors(events) \in Seq(EventRows)
  <2> DEFINE picked == {i \in 1..Len(events) : IsError(events[i])}
  <2>1. Errors(events) = Only(events, picked)
    BY <1>1 DEF Errors, Where
  <2>2. picked \subseteq 1..Len(events)
    OBVIOUS
  <2> HIDE DEF picked
  <2> QED
    BY <2>1, <2>2, OnlyLength
<1> QED
  BY <1>2, <1>3, <1>4

(* The pages of buttons, commands, messages and errors add up.             *)
LEMMA EventPagesAddUp ==
  ASSUME NEW events \in Seq(EventRows)
  PROVE  /\ AddsUp(Page(TopButtons(events), Len(Clicks(events))))
         /\ AddsUp(Page(TopCommands(events), Len(Commands(events))))
         /\ AddsUp(Page(MessagesBreakdown(events), Len(Messages(events))))
         /\ AddsUp(Page(ErrorsBreakdown(events), Len(Errors(events))))
<1>1. AddsUp(Page(TopButtons(events), Len(Clicks(events))))
  <2>1. Clicks(events) \in Seq(EventRows)
    BY ClicksOf
  <2>2. RankedItems(Breakdown(Clicks(events), ButtonItem),
                    [i \in DOMAIN Clicks(events) |-> ButtonItem(Clicks(events)[i])],
                    Clicks(events))
    BY <2>1, EventPages
  <2> QED
    BY <2>2 DEF RankedItems, TopButtons
<1>2. AddsUp(Page(TopCommands(events), Len(Commands(events))))
  BY EventParts, EventPages DEF TopCommands
<1>3. AddsUp(Page(MessagesBreakdown(events), Len(Messages(events))))
  BY EventParts, EventPages DEF MessagesBreakdown
<1>4. AddsUp(Page(ErrorsBreakdown(events), Len(Errors(events))))
  BY EventParts, EventPages DEF ErrorsBreakdown
<1> QED
  BY <1>1, <1>2, <1>3, <1>4

(* Where the generations of one status are.                                *)
OfStatusAt(gens, s) == {i \in 1..Len(gens) : gens[i].status = s}

(* The generations with one status.                                        *)
LEMMA StatusLength ==
  ASSUME NEW gens \in Seq(GenerationRows), NEW s
  PROVE  /\ Len(OfStatus(gens, s)) = Cardinality(OfStatusAt(gens, s))
         /\ Len(OfStatus(gens, s)) \in 0..Len(gens)
<1> DEFINE picked == OfStatusAt(gens, s)
           n == Len(gens)
<1>1. DOMAIN gens = 1..n /\ n \in Nat
  BY LenProperties
<1>2. OfStatus(gens, s) = Only(gens, picked)
  BY <1>1 DEF OfStatus, Where, OfStatusAt
<1>3. picked \subseteq 1..n
  BY DEF OfStatusAt
<1> HIDE DEF picked, n
<1>4. Len(Only(gens, picked)) = Cardinality(picked)
  BY <1>3, OnlyLength DEF n
<1>5. IsFiniteSet(1..n) /\ Cardinality(1..n) = n
  BY <1>1, CardinalityOfPlaces
<1>6. Cardinality(picked) <= n
  BY <1>3, <1>5, FS_Subset
<1>7. Cardinality(picked) \in Nat
  BY <1>1, <1>3, FinitePlaces
<1> QED
  BY <1>1, <1>2, <1>4, <1>6, <1>7 DEF picked, n

(* A column of the table of models.                                        *)
Parts(gens, table, s) ==
  [i \in DOMAIN table |->
     Len(Where(gens, LAMBDA g : Model(g) = table[i].name /\ g.status = s))]

(* The generations of one status, model by model.                          *)
LEMMA ModelParts ==
  ASSUME NEW gens \in Seq(GenerationRows), NEW table, NEW items,
         RankedItems(table, items, gens), items = [i \in DOMAIN gens |-> ModelItem(gens[i])],
         NEW s
  PROVE  SumFunction(Parts(gens, table, s)) = Len(OfStatus(gens, s))
<1> DEFINE n == Len(gens)
           m == Len(table)
           picked(i) == {k \in 1..n : Model(gens[k]) = table[i].name /\ gens[k].status = s}
           C == [i \in 1..m |-> picked(i)]
           f == [i \in 1..m |->
                   Len(Where(gens, LAMBDA g : Model(g) = table[i].name /\ g.status = s))]
<1>1. DOMAIN gens = 1..n /\ n \in Nat /\ \A i \in 1..n : gens[i] \in GenerationRows
  BY LenProperties, ElementOfSeq
<1>2. RankOf(table, items) /\ Len(items) = n
  BY DEF RankedItems
<1>3. DOMAIN table = 1..m /\ m \in Nat
  BY <1>2, LenProperties DEF RankOf
<1>4. \A k \in 1..n : items[k].name = Model(gens[k])
  BY <1>1, ModelItems
<1>5. ASSUME NEW i \in 1..m PROVE picked(i) \subseteq 1..n /\ f[i] = Cardinality(picked(i))
  <2>1. Where(gens, LAMBDA g : Model(g) = table[i].name /\ g.status = s) = Only(gens, picked(i))
    BY <1>1 DEF Where
  <2>2. picked(i) \subseteq 1..n
    OBVIOUS
  <2>3. f[i] = Len(Only(gens, picked(i)))
    BY <2>1
  <2> HIDE DEF picked, f
  <2> QED
    BY <2>2, <2>3, OnlyLength
<1>6. \A i \in 1..m : C[i] \subseteq 1..n /\ f[i] = Cardinality(C[i])
  BY <1>5
<1>7. Disjoint(C, 1..m)
  <2>1. \A i, j \in 1..m : i # j => table[i].name # table[j].name
    BY <1>2 DEF RankOf
  <2> QED
    BY <2>1 DEF Disjoint
<1>8. Whole(C, 1..m) = OfStatusAt(gens, s)
  <2>1. ASSUME NEW k \in OfStatusAt(gens, s) PROVE \E i \in 1..m : k \in C[i]
    <3>1. k \in 1..n /\ gens[k].status = s
      BY DEF OfStatusAt
    <3>2. PICK i \in 1..m : items[k].name = table[i].name
      BY <1>2, <3>1 DEF RankOf
    <3> QED
      BY <1>4, <3>1, <3>2
  <2>2. ASSUME NEW i \in 1..m PROVE C[i] \subseteq OfStatusAt(gens, s)
    BY DEF OfStatusAt
  <2> HIDE DEF C
  <2> QED
    BY <2>1, <2>2 DEF Whole
<1>9. IsFiniteSet(1..m)
  BY <1>3, CardinalityOfPlaces
<1>10. f = [i \in 1..m |-> f[i]]
  OBVIOUS
<1>11. Parts(gens, table, s) = f
  BY <1>3 DEF Parts
<1> HIDE DEF f, C, n, m
<1>12. CountsParts(f, C, 1..m, n)
  BY <1>6, <1>7, <1>10 DEF CountsParts
<1>13. SumFunction(f) = Cardinality(Whole(C, 1..m))
  BY <1>1, <1>9, <1>12, SumOfPlaces
<1> QED
  BY <1>8, <1>11, <1>13, StatusLength

(* The table of models sums up to the generations, and so do its columns   *)
(* of those that succeeded and failed.                                     *)
LEMMA ModelsAddUp ==
  ASSUME NEW gens \in Seq(GenerationRows)
  PROVE  LET models == ModelsBreakdown(gens)
         IN  /\ SumFunction([i \in DOMAIN models |-> models[i].count]) = Len(gens)
             /\ SumFunction([i \in DOMAIN models |-> models[i].success]) =
                  Len(OfStatus(gens, "success"))
             /\ SumFunction([i \in DOMAIN models |-> models[i].failed]) =
                  Len(OfStatus(gens, "failed"))
<1> DEFINE models == ModelsBreakdown(gens)
           table == Breakdown(gens, ModelItem)
           items == [i \in DOMAIN gens |-> ModelItem(gens[i])]
           part(m, s) == Len(Where(gens, LAMBDA g : Model(g) = m /\ g.status = s))
<1>1. RankedItems(table, items, gens)
  BY ModelsRanked
<1>2. /\ DOMAIN models = DOMAIN table
      /\ \A i \in DOMAIN table : /\ models[i].count = table[i].count
                                 /\ models[i].success = part(table[i].name, "success")
                                 /\ models[i].failed = part(table[i].name, "failed")
  BY DEF ModelsBreakdown
<1> HIDE DEF models, table
<1>3. SumFunction([i \in DOMAIN models |-> models[i].count]) = Len(gens)
  <2>1. [i \in DOMAIN models |-> models[i].count] = [i \in DOMAIN table |-> table[i].count]
    BY <1>2
  <2> QED
    BY <1>1, <2>1 DEF RankedItems
<1>4. ASSUME NEW s
      PROVE  SumFunction(Parts(gens, table, s)) = Len(OfStatus(gens, s))
  <2>1. items = [i \in DOMAIN gens |-> ModelItem(gens[i])]
    OBVIOUS
  <2> HIDE DEF items
  <2> QED
    BY <1>1, <2>1, ModelParts
<1>5. /\ Parts(gens, table, "success") = [i \in DOMAIN table |-> part(table[i].name, "success")]
      /\ Parts(gens, table, "failed") = [i \in DOMAIN table |-> part(table[i].name, "failed")]
  BY DEF Parts
<1> HIDE DEF part
<1>6. /\ [i \in DOMAIN models |-> models[i].success] = Parts(gens, table, "success")
      /\ [i \in DOMAIN models |-> models[i].failed] = Parts(gens, table, "failed")
  BY <1>2, <1>5
<1> QED
  BY <1>3, <1>4, <1>6 DEF models

-----------------------------------------------------------------------------
(* The table of bots, and where the rows of a bot are.                     *)
BotsOf(events, gens, trans) ==
  {BotBreakdown(events, gens, trans, b) : b \in Bots(events, gens, trans)}

BotAt(rows, b) == {i \in 1..Len(rows) : rows[i].bot = b}

(* The image of a finite set is finite (FS_Image has a parameter that is   *)
(* an operator).                                                           *)
LEMMA FiniteImage ==
  ASSUME NEW S, IsFiniteSet(S), NEW T, NEW g, \A t \in T : \E x \in S : g[x] = t,
         \A x \in S : g[x] \in T
  PROVE  IsFiniteSet(T)
<1> DEFINE f == [x \in S |-> g[x]]
<1>1. f \in Surjection(S, T)
  BY DEF Surjection
<1> QED
  BY <1>1, FS_Surjection

(* Finitely many rows.                                                     *)
LEMMA FiniteRows ==
  ASSUME NEW R, NEW rows \in Seq(R)
  PROVE  IsFiniteSet(ToSet(rows))
<1>1. DOMAIN rows = 1..Len(rows) /\ Len(rows) \in Nat
  BY LenProperties
<1>2. IsFiniteSet(1..Len(rows))
  BY <1>1, CardinalityOfPlaces
<1>3. /\ \A t \in ToSet(rows) : \E i \in 1..Len(rows) : rows[i] = t
      /\ \A i \in 1..Len(rows) : rows[i] \in ToSet(rows)
  BY <1>1 DEF ToSet
<1> QED
  BY <1>2, <1>3, FiniteImage

(* The rows of one bot.                                                    *)
LEMMA OfBotRows ==
  ASSUME NEW R, NEW rows \in Seq(R), NEW b
  PROVE  /\ OfBot(rows, b) = Only(rows, BotAt(rows, b))
         /\ BotAt(rows, b) \subseteq 1..Len(rows)
         /\ OfBot(rows, b) \in Seq(R)
         /\ Len(OfBot(rows, b)) = Cardinality(BotAt(rows, b))
<1>1. DOMAIN rows = 1..Len(rows)
  BY LenProperties
<1>2. OfBot(rows, b) = Only(rows, BotAt(rows, b))
  BY <1>1 DEF OfBot, Where, BotAt
<1>3. BotAt(rows, b) \subseteq 1..Len(rows)
  BY DEF BotAt
<1> QED
  BY <1>2, <1>3, OnlyLength

(* A bot has one row, every bot has one, and f counts the places bot by    *)
(* bot.                                                                    *)
DifferentIds(bots) == \A x, y \in bots : x # y => x.bot_id # y.bot_id

AllKnown(bots, places, rows) == \A i \in places : \E x \in bots : x.bot_id = rows[i].bot

CountsBots(f, bots, places, rows) ==
  /\ f = [x \in bots |-> f[x]]
  /\ \A x \in bots : f[x] = Cardinality({i \in places : rows[i].bot = x.bot_id})

(* The table of bots: finite, each bot once, with what its own rows say.   *)
LEMMA BotRows ==
  ASSUME NEW events \in Seq(EventRows), NEW gens \in Seq(GenerationRows),
         NEW trans \in Seq(TransactionRows)
  PROVE  LET bots == BotsOf(events, gens, trans)
         IN  /\ IsFiniteSet(bots)
             /\ DifferentIds(bots)
             /\ \A b \in Bots(events, gens, trans) : \E x \in bots : x.bot_id = b
             /\ \A x \in bots :
                  /\ x.events = Len(OfBot(events, x.bot_id))
                  /\ x.clicks = Len(Clicks(OfBot(events, x.bot_id)))
                  /\ x.stars = Stars(OfBot(trans, x.bot_id))
                  /\ x.users = Cardinality(Users(OfBot(events, x.bot_id),
                                                 OfBot(gens, x.bot_id)))
<1> DEFINE bots == BotsOf(events, gens, trans)
           of(b) == BotBreakdown(events, gens, trans, b)
           B == Bots(events, gens, trans)
<1>1. IsFiniteSet(B)
  <2> DEFINE rs == ToSet(events) \cup ToSet(gens) \cup ToSet(trans)
  <2>1. IsFiniteSet(ToSet(events)) /\ IsFiniteSet(ToSet(gens)) /\ IsFiniteSet(ToSet(trans))
    BY FiniteRows
  <2>2. IsFiniteSet(rs)
    <3>1. IsFiniteSet(ToSet(events) \cup ToSet(gens))
      BY <2>1, FS_Union
    <3> QED
      BY <2>1, <3>1, FS_Union
  <2>3. B = {r.bot : r \in rs}
    BY DEF Bots
  <2> DEFINE g == [r \in rs |-> r.bot]
  <2> HIDE DEF rs, B
  <2>4. (\A b \in B : \E r \in rs : g[r] = b) /\ \A r \in rs : g[r] \in B
    BY <2>3
  <2> HIDE DEF g
  <2> QED
    BY <2>2, <2>4, FiniteImage
<1>2. /\ bots = {of(b) : b \in B}
      /\ \A b : of(b).bot_id = b
  BY DEF BotsOf, BotBreakdown
<1>3. \A b : /\ of(b).events = Len(OfBot(events, b))
             /\ of(b).clicks = Len(Clicks(OfBot(events, b)))
             /\ of(b).stars = Stars(OfBot(trans, b))
             /\ of(b).users = Cardinality(Users(OfBot(events, b), OfBot(gens, b)))
  BY DEF BotBreakdown
<1> HIDE DEF bots, of, B
<1>4. IsFiniteSet(bots)
  <2> DEFINE g == [b \in B |-> of(b)]
  <2>1. (\A x \in bots : \E b \in B : g[b] = x) /\ \A b \in B : g[b] \in bots
    BY <1>2
  <2> HIDE DEF g
  <2> QED
    BY <1>1, <2>1, FiniteImage
<1>5. \A x \in bots : x = of(x.bot_id)
  BY <1>2
<1>6. \A b \in B : \E x \in bots : x.bot_id = b
  BY <1>2
<1> QED
  BY <1>3, <1>4, <1>5, <1>6 DEF bots, B, DifferentIds

(* The bot of every row is in the table of bots.                           *)
LEMMA BotsKnown ==
  ASSUME NEW events \in Seq(EventRows), NEW gens \in Seq(GenerationRows),
         NEW trans \in Seq(TransactionRows)
  PROVE  /\ \A i \in 1..Len(events) : events[i].bot \in Bots(events, gens, trans)
         /\ \A i \in 1..Len(gens) : gens[i].bot \in Bots(events, gens, trans)
         /\ \A i \in 1..Len(trans) : trans[i].bot \in Bots(events, gens, trans)
<1>1. /\ DOMAIN events = 1..Len(events)
      /\ DOMAIN gens = 1..Len(gens)
      /\ DOMAIN trans = 1..Len(trans)
  BY LenProperties
<1>2. /\ \A i \in 1..Len(events) : events[i] \in ToSet(events)
      /\ \A i \in 1..Len(gens) : gens[i] \in ToSet(gens)
      /\ \A i \in 1..Len(trans) : trans[i] \in ToSet(trans)
  BY <1>1 DEF ToSet
<1> QED
  BY <1>2 DEF Bots

(* Places split by the bot of their rows.                                  *)
LEMMA SumOverBots ==
  ASSUME NEW n \in Nat, NEW bots, IsFiniteSet(bots),
         NEW places, places \subseteq 1..n, NEW rows,
         DifferentIds(bots), AllKnown(bots, places, rows),
         NEW f, CountsBots(f, bots, places, rows)
  PROVE  SumFunction(f) = Cardinality(places)
<1> DEFINE C == [x \in bots |-> {i \in places : rows[i].bot = x.bot_id}]
<1>1. CountsParts(f, C, bots, n)
  <2>1. \A x \in bots : C[x] \subseteq 1..n /\ f[x] = Cardinality(C[x])
    BY DEF CountsBots
  <2>2. Disjoint(C, bots)
    BY DEF Disjoint, DifferentIds
  <2> HIDE DEF C
  <2> QED
    BY <2>1, <2>2 DEF CountsParts, CountsBots
<1>2. Whole(C, bots) = places
  <2>1. \A i \in places : \E x \in bots : i \in C[x]
    BY DEF AllKnown
  <2>2. \A x \in bots : C[x] \subseteq places
    OBVIOUS
  <2> HIDE DEF C
  <2> QED
    BY <2>1, <2>2 DEF Whole
<1> HIDE DEF C
<1>3. SumFunction(f) = Cardinality(Whole(C, bots))
  BY <1>1, SumOfPlaces
<1> QED
  BY <1>2, <1>3

(* The bots share the events and the clicks among them.                    *)
LEMMA BotsAddUp ==
  ASSUME NEW events \in Seq(EventRows), NEW gens \in Seq(GenerationRows),
         NEW trans \in Seq(TransactionRows)
  PROVE  LET bots == BotsOf(events, gens, trans)
         IN  /\ SumFunction([b \in bots |-> b.events]) = Len(events)
             /\ SumFunction([b \in bots |-> b.clicks]) = Len(Clicks(events))
<1> DEFINE bots == BotsOf(events, gens, trans)
           n == Len(events)
           Click == {e \in EventRows : e.type = "click"}
           at == {i \in 1..n : events[i].type = "click"}
<1>1. n \in Nat /\ \A i \in 1..n : events[i] \in EventRows
  BY LenProperties, ElementOfSeq
<1>2. /\ IsFiniteSet(bots)
      /\ DifferentIds(bots)
      /\ \A x \in bots : /\ x.events = Len(OfBot(events, x.bot_id))
                         /\ x.clicks = Len(Clicks(OfBot(events, x.bot_id)))
  BY BotRows
<1>3. AllKnown(bots, 1..n, events)
  <2>1. \A i \in 1..n : events[i].bot \in Bots(events, gens, trans)
    BY BotsKnown
  <2>2. \A b \in Bots(events, gens, trans) : \E x \in bots : x.bot_id = b
    BY BotRows
  <2> HIDE DEF bots
  <2> QED
    BY <2>1, <2>2 DEF AllKnown
<1> HIDE DEF bots
<1>4. SumFunction([b \in bots |-> b.events]) = n
  <2> DEFINE f == [b \in bots |-> b.events]
  <2>1. ASSUME NEW x \in bots
        PROVE  f[x] = Cardinality({i \in 1..n : events[i].bot = x.bot_id})
    <3>1. f[x] = Len(OfBot(events, x.bot_id))
      BY <1>2
    <3>2. Len(OfBot(events, x.bot_id)) = Cardinality(BotAt(events, x.bot_id))
      BY OfBotRows
    <3>3. BotAt(events, x.bot_id) = {i \in 1..n : events[i].bot = x.bot_id}
      BY DEF BotAt
    <3> QED
      BY <3>1, <3>2, <3>3
  <2>2. CountsBots(f, bots, 1..n, events)
    BY <2>1 DEF CountsBots
  <2> HIDE DEF f, n
  <2>3. SumFunction(f) = Cardinality(1..n)
    BY <1>1, <1>2, <1>3, <2>2, SumOverBots
  <2> QED
    BY <1>1, <2>3, CardinalityOfPlaces DEF f
<1>5. SumFunction([b \in bots |-> b.clicks]) = Len(Clicks(events))
  <2> DEFINE f == [b \in bots |-> b.clicks]
  <2>1. ASSUME NEW x \in bots
        PROVE  f[x] = Cardinality({i \in at : events[i].bot = x.bot_id})
    <3> DEFINE c == OfBot(events, x.bot_id)
               p == BotAt(events, x.bot_id)
    <3>1. c = Only(events, p) /\ p \subseteq 1..n /\ c \in Seq(EventRows)
      BY OfBotRows
    <3>2. f[x] = Len(Clicks(c))
      BY <1>2
    <3> HIDE DEF c, p, Click, f
    <3>3. Len(Clicks(c)) = Cardinality({k \in 1..Len(c) : c[k].type = "click"})
      BY <3>1, ClicksOf
    <3>4. {k \in 1..Len(c) : c[k].type = "click"} = {k \in 1..Len(c) : c[k] \in Click}
      <4>1. \A k \in 1..Len(c) : c[k] \in EventRows
        BY <3>1, ElementOfSeq
      <4> QED
        BY <4>1 DEF Click
    <3>5. KeptWhich(c, events, p, Click)
      BY <3>1, OnlyWhich
    <3>6. {i \in p : events[i] \in Click} = {i \in at : events[i].bot = x.bot_id}
      BY <1>1 DEF p, BotAt, Click
    <3> HIDE DEF at, n
    <3> QED
      BY <3>2, <3>3, <3>4, <3>5, <3>6 DEF KeptWhich
  <2>2. CountsBots(f, bots, at, events)
    BY <2>1 DEF CountsBots
  <2>3. at \subseteq 1..n /\ AllKnown(bots, at, events)
    BY <1>3 DEF AllKnown
  <2>4. Len(Clicks(events)) = Cardinality(at)
    BY ClicksOf
  <2> HIDE DEF f, n, at
  <2>5. SumFunction(f) = Cardinality(at)
    BY <1>1, <1>2, <2>2, <2>3, SumOverBots
  <2> QED
    BY <2>4, <2>5 DEF f
<1> QED
  BY <1>4, <1>5 DEF bots

-----------------------------------------------------------------------------
(* Taken member for every star that the rows at these places have earned.    *)
StarsOfRow(rows) == [i \in 1..Len(rows) |-> {i} \X (1..rows[i].stars)]
StarsAt(rows, places) == Whole(StarsOfRow(rows), places)

(* The stars of rows, one by one.                                          *)
LEMMA StarsCounted ==
  ASSUME NEW rows \in Seq(TransactionRows)
  PROVE  /\ IsFiniteSet(StarsAt(rows, 1..Len(rows)))
         /\ Stars(rows) = Cardinality(StarsAt(rows, 1..Len(rows)))
<1> DEFINE n == Len(rows)
           C == StarsOfRow(rows)
           f == [i \in 1..n |-> rows[i].stars]
<1>1. DOMAIN rows = 1..n /\ n \in Nat /\ \A i \in 1..n : rows[i].stars \in Nat
  <2>1. DOMAIN rows = 1..n /\ n \in Nat /\ \A i \in 1..n : rows[i] \in TransactionRows
    BY LenProperties, ElementOfSeq
  <2> QED
    BY <2>1 DEF TransactionRows
<1>2. ASSUME NEW i \in 1..n
      PROVE  IsFiniteSet(C[i]) /\ Cardinality(C[i]) = rows[i].stars
  <2> DEFINE k == rows[i].stars
  <2>1. k \in Nat /\ C[i] = {i} \X (1..k)
    BY <1>1 DEF StarsOfRow
  <2> HIDE DEF k
  <2>2. IsFiniteSet(1..k) /\ Cardinality(1..k) = k
    BY <2>1, CardinalityOfPlaces
  <2>3. IsFiniteSet({i}) /\ Cardinality({i}) = 1
    BY FS_Singleton
  <2>4. IsFiniteSet({i} \X (1..k)) /\ Cardinality({i} \X (1..k)) = 1 * k
    BY <2>2, <2>3, FS_Product
  <2>5. 1 * k = k
    BY <2>1
  <2> QED
    BY <2>1, <2>4, <2>5 DEF k
<1>3. Counts(f, C, 1..n)
  <2> HIDE DEF C, n
  <2> QED
    BY <1>2 DEF Counts
<1>4. Disjoint(C, 1..n)
  BY DEF Disjoint, StarsOfRow
<1>5. IsFiniteSet(1..n)
  BY <1>1, CardinalityOfPlaces
<1>6. Stars(rows) = SumFunction(f)
  BY <1>1 DEF Stars
<1> HIDE DEF f, C, n
<1>7. IsFiniteSet(Whole(C, 1..n)) /\ SumFunction(f) = Cardinality(Whole(C, 1..n))
  BY <1>3, <1>4, <1>5, SumOfParts
<1> QED
  BY <1>6, <1>7 DEF StarsAt, C, n

(* The stars of the rows that are kept are those of the rows that are      *)
(* picked.                                                                 *)
LEMMA StarsKept ==
  ASSUME NEW rows \in Seq(TransactionRows), NEW picked, picked \subseteq 1..Len(rows)
  PROVE  /\ IsFiniteSet(StarsAt(rows, picked))
         /\ Stars(Only(rows, picked)) = Cardinality(StarsAt(rows, picked))
<1> DEFINE c == Only(rows, picked)
           n == Len(rows)
           l == Len(c)
<1>1. OnlyOf(c, rows, picked, n, TransactionRows) /\ n \in Nat
  BY OnlyPicks, LenProperties
<1> HIDE DEF c
<1>2. c \in Seq(TransactionRows) /\ l \in Nat
  BY <1>1, LenProperties DEF OnlyOf
<1>3. PICK b : PickOf(b, c, rows, picked, n)
  BY <1>1 DEF OnlyOf
<1>4. /\ \A i \in 1..l : b[i] \in picked /\ c[i] = rows[b[i]]
      /\ \A i, j \in 1..l : i # j => b[i] # b[j]
      /\ \A p \in picked : \E i \in 1..l : b[i] = p
  <2>1. picked \cap (1..n) = picked
    OBVIOUS
  <2> QED
    BY <1>3, <2>1 DEF PickOf
<1> DEFINE S == StarsAt(c, 1..l)
           g == [x \in S |-> <<b[x[1]], x[2]>>]
<1>5. \A x : x \in S <=> \E i \in 1..l : x \in {i} \X (1..c[i].stars)
  BY DEF StarsAt, Whole, StarsOfRow
<1>6. \A x : x \in StarsAt(rows, picked) <=> \E i \in picked : x \in {i} \X (1..rows[i].stars)
  BY DEF StarsAt, Whole, StarsOfRow
<1>7. IsFiniteSet(S) /\ Stars(c) = Cardinality(S)
  BY <1>2, StarsCounted
<1> HIDE DEF S
<1>8. ASSUME NEW x \in S, NEW y \in S, x # y PROVE g[x] # g[y]
  <2>1. PICK i \in 1..l : x \in {i} \X (1..c[i].stars)
    BY <1>5
  <2>2. PICK j \in 1..l : y \in {j} \X (1..c[j].stars)
    BY <1>5
  <2>3. x = <<i, x[2]>> /\ y = <<j, y[2]>> /\ x[1] = i /\ y[1] = j
    BY <2>1, <2>2
  <2>4. i # j \/ x[2] # y[2]
    BY <1>8, <2>3
  <2>5. g[x] = <<b[i], x[2]>> /\ g[y] = <<b[j], y[2]>>
    BY <2>3
  <2> QED
    BY <1>4, <2>4, <2>5
<1>9. {g[x] : x \in S} = StarsAt(rows, picked)
  <2>1. ASSUME NEW x \in S PROVE g[x] \in StarsAt(rows, picked)
    <3>1. PICK i \in 1..l : x \in {i} \X (1..c[i].stars)
      BY <1>5
    <3>2. g[x] = <<b[i], x[2]>> /\ x[2] \in 1..rows[b[i]].stars /\ b[i] \in picked
      BY <1>4, <3>1
    <3>3. g[x] \in {b[i]} \X (1..rows[b[i]].stars)
      BY <3>2
    <3> QED
      BY <1>6, <3>2, <3>3
  <2>2. ASSUME NEW y \in StarsAt(rows, picked) PROVE \E x \in S : y = g[x]
    <3>1. PICK p \in picked : y \in {p} \X (1..rows[p].stars)
      BY <1>6
    <3>2. PICK i \in 1..l : b[i] = p
      BY <1>4
    <3>3. y[2] \in 1..c[i].stars /\ y = <<p, y[2]>>
      BY <1>4, <3>1, <3>2
    <3>4. <<i, y[2]>> \in {i} \X (1..c[i].stars)
      BY <3>3
    <3>5. <<i, y[2]>> \in S
      BY <1>5, <3>4
    <3>6. g[<<i, y[2]>>] = y
      BY <3>2, <3>3, <3>5
    <3> QED
      BY <3>5, <3>6
  <2> HIDE DEF g
  <2> QED
    BY <2>1, <2>2
<1> HIDE DEF g
<1>10. /\ IsFiniteSet({g[x] : x \in S})
       /\ Cardinality({g[x] : x \in S}) = Cardinality(S)
  BY <1>7, <1>8, InjectiveImage
<1> QED
  BY <1>7, <1>9, <1>10 DEF c

(* The bots share the stars among them.                                    *)
LEMMA StarsAddUp ==
  ASSUME NEW events \in Seq(EventRows), NEW gens \in Seq(GenerationRows),
         NEW trans \in Seq(TransactionRows)
  PROVE  SumFunction([b \in BotsOf(events, gens, trans) |-> b.stars]) = Stars(trans)
<1> DEFINE bots == BotsOf(events, gens, trans)
           n == Len(trans)
           f == [b \in bots |-> b.stars]
           C == [x \in bots |-> StarsAt(trans, BotAt(trans, x.bot_id))]
<1>1. IsFiniteSet(bots) /\ DifferentIds(bots)
  BY BotRows
<1>2. AllKnown(bots, 1..n, trans)
  <2>1. \A i \in 1..n : trans[i].bot \in Bots(events, gens, trans)
    BY BotsKnown
  <2>2. \A b \in Bots(events, gens, trans) : \E x \in bots : x.bot_id = b
    BY BotRows
  <2> HIDE DEF bots
  <2> QED
    BY <2>1, <2>2 DEF AllKnown
<1>3. ASSUME NEW x \in bots PROVE IsFiniteSet(C[x]) /\ f[x] = Cardinality(C[x])
  <2>1. f[x] = Stars(OfBot(trans, x.bot_id))
    BY BotRows
  <2>2. /\ OfBot(trans, x.bot_id) = Only(trans, BotAt(trans, x.bot_id))
        /\ BotAt(trans, x.bot_id) \subseteq 1..n
    BY OfBotRows
  <2>3. /\ IsFiniteSet(StarsAt(trans, BotAt(trans, x.bot_id)))
        /\ Stars(Only(trans, BotAt(trans, x.bot_id))) =
             Cardinality(StarsAt(trans, BotAt(trans, x.bot_id)))
    BY <2>2, StarsKept
  <2> QED
    BY <2>1, <2>2, <2>3
<1> HIDE DEF bots
<1>4. Counts(f, C, bots)
  <2> HIDE DEF C
  <2> QED
    BY <1>3 DEF Counts
<1>5. \A x \in bots : \A s : s \in C[x] <=> \E i \in 1..n : /\ trans[i].bot = x.bot_id
                                                           /\ s \in {i} \X (1..trans[i].stars)
  BY DEF StarsAt, Whole, StarsOfRow, BotAt
<1>6. \A s : s \in StarsAt(trans, 1..n) <=> \E i \in 1..n : s \in {i} \X (1..trans[i].stars)
  BY DEF StarsAt, Whole, StarsOfRow
<1> HIDE DEF C, n
<1>7. Disjoint(C, bots)
  <2>1. ASSUME NEW x \in bots, NEW y \in bots, x # y, NEW s, s \in C[x], s \in C[y]
        PROVE  FALSE
    <3>1. PICK i \in 1..n : trans[i].bot = x.bot_id /\ s \in {i} \X (1..trans[i].stars)
      BY <1>5, <2>1
    <3>2. PICK j \in 1..n : trans[j].bot = y.bot_id /\ s \in {j} \X (1..trans[j].stars)
      BY <1>5, <2>1
    <3>3. i = j
      BY <3>1, <3>2
    <3> QED
      BY <1>1, <2>1, <3>1, <3>2, <3>3 DEF DifferentIds
  <2> QED
    BY <2>1 DEF Disjoint
<1>8. Whole(C, bots) = StarsAt(trans, 1..n)
  <2>1. ASSUME NEW s, s \in StarsAt(trans, 1..n) PROVE \E x \in bots : s \in C[x]
    <3>1. PICK i \in 1..n : s \in {i} \X (1..trans[i].stars)
      BY <1>6, <2>1
    <3>2. PICK x \in bots : x.bot_id = trans[i].bot
      BY <1>2 DEF AllKnown
    <3> QED
      BY <1>5, <3>1, <3>2
  <2>2. ASSUME NEW x \in bots, NEW s, s \in C[x] PROVE s \in StarsAt(trans, 1..n)
    BY <1>5, <1>6, <2>2
  <2> QED
    BY <2>1, <2>2 DEF Whole
<1>9. SumFunction(f) = Cardinality(Whole(C, bots))
  <2> HIDE DEF f
  <2> QED
    BY <1>1, <1>4, <1>7, SumOfParts
<1>10. Stars(trans) = Cardinality(StarsAt(trans, 1..n))
  BY StarsCounted DEF n
<1> QED
  BY <1>8, <1>9, <1>10 DEF bots

(* The users of rows.                                                      *)
UsersIn(rows) == {r.user : r \in ToSet(rows)}

(* The user of a row is a user of its bot.                                 *)
LEMMA UsersKept ==
  ASSUME NEW R, NEW rows \in Seq(R), NEW i \in 1..Len(rows), NEW b, b = rows[i].bot
  PROVE  rows[i].user \in UsersIn(OfBot(rows, b))
<1>1. ToSet(OfBot(rows, b)) = {rows[k] : k \in BotAt(rows, b)}
  <2> DEFINE p == BotAt(rows, b)
  <2>1. OfBot(rows, b) = Only(rows, p) /\ p \subseteq 1..Len(rows)
    BY OfBotRows
  <2> HIDE DEF p
  <2>2. ToSet(Only(rows, p)) = {rows[k] : k \in p}
    BY <2>1, OnlyWhich
  <2> QED
    BY <2>1, <2>2 DEF p
<1>2. i \in BotAt(rows, b)
  BY DEF BotAt
<1> QED
  BY <1>1, <1>2 DEF UsersIn

(* Every known user is a user of some bot; a user of two bots is counted   *)
(* by both.                                                                *)
LEMMA UsersBounded ==
  ASSUME NEW events \in Seq(EventRows), NEW gens \in Seq(GenerationRows),
         NEW trans \in Seq(TransactionRows)
  PROVE  Cardinality(Users(events, gens)) <=
           SumFunction([b \in BotsOf(events, gens, trans) |-> b.users])
<1> DEFINE bots == BotsOf(events, gens, trans)
           f == [b \in bots |-> b.users]
           n == Len(events)
           m == Len(gens)
           C == [x \in bots |-> Users(OfBot(events, x.bot_id), OfBot(gens, x.bot_id))]
<1>1. IsFiniteSet(bots)
  BY BotRows
<1>2. /\ AllKnown(bots, 1..n, events)
      /\ AllKnown(bots, 1..m, gens)
  <2>1. /\ \A i \in 1..n : events[i].bot \in Bots(events, gens, trans)
        /\ \A i \in 1..m : gens[i].bot \in Bots(events, gens, trans)
    BY BotsKnown
  <2>2. \A b \in Bots(events, gens, trans) : \E x \in bots : x.bot_id = b
    BY BotRows
  <2> HIDE DEF bots
  <2> QED
    BY <2>1, <2>2 DEF AllKnown
<1>3. \A x \in bots : f[x] = Cardinality(C[x])
  BY BotRows
<1> HIDE DEF bots
<1>4. ASSUME NEW es \in Seq(EventRows), NEW gs \in Seq(GenerationRows)
      PROVE  IsFiniteSet(Users(es, gs))
  <2> DEFINE E == ToSet(es)
             G == ToSet(gs)
             eu == [e \in E |-> e.user]
             gu == [g \in G |-> g.user]
             X == {e.user : e \in E}
             Y == {g.user : g \in G}
  <2>1. IsFiniteSet(E) /\ IsFiniteSet(G)
    BY FiniteRows
  <2> HIDE DEF E, G
  <2>2. /\ (\A x \in X : \E e \in E : eu[e] = x) /\ (\A e \in E : eu[e] \in X)
        /\ (\A y \in Y : \E g \in G : gu[g] = y) /\ (\A g \in G : gu[g] \in Y)
    OBVIOUS
  <2> HIDE DEF eu, gu, X, Y
  <2>3. IsFiniteSet(X)
    BY <2>1, <2>2, FiniteImage
  <2>4. IsFiniteSet(Y)
    BY <2>1, <2>2, FiniteImage
  <2>5. IsFiniteSet(X \cup Y)
    BY <2>3, <2>4, FS_Union
  <2>6. Users(es, gs) \subseteq X \cup Y
    BY DEF Users, X, Y, E, G
  <2> QED
    BY <2>5, <2>6, FS_Subset
<1>5. \A x \in bots : IsFiniteSet(C[x])
  BY <1>4, OfBotRows
<1>6. Counts(f, C, bots)
  <2> HIDE DEF C
  <2> QED
    BY <1>3, <1>5 DEF Counts
<1>7. Users(events, gens) \subseteq Whole(C, bots)
  <2>1. ASSUME NEW u, u \in Users(events, gens) PROVE \E x \in bots : u \in C[x]
    <3>1. /\ ToSet(events) = {events[i] : i \in 1..n}
          /\ ToSet(gens) = {gens[i] : i \in 1..m}
      BY LenProperties DEF ToSet
    <3>2. /\ u # 0
          /\ \/ \E i \in 1..n : u = events[i].user
             \/ \E i \in 1..m : u = gens[i].user
      BY <2>1, <3>1 DEF Users
    <3>3. CASE \E i \in 1..n : u = events[i].user
      <4>1. PICK i \in 1..n : u = events[i].user
        BY <3>3
      <4>2. PICK x \in bots : x.bot_id = events[i].bot
        BY <1>2 DEF AllKnown
      <4>3. u \in UsersIn(OfBot(events, x.bot_id))
        BY <4>1, <4>2, UsersKept
      <4> QED
        BY <3>2, <4>3 DEF Users, UsersIn
    <3>4. CASE \E i \in 1..m : u = gens[i].user
      <4>1. PICK i \in 1..m : u = gens[i].user
        BY <3>4
      <4>2. PICK x \in bots : x.bot_id = gens[i].bot
        BY <1>2 DEF AllKnown
      <4>3. u \in UsersIn(OfBot(gens, x.bot_id))
        BY <4>1, <4>2, UsersKept
      <4> QED
        BY <3>2, <4>3 DEF Users, UsersIn
    <3> QED
      BY <3>2, <3>3, <3>4
  <2> HIDE DEF C
  <2> QED
    BY <2>1 DEF Whole
<1> HIDE DEF f, C
<1>8. /\ IsFiniteSet(Whole(C, bots)) /\ SumFunction(f) \in Nat
      /\ Cardinality(Whole(C, bots)) <= SumFunction(f)
  BY <1>1, <1>6, SumOfParts
<1>9. /\ Cardinality(Users(events, gens)) <= Cardinality(Whole(C, bots))
      /\ Cardinality(Users(events, gens)) \in Nat /\ Cardinality(Whole(C, bots)) \in Nat
  BY <1>7, <1>8, FS_Subset, FS_CardinalityType
<1> QED
  BY <1>8, <1>9 DEF f, bots

-----------------------------------------------------------------------------
(* Whatever the three tables hold, the pages of a report agree: what is    *)
(* shown of a table that is not cut sums up to the total beside it, models *)
(* and bots share the generations, events, clicks and stars among them,    *)
(* and the rate is a percentage (_compute_metrics_summary,                 *)
(* supabase_client.py).                                                    *)
THEOREM PagesOfSummary ==
  ASSUME NEW events \in Seq(EventRows), NEW gens \in Seq(GenerationRows),
         NEW trans \in Seq(TransactionRows)
  PROVE  PagesAgree(Summary(events, gens, trans))
<1> DEFINE s == Summary(events, gens, trans)
           bots == BotsOf(events, gens, trans)
           models == ModelsBreakdown(gens)
<1>1. /\ s.total_users = Cardinality(Users(events, gens))
      /\ s.total_events = Len(events)
      /\ s.total_commands = Len(Commands(events))
      /\ s.total_button_clicks = Len(Clicks(events))
      /\ s.total_generations = Len(gens)
      /\ s.successful_generations = Len(OfStatus(gens, "success"))
      /\ s.failed_generations = Len(OfStatus(gens, "failed"))
      /\ s.total_messages_sent = Len(Messages(events))
      /\ s.total_errors = Len(Errors(events))
      /\ s.total_stars_earned = Stars(trans)
  BY DEF Summary
<1>2. /\ s.top_buttons = TopButtons(events)
      /\ s.top_commands = TopCommands(events)
      /\ s.messages_breakdown = MessagesBreakdown(events)
      /\ s.errors_breakdown = ErrorsBreakdown(events)
      /\ s.models_breakdown = models
      /\ s.bots_breakdown = bots
  BY DEF Summary, BotsOf
<1> HIDE DEF s, bots, models
<1>3. /\ AddsUp(ButtonsPage(s)) /\ AddsUp(CommandsPage(s))
      /\ AddsUp(MessagesPage(s)) /\ AddsUp(ErrorsPage(s))
  BY <1>1, <1>2, EventPagesAddUp DEF ButtonsPage, CommandsPage, MessagesPage, ErrorsPage
<1>4. /\ GenerationsPage(s).rows = models
      /\ GenerationsPage(s).total = Len(gens)
      /\ BotsPage(s).rows = bots
      /\ ButtonsPage(s).total = Len(Clicks(events))
  BY <1>1, <1>2 DEF GenerationsPage, BotsPage, ButtonsPage, Page
<1>5. /\ Overview(s).users = Cardinality(Users(events, gens))
      /\ Overview(s).events = Len(events)
      /\ Overview(s).succeeded = Len(OfStatus(gens, "success"))
      /\ Overview(s).stars = Stars(trans)
  BY <1>1 DEF Overview
<1>7. /\ SumFunction([i \in DOMAIN models |-> models[i].count]) = Len(gens)
      /\ SumFunction([i \in DOMAIN models |-> models[i].success]) =
           Len(OfStatus(gens, "success"))
      /\ SumFunction([i \in DOMAIN models |-> models[i].failed]) =
           Len(OfStatus(gens, "failed"))
  BY ModelsAddUp DEF models
<1>8. /\ SumFunction([b \in bots |-> b.events]) = Len(events)
      /\ SumFunction([b \in bots |-> b.clicks]) = Len(Clicks(events))
      /\ SumFunction([b \in bots |-> b.stars]) = Stars(trans)
      /\ Cardinality(Users(events, gens)) <= SumFunction([b \in bots |-> b.users])
  BY BotsAddUp, StarsAddUp, UsersBounded DEF bots
<1>9. PagesAgree(s)
  BY <1>1, <1>3, <1>4, <1>5, <1>7, <1>8, Zenon DEF PagesAgree
<1> QED
  BY <1>9 DEF s

(* Whatever was stored, the table of buttons has each clicked name once,   *)
(* the most clicked first, with its clicks and its known users             *)
(* (supabase_client.py:796-820, sorted by count in reverse).               *)
THEOREM ButtonsCounted ==
  ASSUME NEW events \in Seq(EventRows)
  PROVE  CountsClicks(TopButtons(events), events)
<1> DEFINE table == TopButtons(events)
           c == Clicks(events)
           items == [i \in DOMAIN c |-> ButtonItem(c[i])]
           name(e) == Named(e, "unknown_button")
           n == Len(events)
           m == Len(table)
           l == Len(c)
           at == {i \in 1..n : events[i].type = "click"}
           clicks(x) == {i \in DOMAIN events : events[i].type = "click" /\ name(events[i]) = x}
<1>1. DOMAIN events = 1..n /\ \A i \in 1..n : events[i] \in EventRows
  BY LenProperties, ElementOfSeq
<1>2. c = Only(events, at) /\ c \in Seq(EventRows) /\ at \subseteq 1..n
  BY ClicksOf
<1>3. RankedItems(table, items, c)
  BY <1>2, EventPages DEF TopButtons
<1> HIDE DEF table, c
<1>4. DOMAIN c = 1..l /\ \A k \in 1..l : c[k] \in EventRows
  BY <1>2, LenProperties, ElementOfSeq
<1>5. /\ RankOf(table, items) /\ Len(items) = l
  BY <1>3 DEF RankedItems
<1>6. \A k \in 1..l : items[k].name = name(c[k]) /\ items[k].user = c[k].user
  BY <1>4 DEF ButtonItem, Item
<1> HIDE DEF items
<1>7. DOMAIN table = 1..m
  BY <1>5, LenProperties DEF RankOf
<1>8. ToSet(c) = {events[i] : i \in at}
  BY <1>2, OnlyWhich
<1>9. ToSet(c) = {c[k] : k \in 1..l}
  BY <1>4 DEF ToSet
<1>10. {e \in ToSet(events) : e.type = "click"} = ToSet(c)
  <2>1. ToSet(events) = {events[i] : i \in 1..n}
    BY <1>1 DEF ToSet
  <2> QED
    BY <1>8, <2>1
<1>11. \A i \in 1..m : At(items, l, table[i].name) = {k \in 1..l : name(c[k]) = table[i].name}
  BY <1>6 DEF At
<1>12. {table[i].name : i \in DOMAIN table} =
         {name(e) : e \in {x \in ToSet(events) : x.type = "click"}}
  <2>1. ASSUME NEW i \in 1..m PROVE \E e \in ToSet(c) : table[i].name = name(e)
    <3>1. PICK k \in 1..l : items[k].name = table[i].name
      BY <1>5 DEF RankOf
    <3> QED
      BY <1>6, <1>9, <3>1
  <2>2. ASSUME NEW e \in ToSet(c) PROVE \E i \in 1..m : name(e) = table[i].name
    <3>1. PICK k \in 1..l : e = c[k]
      BY <1>9
    <3>2. PICK i \in 1..m : items[k].name = table[i].name
      BY <1>5 DEF RankOf
    <3> QED
      BY <1>6, <3>1, <3>2
  <2> HIDE DEF name
  <2>3. {table[i].name : i \in 1..m} = {name(e) : e \in ToSet(c)}
    BY <2>1, <2>2
  <2> QED
    BY <1>7, <1>10, <2>3
<1>13. \A i, j \in DOMAIN table : i < j => /\ table[i].name # table[j].name
                                           /\ table[i].count >= table[j].count
  <2>1. m \in Nat
    BY <1>5, LenProperties DEF RankOf
  <2>2. \A i, j \in 1..m : i # j => table[i].name # table[j].name
    BY <1>5 DEF RankOf
  <2>3. \A i, j \in 1..m : i < j => table[i].count >= table[j].count
    BY <1>5 DEF RankOf
  <2> HIDE DEF m
  <2> QED
    BY <1>7, <2>1, <2>2, <2>3
<1>14. ASSUME NEW i \in DOMAIN table
       PROVE  /\ table[i].count = Cardinality(clicks(table[i].name))
              /\ table[i].users = {events[k].user : k \in clicks(table[i].name)} \ {0}
  <2> DEFINE x == table[i].name
             Q == {e \in EventRows : name(e) = x}
             K == {k \in 1..l : name(c[k]) = x}
  <2>1. /\ i \in 1..m
        /\ table[i].count = Cardinality(K)
        /\ table[i].users = {items[k].user : k \in K} \ {0}
    <3>1. i \in 1..m
      BY <1>7
    <3>2. At(items, l, x) = K
      BY <1>11, <3>1
    <3>3. /\ table[i].count = Cardinality(At(items, l, x))
          /\ table[i].users = {items[k].user : k \in At(items, l, x)} \ {0}
      BY <1>5, <3>1 DEF RankOf
    <3> QED
      BY <3>1, <3>2, <3>3
  <2>2. KeptWhich(c, events, at, Q)
    BY <1>2, OnlyWhich
  <2>3. {k \in 1..l : c[k] \in Q} = K
    BY <1>4
  <2>4. {k \in at : events[k] \in Q} = clicks(x)
    BY <1>1
  <2>5. Cardinality(K) = Cardinality(clicks(x))
    <3> HIDE DEF K, clicks, Q, at, x
    <3> QED
      BY <2>2, <2>3, <2>4 DEF KeptWhich
  <2>6. {items[k].user : k \in K} = {events[k].user : k \in clicks(x)}
    <3>1. ASSUME NEW k \in K PROVE \E p \in clicks(x) : items[k].user = events[p].user
      <4>1. PICK p \in at : c[k] = events[p]
        BY <1>8, <1>9
      <4>2. p \in clicks(x)
        BY <1>1, <4>1
      <4> QED
        BY <1>6, <4>1, <4>2
    <3>2. ASSUME NEW p \in clicks(x) PROVE \E k \in K : events[p].user = items[k].user
      <4>1. p \in at
        BY <1>1
      <4>2. PICK k \in 1..l : events[p] = c[k]
        BY <1>8, <1>9, <4>1
      <4>3. k \in K
        BY <4>2
      <4> QED
        BY <1>6, <4>2, <4>3
    <3> HIDE DEF K, clicks, x
    <3> QED
      BY <3>1, <3>2
  <2> QED
    BY <2>1, <2>5, <2>6
<1>15. CountsClicks(table, events)
  BY <1>12, <1>13, <1>14 DEF CountsClicks
<1> QED
  BY <1>15 DEF table
=============================================================================
