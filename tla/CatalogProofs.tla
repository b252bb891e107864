----------------------------- MODULE CatalogProofs -----------------------------
(***************************************************************************)
(* What Build computes, for a catalog list of any length: it is the        *)
(* iteration of TakeEntry that its definition says, every model it lists   *)
(* is one that the configuration routes, under the configuration's public  *)
(* id, and the snapshot is empty exactly when the configuration routes     *)
(* none of the ids of the list.                                            *)
(***************************************************************************)
EXTENDS Catalog, TLAPS, WellFoundedInduction

-----------------------------------------------------------------------------
(* Induction, with a set for a predicate.  The induction theorems of the   *)
(* library take the predicate as an operator, for which the provers find   *)
(* no instance; a set is a value they can be given, and the least-element  *)
(* principle of a well-founded relation takes one as well.                 *)

\* What holds of 0 and of the successor of what it holds of holds up to any bound.
LEMMA IntervalInduction ==
  ASSUME NEW N \in Nat, NEW T, 0 \in T,
         \A n \in 0..N : n \in T /\ n < N => n + 1 \in T
  PROVE  \A n \in 0..N : n \in T
<1> SUFFICES ASSUME NEW k \in 0..N, k \notin T PROVE FALSE
  OBVIOUS
<1> DEFINE M == {n \in 0..N : n \notin T}
           R == {ss \in Nat \X Nat : ss[1] < ss[2]}
<1>1. M \subseteq Nat /\ M # {} /\ IsWellFoundedOn(R, Nat)
  BY NatLessThanWellFounded DEF OpToRel
<1>2. PICK x \in M : \A y \in M : ~(<<y, x>> \in R)
  <2> HIDE DEF M, R
  <2>1. QED
    BY <1>1, WFMin
<1>3. x \in 0..N /\ x \notin T /\ x # 0
  OBVIOUS
<1>4. x - 1 \in 0..N /\ x - 1 < N /\ <<x - 1, x>> \in R
  BY <1>3
<1>5. x - 1 \in T
  BY <1>2, <1>4
<1>6. (x - 1) + 1 \in T
  BY <1>4, <1>5
<1>7. QED
  BY <1>3, <1>6

-----------------------------------------------------------------------------
(* What a snapshot is.                                                     *)

\* The entries of an upstream list.
Entries == Seq(Ids \cup {NoId})

IsSnapshot(s) == DOMAIN s = {"seen", "models", "index", "unsup", "warns"}

\* The configuration gives the id a protocol that is on, at the upstream.
Routed(c, id) == Resolve(c, id).route \in c.enabled /\ ~Resolve(c, id).escapes

RecordOf(c, id) == [public |-> PublicID(c, id), upstream |-> id, route |-> Resolve(c, id).route]

-----------------------------------------------------------------------------
(* Build is an iteration.                                                  *)

\* Between the empty snapshot and Build there is one snapshot per entry.
Steps(c, list, f, n) ==
  /\ DOMAIN f = 0..n
  /\ f[0] = EmptySnapshot
  /\ \A k \in 1..n : f[k] = TakeEntry(c, f[k - 1], list[k])

LEMMA StepsExist ==
  ASSUME NEW c, NEW list, NEW N \in Nat
  PROVE  \E f : Steps(c, list, f, N)
<1> DEFINE T == {n \in 0..N : \E f : Steps(c, list, f, n)}
<1>1. 0 \in T
  <2>1. Steps(c, list, [k \in 0..0 |-> EmptySnapshot], 0)
    BY DEF Steps
  <2>2. QED
    BY <2>1
<1>2. ASSUME NEW n \in 0..N, n \in T, n < N
      PROVE  n + 1 \in T
  <2>1. PICK f : Steps(c, list, f, n)
    BY <1>2
  <2> DEFINE g == [k \in 0..(n + 1) |-> IF k = n + 1 THEN TakeEntry(c, f[n], list[n + 1])
                                        ELSE f[k]]
  <2>2. n \in Nat
    OBVIOUS
  <2>3. DOMAIN g = 0..(n + 1) /\ g[0] = EmptySnapshot
    BY <2>1, <2>2 DEF Steps
  <2>4. ASSUME NEW k \in 1..(n + 1)
        PROVE  g[k] = TakeEntry(c, g[k - 1], list[k])
    <3>1. k - 1 \in 0..n /\ g[k - 1] = f[k - 1]
      BY <2>2
    <3>2. CASE k = n + 1
      BY <2>2, <3>1, <3>2
    <3>3. CASE k # n + 1
      <4>1. k \in 1..n /\ g[k] = f[k]
        BY <2>2, <3>3
      <4>2. QED
        BY <2>1, <3>1, <4>1 DEF Steps
    <3>4. QED
      BY <3>2, <3>3
  <2> HIDE DEF g
  <2>5. Steps(c, list, g, n + 1)
    BY <2>3, <2>4 DEF Steps
  <2>6. n + 1 \in 0..N
    BY <1>2, <2>2
  <2>7. QED
    BY <2>5, <2>6
<1> HIDE DEF T
<1>3. N \in T
  BY <1>1, <1>2, IntervalInduction
<1>4. QED
  BY <1>3 DEF T

\* The function that Build chooses is such an iteration.
LEMMA BuildIsIteration ==
  ASSUME NEW c, NEW list, Len(list) \in Nat
  PROVE  \E f : Steps(c, list, f, Len(list)) /\ Build(c, list) = f[Len(list)]
<1> DEFINE L == Len(list)
           Fixed(f) == f = [n \in 0..L |-> IF n = 0 THEN EmptySnapshot
                                          ELSE TakeEntry(c, f[n - 1], list[n])]
           g == CHOOSE f : Fixed(f)
<1>1. Build(c, list) = g[L]
  BY DEF Build
<1>2. PICK f : Steps(c, list, f, L)
  BY StepsExist
<1>4. Fixed([n \in 0..L |-> f[n]])
  <2> DEFINE h == [n \in 0..L |-> f[n]]
  <2>1. ASSUME NEW n \in 0..L
        PROVE  h[n] = IF n = 0 THEN EmptySnapshot ELSE TakeEntry(c, h[n - 1], list[n])
    <3>1. CASE n = 0
      BY <1>2, <3>1 DEF Steps
    <3>2. CASE n # 0
      <4>1. n \in 1..L /\ n - 1 \in 0..L
        BY <3>2
      <4>2. QED
        BY <1>2, <3>2, <4>1 DEF Steps
    <3>3. QED
      BY <3>1, <3>2
  <2>2. QED
    BY <2>1
<1>5. Fixed(g)
  BY <1>4
<1> HIDE DEF g
<1>6. Steps(c, list, g, L)
  <2>1. DOMAIN g = 0..L
    BY <1>5
  <2>2. \A n \in 0..L : g[n] = IF n = 0 THEN EmptySnapshot ELSE TakeEntry(c, g[n - 1], list[n])
    BY <1>5
  <2>3. QED
    BY <2>1, <2>2 DEF Steps
<1>7. QED
  BY <1>1, <1>6

SameStart(list, longer, n) == \A k \in 1..n : longer[k] = list[k]

\* The first entries of a list are treated the same whatever follows them.
LEMMA StepsAgree ==
  ASSUME NEW c, NEW list, NEW longer, NEW f, NEW g, NEW N \in Nat, NEW M \in Nat, N <= M,
         Steps(c, list, f, N), Steps(c, longer, g, M),
         SameStart(list, longer, N)
  PROVE  f[N] = g[N]
<1> DEFINE T == {n \in 0..N : f[n] = g[n]}
<1>1. 0 \in T
  BY DEF Steps
<1>2. ASSUME NEW n \in 0..N, n \in T, n < N
      PROVE  n + 1 \in T
  <2>1. n \in Nat /\ n + 1 \in 1..N /\ n + 1 \in 1..M /\ (n + 1) - 1 = n
    BY <1>2
  <2>2. f[n + 1] = TakeEntry(c, f[n], list[n + 1])
    BY <2>1 DEF Steps
  <2>3. g[n + 1] = TakeEntry(c, g[n], longer[n + 1])
    BY <2>1 DEF Steps
  <2>4. QED
    BY <1>2, <2>1, <2>2, <2>3 DEF SameStart
<1> HIDE DEF T
<1>3. N \in T
  BY <1>1, <1>2, IntervalInduction
<1>4. QED
  BY <1>3 DEF T

\* Build starts empty, and one more entry is one more round.
LEMMA BuildOfNothing ==
  ASSUME NEW c
  PROVE  Build(c, <<>>) = EmptySnapshot
<1>1. \E f : Steps(c, <<>>, f, 0) /\ Build(c, <<>>) = f[0]
  BY BuildIsIteration
<1>2. QED
  BY <1>1 DEF Steps

LEMMA BuildOfMore ==
  ASSUME NEW c, NEW S, NEW list \in Seq(S), NEW id \in S
  PROVE  Build(c, Append(list, id)) = TakeEntry(c, Build(c, list), id)
<1> DEFINE longer == Append(list, id)
           N == Len(list)
<1>1. /\ N \in Nat /\ Len(longer) = N + 1 /\ longer[N + 1] = id
      /\ \A k \in 1..N : longer[k] = list[k]
  OBVIOUS
<1>2. PICK f : Steps(c, list, f, N) /\ Build(c, list) = f[N]
  BY <1>1, BuildIsIteration
<1> HIDE DEF longer, N
<1>3. PICK g : Steps(c, longer, g, N + 1) /\ Build(c, longer) = g[N + 1]
  <2>1. PICK g : Steps(c, longer, g, Len(longer)) /\ Build(c, longer) = g[Len(longer)]
    BY <1>1, BuildIsIteration
  <2>2. QED
    BY <1>1, <2>1
<1>4. f[N] = g[N]
  <2>1. PICK M \in Nat : M = N + 1
    BY <1>1
  <2>2. N <= M /\ Steps(c, longer, g, M) /\ SameStart(list, longer, N)
    BY <1>1, <1>3, <2>1 DEF SameStart
  <2>3. QED
    BY <1>1, <1>2, <2>2, StepsAgree
<1>5. g[N + 1] = TakeEntry(c, g[N], id)
  BY <1>1, <1>3 DEF Steps
<1>6. QED
  BY <1>2, <1>3, <1>4, <1>5 DEF longer, N

-----------------------------------------------------------------------------
(* One round.                                                              *)

\* Nothing of the entry is kept but its diagnostics, or its record is appended and
\* indexed.
Passes(s, t) == t.models = s.models /\ t.index = s.index
Appends(c, s, t, id) ==
  /\ Routed(c, id)
  /\ t.models = Append(s.models, RecordOf(c, id))
  /\ id \in DOMAIN t.index

\* The first routed entry finds the index empty.
Fresh(c, s, id) == id \notin s.seen /\ Routed(c, id) /\ DOMAIN s.index = {}

LEMMA NoIdNotInIds == NoId \notin Ids
BY CatalogAssumption DEF CatalogAssumption

\* A diagnostic changes nothing else.
LEMMA DiagnosticsOnly ==
  ASSUME NEW s, IsSnapshot(s), NEW id, NEW reason
  PROVE  /\ IsSnapshot(Warned(s, id, reason)) /\ IsSnapshot(Excluded(s, id, reason))
         /\ Warned(s, id, reason).models = s.models /\ Excluded(s, id, reason).models = s.models
         /\ Warned(s, id, reason).index = s.index /\ Excluded(s, id, reason).index = s.index
         /\ Warned(s, id, reason).seen = s.seen /\ Excluded(s, id, reason).seen = s.seen
BY DEF IsSnapshot, Warned, Excluded

LEMMA AddRecordOutcome ==
  ASSUME NEW c, NEW s, IsSnapshot(s), NEW rec, NEW t, t = AddRecord(c, s, rec)
  PROVE  /\ IsSnapshot(t) /\ t.seen = s.seen
         /\ \/ Passes(s, t) /\ DOMAIN s.index # {}
            \/ t.models = Append(s.models, rec) /\ rec.upstream \in DOMAIN t.index
<1>1. ASSUME NEW public, NEW upstream, t = Collides(s, rec.upstream, public, upstream)
      PROVE  IsSnapshot(t) /\ t.seen = s.seen /\ Passes(s, t)
  <2> DEFINE reason == <<"collision", public, upstream>>
             w == Warned(s, rec.upstream, reason)
  <2>1. t = Excluded(w, rec.upstream, reason)
    BY <1>1 DEF Collides
  <2> HIDE DEF reason
  <2>2. IsSnapshot(w) /\ w.models = s.models /\ w.index = s.index /\ w.seen = s.seen
    BY DiagnosticsOnly
  <2> HIDE DEF w
  <2>3. QED
    BY <2>1, <2>2, DiagnosticsOnly DEF Passes
<1>2. CASE rec.public \in DOMAIN s.index
  <2>1. t = Collides(s, rec.upstream, rec.public, s.index[rec.public].upstream)
    BY <1>2 DEF AddRecord
  <2>2. QED
    BY <1>1, <1>2, <2>1
<1>3. CASE rec.public \notin DOMAIN s.index /\ rec.upstream \in DOMAIN s.index
  <2>1. t = Collides(s, rec.upstream, s.index[rec.upstream].public, rec.upstream)
    BY <1>3 DEF AddRecord
  <2>2. QED
    BY <1>1, <1>3, <2>1
<1>4. CASE rec.public \notin DOMAIN s.index /\ rec.upstream \notin DOMAIN s.index
  <2> DEFINE index == [k \in DOMAIN s.index \cup {rec.public, rec.upstream} |->
                         IF k \in {rec.public, rec.upstream} THEN rec ELSE s.index[k]]
  <2>1. t = [s EXCEPT !.models = Append(s.models, rec), !.index = index]
    BY <1>4 DEF AddRecord
  <2>2. rec.upstream \in DOMAIN index
    OBVIOUS
  <2> HIDE DEF index
  <2>3. IsSnapshot(t) /\ t.seen = s.seen /\ t.index = index
        /\ t.models = Append(s.models, rec)
    BY <2>1 DEF IsSnapshot
  <2>4. QED
    BY <2>2, <2>3
<1>5. QED
  BY <1>2, <1>3, <1>4

LEMMA ConsiderParts ==
  ASSUME NEW c \in Configs, NEW s, IsSnapshot(s), NEW id \in Ids,
         NEW t, t = Consider(c, s, id)
  PROVE  /\ IsSnapshot(t) /\ t.seen = s.seen
         /\ Passes(s, t) \/ Appends(c, s, t, id)
         /\ Routed(c, id) /\ DOMAIN s.index = {} => Appends(c, s, t, id)
<1> DEFINE w == IF id \in DOMAIN c.overrides THEN Warned(s, id, <<"override">>) ELSE s
<1>1. IsSnapshot(w) /\ w.models = s.models /\ w.index = s.index /\ w.seen = s.seen
  BY DiagnosticsOnly
<1>2. NoRoute \notin c.enabled
  BY CatalogAssumption DEF CatalogAssumption
<1>3. t = CASE Resolve(c, id).route = NoRoute -> Excluded(w, id, <<"no route">>)
            [] Resolve(c, id).route \notin {NoRoute} \cup c.enabled ->
                 Excluded(w, id, <<"disabled">>)
            [] Resolve(c, id).route \in c.enabled /\ Resolve(c, id).escapes ->
                 Excluded(w, id, <<"escapes">>)
            [] OTHER -> AddRecord(c, w, RecordOf(c, id))
  BY DEF Consider, RecordOf
<1> HIDE DEF w
<1>4. ASSUME NEW reason, t = Excluded(w, id, reason)
      PROVE  IsSnapshot(t) /\ t.seen = s.seen /\ Passes(s, t)
  BY <1>1, <1>4, DiagnosticsOnly DEF Passes
<1>5. CASE ~Routed(c, id)
  <2>1. \/ t = Excluded(w, id, <<"no route">>)
        \/ t = Excluded(w, id, <<"disabled">>)
        \/ t = Excluded(w, id, <<"escapes">>)
    BY <1>2, <1>3, <1>5 DEF Routed
  <2>2. QED
    BY <1>4, <1>5, <2>1
<1>6. CASE Routed(c, id)
  <2>1. t = AddRecord(c, w, RecordOf(c, id))
    BY <1>2, <1>3, <1>6 DEF Routed
  <2>2. RecordOf(c, id).upstream = id
    BY DEF RecordOf
  <2>3. /\ IsSnapshot(t) /\ t.seen = w.seen
        /\ \/ Passes(w, t) /\ DOMAIN w.index # {}
           \/ t.models = Append(w.models, RecordOf(c, id)) /\ id \in DOMAIN t.index
    BY <1>1, <2>1, <2>2, AddRecordOutcome
  <2>4. QED
    BY <1>1, <1>6, <2>3 DEF Passes, Appends
<1>7. QED
  BY <1>5, <1>6

LEMMA TakeEntryOutcome ==
  ASSUME NEW c \in Configs, NEW s, IsSnapshot(s), NEW id \in Ids \cup {NoId},
         NEW t, t = TakeEntry(c, s, id)
  PROVE  /\ IsSnapshot(t) /\ t.seen = s.seen \cup ({id} \ {NoId})
         /\ Passes(s, t) \/ (id \in Ids /\ Appends(c, s, t, id))
         /\ id \in Ids /\ Fresh(c, s, id) => Appends(c, s, t, id)
<1>1. CASE id = NoId
  <2>1. \E reason : t = Excluded(s, id, reason)
    BY <1>1 DEF TakeEntry
  <2>2. IsSnapshot(t) /\ t.seen = s.seen /\ Passes(s, t)
    BY <2>1, DiagnosticsOnly DEF Passes
  <2>3. id \notin Ids /\ {id} \ {NoId} = {}
    BY <1>1, NoIdNotInIds
  <2>4. QED
    BY <2>2, <2>3
<1>2. CASE id # NoId /\ id \in s.seen
  <2>1. t = Warned(s, id, <<"duplicate">>)
    BY <1>2 DEF TakeEntry
  <2>2. QED
    BY <1>2, <2>1, DiagnosticsOnly DEF Passes, Fresh
<1>3. CASE id # NoId /\ id \notin s.seen
  <2> DEFINE m == [s EXCEPT !.seen = @ \cup {id}]
  <2>1. t = Consider(c, m, id)
    BY <1>3 DEF TakeEntry
  <2>2. /\ IsSnapshot(m) /\ m.seen = s.seen \cup {id}
        /\ m.models = s.models /\ m.index = s.index
    BY DEF IsSnapshot
  <2> HIDE DEF m
  <2>3. id \in Ids
    BY <1>3
  <2>4. /\ IsSnapshot(t) /\ t.seen = m.seen
        /\ Passes(m, t) \/ Appends(c, m, t, id)
        /\ Routed(c, id) /\ DOMAIN m.index = {} => Appends(c, m, t, id)
    BY <2>1, <2>2, <2>3, ConsiderParts
  <2>5. QED
    BY <1>3, <2>2, <2>3, <2>4 DEF Passes, Appends, Fresh
<1>4. QED
  BY <1>1, <1>2, <1>3

-----------------------------------------------------------------------------
(* What holds of Build for every list.                                     *)

LEMMA EmptyIsSnapshot ==
  /\ IsSnapshot(EmptySnapshot)
  /\ EmptySnapshot.models = <<>> /\ EmptySnapshot.seen = {} /\ EmptySnapshot.index = <<>>
BY DEF IsSnapshot, EmptySnapshot

\* Every model is the record of a routed id among those seen.
Sound(c, models, seen) ==
  /\ models \in Seq({RecordOf(c, id) : id \in Ids})
  /\ \A k \in 1..Len(models) : \E id \in seen : Routed(c, id) /\ models[k] = RecordOf(c, id)

\* Nothing was routed so far if there is no model.
NothingYet(c, s) ==
  s.models = <<>> => DOMAIN s.index = {} /\ \A id \in s.seen : ~Routed(c, id)

LEMMA AppendSound ==
  ASSUME NEW c, NEW models, NEW id \in Ids, Routed(c, id),
         NEW seen, Sound(c, models, seen), NEW more, seen \subseteq more, id \in more
  PROVE  /\ Sound(c, Append(models, RecordOf(c, id)), more)
         /\ Append(models, RecordOf(c, id)) # <<>>
<1> DEFINE R == {RecordOf(c, i) : i \in Ids}
           rec == RecordOf(c, id)
           longer == Append(models, rec)
<1>1. rec \in R /\ models \in Seq(R)
  BY DEF Sound
<1> HIDE DEF R, rec
<1>2. /\ longer \in Seq(R) /\ Len(longer) = Len(models) + 1 /\ Len(models) \in Nat
      /\ longer[Len(longer)] = rec
      /\ \A k \in 1..Len(models) : longer[k] = models[k]
  BY <1>1
<1>3. longer # <<>>
  BY <1>2
<1> HIDE DEF longer
<1>4. ASSUME NEW k \in 1..Len(longer)
      PROVE  \E i \in more : Routed(c, i) /\ longer[k] = RecordOf(c, i)
  <2>1. CASE k = Len(longer)
    BY <1>2, <2>1 DEF rec
  <2>2. CASE k # Len(longer)
    <3>1. k \in 1..Len(models)
      BY <1>2, <2>2
    <3>2. QED
      BY <1>2, <3>1 DEF Sound
  <2>3. QED
    BY <2>1, <2>2
<1>5. Sound(c, longer, more)
  BY <1>2, <1>4 DEF Sound, R
<1>6. QED
  BY <1>3, <1>5 DEF longer, rec

\* The state of the loop after n entries.
Loop(c, list, s, n) ==
  /\ IsSnapshot(s) /\ Sound(c, s.models, s.seen) /\ NothingYet(c, s)
  /\ s.seen = {list[k] : k \in 1..n} \ {NoId}

LEMMA LoopStep ==
  ASSUME NEW c \in Configs, NEW list \in Entries, NEW n \in Nat, n + 1 <= Len(list),
         NEW s, Loop(c, list, s, n), NEW t, t = TakeEntry(c, s, list[n + 1])
  PROVE  Loop(c, list, t, n + 1)
<1> DEFINE id == list[n + 1]
<1>1. id \in Ids \cup {NoId}
  BY DEF Entries
<1>2. IsSnapshot(s)
  BY DEF Loop
<1>3. t = TakeEntry(c, s, id)
  OBVIOUS
<1>4. {list[k] : k \in 1..(n + 1)} = {list[k] : k \in 1..n} \cup {id}
  <2>1. 1..(n + 1) = (1..n) \cup {n + 1}
    OBVIOUS
  <2>2. QED
    BY <2>1
<1> HIDE DEF id
<1>5. /\ IsSnapshot(t) /\ t.seen = s.seen \cup ({id} \ {NoId})
      /\ Passes(s, t) \/ (id \in Ids /\ Appends(c, s, t, id))
      /\ id \in Ids /\ Fresh(c, s, id) => Appends(c, s, t, id)
  BY <1>1, <1>2, <1>3, TakeEntryOutcome
<1>6. t.seen = {list[k] : k \in 1..(n + 1)} \ {NoId}
  BY <1>4, <1>5 DEF Loop
<1>7. CASE id \in Ids /\ Appends(c, s, t, id)
  <2>1. Sound(c, s.models, s.seen) /\ Routed(c, id)
        /\ t.models = Append(s.models, RecordOf(c, id))
    BY <1>7 DEF Appends, Loop
  <2>2. s.seen \subseteq t.seen /\ id \in t.seen
    BY <1>5, <1>7, NoIdNotInIds
  <2>3. Sound(c, t.models, t.seen) /\ t.models # <<>>
    BY <1>7, <2>1, <2>2, AppendSound
  <2>4. QED
    BY <1>5, <1>6, <2>3 DEF Loop, NothingYet
<1>8. CASE Passes(s, t) /\ ~(id \in Ids /\ Appends(c, s, t, id))
  <2>1. Sound(c, t.models, t.seen)
    BY <1>5, <1>8 DEF Passes, Loop, Sound
  <2>2. ASSUME t.models = <<>>
        PROVE  DOMAIN t.index = {} /\ \A i \in t.seen : ~Routed(c, i)
    <3>1. DOMAIN s.index = {} /\ \A i \in s.seen : ~Routed(c, i)
      BY <1>8, <2>2 DEF Passes, Loop, NothingYet
    <3>2. id = NoId \/ ~Routed(c, id)
      BY <1>1, <1>5, <1>8, <3>1 DEF Fresh
    <3>3. QED
      BY <1>5, <1>8, <3>1, <3>2 DEF Passes
  <2>3. QED
    BY <1>5, <1>6, <2>1, <2>2 DEF Loop, NothingYet
<1>9. QED
  BY <1>5, <1>7, <1>8

LEMMA BuildLoop ==
  ASSUME NEW c \in Configs, NEW list \in Entries
  PROVE  Loop(c, list, Build(c, list), Len(list))
<1>1. Len(list) \in Nat
  BY DEF Entries
<1>2. PICK f : Steps(c, list, f, Len(list)) /\ Build(c, list) = f[Len(list)]
  BY <1>1, BuildIsIteration
<1> DEFINE T == {n \in 0..Len(list) : Loop(c, list, f[n], n)}
<1>3. 0 \in T
  <2>1. Loop(c, list, EmptySnapshot, 0)
    <3>1. Sound(c, <<>>, {})
      BY DEF Sound
    <3>2. {list[k] : k \in 1..0} \ {NoId} = {}
      OBVIOUS
    <3>3. DOMAIN EmptySnapshot.index = {}
      BY EmptyIsSnapshot
    <3>4. QED
      BY <3>1, <3>2, <3>3, EmptyIsSnapshot DEF Loop, NothingYet
  <2>2. QED
    BY <1>1, <1>2, <2>1 DEF Steps
<1>4. ASSUME NEW n \in 0..Len(list), n \in T, n < Len(list)
      PROVE  n + 1 \in T
  <2>1. n \in Nat /\ n + 1 \in 1..Len(list) /\ n + 1 <= Len(list)
    BY <1>1, <1>4
  <2>2. f[n + 1] = TakeEntry(c, f[(n + 1) - 1], list[n + 1]) /\ (n + 1) - 1 = n
    BY <1>2, <2>1 DEF Steps
  <2>3. Loop(c, list, f[n], n)
    BY <1>4
  <2>4. Loop(c, list, f[n + 1], n + 1)
    BY <2>1, <2>2, <2>3, LoopStep
  <2>5. QED
    BY <2>1, <2>4
<1> HIDE DEF T
<1>5. \A n \in 0..Len(list) : n \in T
  BY <1>1, <1>3, <1>4, IntervalInduction
<1>6. Len(list) \in T
  BY <1>1, <1>5
<1>7. QED
  BY <1>2, <1>6 DEF T

\* Every model of a snapshot is an id of the list that the configuration routes, with
\* the protocol it gives it and under the public id it makes of it: swap in
\* internal/catalog/catalog.go, however long the list and whatever it repeats.
THEOREM BuildListsRouted ==
  ASSUME NEW c \in Configs, NEW list \in Entries
  PROVE  \A k \in 1..Len(Build(c, list).models) :
           \E n \in 1..Len(list) :
             list[n] \in Ids /\ Routed(c, list[n])
             /\ Build(c, list).models[k] = RecordOf(c, list[n])
<1> DEFINE b == Build(c, list)
<1>1. Loop(c, list, b, Len(list))
  BY BuildLoop
<1> HIDE DEF b
<1>2. SUFFICES ASSUME NEW k \in 1..Len(b.models)
               PROVE  \E n \in 1..Len(list) : list[n] \in Ids /\ Routed(c, list[n])
                                              /\ b.models[k] = RecordOf(c, list[n])
  BY DEF b
<1>3. PICK id \in b.seen : Routed(c, id) /\ b.models[k] = RecordOf(c, id)
  BY <1>1 DEF Loop, Sound
<1>4. PICK n \in 1..Len(list) : list[n] = id /\ id # NoId
  BY <1>1, <1>3 DEF Loop
<1>5. list[n] \in Ids
  BY <1>4 DEF Entries
<1>6. QED
  BY <1>3, <1>4, <1>5

\* A snapshot is empty exactly when the configuration routes no id of the list: a clash
\* of ids or a repetition never empties a catalog.
THEOREM BuildEmptyIff ==
  ASSUME NEW c \in Configs, NEW list \in Entries
  PROVE  Build(c, list).models = <<>>
           <=> \A n \in 1..Len(list) : list[n] # NoId => ~Routed(c, list[n])
<1> DEFINE b == Build(c, list)
<1>1. Loop(c, list, b, Len(list))
  BY BuildLoop
<1>2. \A k \in 1..Len(b.models) :
        \E n \in 1..Len(list) : list[n] \in Ids /\ Routed(c, list[n])
  BY BuildListsRouted
<1> HIDE DEF b
<1>3. b.models = <<>> => \A n \in 1..Len(list) : list[n] # NoId => ~Routed(c, list[n])
  BY <1>1 DEF Loop, NothingYet
<1>4. b.models # <<>> => 1 \in 1..Len(b.models)
  <2>1. \E R : b.models \in Seq(R)
    BY <1>1 DEF Loop, Sound
  <2>2. QED
    BY <2>1
<1>5. QED
  BY <1>2, <1>3, <1>4, NoIdNotInIds DEF b
=============================================================================
