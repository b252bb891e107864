--------------------------- MODULE CatalogSwapProofs ---------------------------
(***************************************************************************)
(* Theorems about CatalogSwap, for any ids, routes, families, overrides    *)
(* and any length of the list.                                             *)
(*                                                                         *)
(* A round of swap has one of four outcomes (Outcome); the invariant is    *)
(* that models, index, ids seen and exclusions account for each other.     *)
(***************************************************************************)
EXTENDS CatalogSwap, CatalogProofs, SequenceTheorems, FiniteSetTheorems

Records == {[public |-> PublicID(cfg, id), upstream |-> id, route |-> r] :
              id \in Ids, r \in Routes}
Routable == {m.upstream : m \in Listed}

-----------------------------------------------------------------------------
(* The outcomes of a round.  The provers work with named pairs and reasons  *)
(* and the facts NotedParts about them.                                    *)

Noted(id, reason) == <<id, reason>>
Missing == <<"missing id">>
Taken(public, upstream) == <<"collision", public, upstream>>

LEMMA NotedParts ==
  /\ \A id, reason : Noted(id, reason)[1] = id /\ Noted(id, reason)[2] = reason
  /\ Missing[1] # "collision"
  /\ \A p, u : /\ Taken(p, u)[1] = "collision"
              /\ Taken(p, u)[2] = p /\ Taken(p, u)[3] = u
BY DEF Noted, Missing, Taken

Passed == snap'.models = snap.models /\ snap'.index = snap.index

Repeated(id) ==
  /\ id \in snap.seen /\ Passed
  /\ snap'.seen = snap.seen /\ snap'.unsup = snap.unsup
  /\ snap'.warns = snap.warns \cup {Noted(id, <<"duplicate">>)}

Unnamed(id) ==
  /\ id = NoId /\ Passed
  /\ snap'.seen = snap.seen /\ snap'.warns = snap.warns
  /\ snap'.unsup = snap.unsup \cup {Noted(id, Missing)}

Ineligible(id, reason) == ~Eligible(id) /\ reason[1] # "collision"

Collided(id, reason) ==
  LET public == PublicID(cfg, id)
  IN  \/ public \in DOMAIN snap.index
         /\ reason = Taken(public, snap.index[public].upstream)
      \/ public \notin DOMAIN snap.index /\ id \in DOMAIN snap.index
         /\ reason = Taken(snap.index[id].public, id)

Refused(id, reason) ==
  /\ id \in Ids \ snap.seen /\ Passed
  /\ snap'.seen = snap.seen \cup {id}
  /\ snap.warns \subseteq snap'.warns
  /\ snap'.unsup = snap.unsup \cup {Noted(id, reason)}
  /\ \/ Ineligible(id, reason)
     \/ Eligible(id) /\ Collided(id, reason)

Added(id, rec) ==
  /\ rec.upstream = id /\ rec.public = PublicID(cfg, id)
  /\ KeysOf(rec) \cap DOMAIN snap.index = {}
  /\ snap'.models = Append(snap.models, rec)
  /\ snap'.index = [k \in DOMAIN snap.index \cup KeysOf(rec) |->
                      IF k \in KeysOf(rec) THEN rec ELSE snap.index[k]]

Accepted(id, rec) ==
  /\ id \in Ids \ snap.seen /\ Eligible(id)
  /\ snap'.seen = snap.seen \cup {id}
  /\ snap.warns \subseteq snap'.warns
  /\ snap'.unsup = snap.unsup
  /\ Added(id, rec)

Outcome(id) ==
  \/ Repeated(id) \/ Unnamed(id)
  \/ \E reason : Refused(id, reason)
  \/ \E rec \in Records : Accepted(id, rec)

-----------------------------------------------------------------------------
(* The invariant.                                                          *)

Fields ==
  snap = [seen |-> snap.seen, models |-> snap.models, index |-> snap.index,
          unsup |-> snap.unsup, warns |-> snap.warns]

Shape ==
  /\ cfg \in Configs /\ Fields
  /\ entries \in Seq(Ids \cup {NoId})
  /\ snap.models \in Seq(Records)
  /\ snap.seen = {entries[k] : k \in 1..Len(entries)} \ {NoId}

\* No two models have one upstream id, and each was seen.
Distinct ==
  /\ Routable \subseteq snap.seen
  /\ \A i, j \in 1..Len(snap.models) :
       snap.models[i].upstream = snap.models[j].upstream => i = j

\* One exclusion for each id that is not routable, none for the others.
Excluding ==
  /\ \A u \in snap.unsup : u[1] \in snap.seen \cup {NoId}
  /\ \A u, v \in snap.unsup : u[1] = v[1] => u = v
  /\ \A u \in snap.unsup : u[1] = NoId => u = Noted(NoId, Missing)
  /\ \A x \in snap.seen : x \in Routable <=> ~\E u \in snap.unsup : u[1] = x
  /\ \A k \in 1..Len(entries) : entries[k] = NoId => \E u \in snap.unsup : u[1] = NoId

RepetitionsWarned ==
  \A j, k \in 1..Len(entries) :
    j < k /\ entries[j] = entries[k] /\ entries[k] # NoId
      => <<entries[k], <<"duplicate">>>> \in snap.warns

\* Every id seen has a first occurrence.
FirstsExist ==
  \A id \in snap.seen :
    \E k \in 1..Len(entries) : entries[k] = id /\ \A j \in 1..(k - 1) : entries[j] # id

IndInv ==
  /\ Shape /\ IndexNames /\ Distinct /\ Excluding /\ RepetitionsWarned /\ FirstsExist
  /\ CollisionsAreReal /\ FirstInCatalogOrderWins

-----------------------------------------------------------------------------
(* Facts.                                                                  *)

\* The prefix keeps ids apart.
LEMMA PublicIdInjective ==
  ASSUME NEW a \in Ids, NEW b \in Ids, PublicID(cfg, a) = PublicID(cfg, b)
  PROVE  a = b
<1>1. a \in Seq(STRING) /\ b \in Seq(STRING)
  BY CatalogAssumption DEF CatalogAssumption
<1>2. CASE ~cfg.prefixed
  BY <1>2 DEF PublicID
<1>3. CASE cfg.prefixed
  <2>1. <<Prefix>> \o a = <<Prefix>> \o b
    BY <1>3 DEF PublicID
  <2>2. Len(a) = Len(b)
    <3>1. Len(<<Prefix>> \o a) = 1 + Len(a) /\ Len(<<Prefix>> \o b) = 1 + Len(b)
      BY <1>1
    <3>. QED  BY <2>1, <3>1, <1>1
  <2>3. \A k \in 1..Len(a) : a[k] = b[k]
    <3>1. TAKE k \in 1..Len(a)
    <3>2. (<<Prefix>> \o a)[k + 1] = a[k] /\ (<<Prefix>> \o b)[k + 1] = b[k]
      BY <1>1, <2>2
    <3>. QED  BY <2>1, <3>2
  <2>. QED  BY <1>1, <2>2, <2>3, SeqEqual
<1>. QED  BY <1>2, <1>3

\* An id's route is Resolve's.
LEMMA EligibleIsResolved ==
  ASSUME cfg \in Configs, NEW id \in Ids
  PROVE  LET r == Resolve(cfg, id)
         IN  /\ r.route \in Routes \cup {NoRoute}
             /\ Eligible(id) <=> r.route \in cfg.enabled /\ ~r.escapes
BY CatalogAssumption DEF CatalogAssumption, Resolve, Eligible

Marked(id) == [snap EXCEPT !.seen = @ \cup {id}]

\* A first occurrence is refused or accepted.
LEMMA ConsiderOutcome ==
  ASSUME Shape, NEW id \in Ids \ snap.seen, cfg' = cfg,
         snap' = Consider(cfg, Marked(id), id)
  PROVE  Fields' /\ Outcome(id)
<1>. DEFINE r == Resolve(cfg, id)
            s == Marked(id)
            w == IF id \in DOMAIN cfg.overrides THEN Warned(s, id, <<"override">>) ELSE s
            warns == w.warns
            rec == [public |-> PublicID(cfg, id), upstream |-> id, route |-> r.route]
<1>1. /\ r.route \in Routes \cup {NoRoute}
      /\ Eligible(id) <=> r.route \in cfg.enabled /\ ~r.escapes
      /\ NoRoute \notin cfg.enabled
  BY EligibleIsResolved, CatalogAssumption DEF Shape, CatalogAssumption
<1>2. /\ w = [seen |-> snap.seen \cup {id}, models |-> snap.models,
              index |-> snap.index, unsup |-> snap.unsup, warns |-> warns]
      /\ snap.warns \subseteq warns
  BY DEF Shape, Fields, Warned, Marked
<1>3. snap' = CASE r.route = NoRoute -> Excluded(w, id, <<"no route">>)
              [] r.route \notin {NoRoute} \cup cfg.enabled -> Excluded(w, id, <<"disabled">>)
              [] r.route \in cfg.enabled /\ r.escapes -> Excluded(w, id, <<"escapes">>)
              [] OTHER -> AddRecord(cfg, w, rec)
  BY DEF Consider
<1>. HIDE DEF r, s, w, warns
<1>4. ASSUME NEW word, word # "collision", ~Eligible(id),
             snap' = Excluded(w, id, <<word>>)
      PROVE  Fields' /\ Outcome(id)
  <2>1. snap' = [seen |-> snap.seen \cup {id}, models |-> snap.models,
                 index |-> snap.index, unsup |-> snap.unsup \cup {<<id, <<word>>>>},
                 warns |-> warns]
    BY <1>2, <1>4 DEF Excluded
  <2>2. Fields'
    BY <2>1 DEF Fields
  <2>3. /\ snap'.seen = snap.seen \cup {id} /\ snap'.models = snap.models
        /\ snap'.index = snap.index /\ snap'.warns = warns
        /\ snap'.unsup = snap.unsup \cup {Noted(id, <<word>>)}
    BY <2>1 DEF Noted
  <2>4. Refused(id, <<word>>)
    BY <1>2, <1>4, <2>3 DEF Refused, Passed, Ineligible
  <2>. QED  BY <2>2, <2>4 DEF Outcome
<1>5. ASSUME Eligible(id), snap' = AddRecord(cfg, w, rec)
      PROVE  Fields' /\ Outcome(id)
  <2>1. CASE rec.public \in DOMAIN snap.index
    <3>. DEFINE why == Taken(rec.public, snap.index[rec.public].upstream)
    <3>1. snap' = Excluded(Warned(w, id, why), id, why)
      BY <1>2, <1>5, <2>1 DEF AddRecord, Collides, Taken
    <3>2. Collided(id, why)
      BY <2>1 DEF Collided
    <3>. HIDE DEF why
    <3>3. snap' = [seen |-> snap.seen \cup {id}, models |-> snap.models,
                   index |-> snap.index, unsup |-> snap.unsup \cup {<<id, why>>},
                   warns |-> warns \cup {<<id, why>>}]
      BY <1>2, <3>1 DEF Excluded, Warned
    <3>4. Fields'
      BY <3>3 DEF Fields
    <3>5. /\ snap'.seen = snap.seen \cup {id} /\ snap'.models = snap.models
          /\ snap'.index = snap.index /\ snap'.warns = warns \cup {<<id, why>>}
          /\ snap'.unsup = snap.unsup \cup {Noted(id, why)}
      BY <3>3 DEF Noted
    <3>6. Refused(id, why)
      BY <1>2, <1>5, <3>2, <3>5 DEF Refused, Passed
    <3>. QED  BY <3>4, <3>6 DEF Outcome
  <2>2. CASE rec.public \notin DOMAIN snap.index /\ rec.upstream \in DOMAIN snap.index
    <3>. DEFINE why == Taken(snap.index[rec.upstream].public, rec.upstream)
    <3>1. snap' = Excluded(Warned(w, id, why), id, why)
      BY <1>2, <1>5, <2>2 DEF AddRecord, Collides, Taken
    <3>2. Collided(id, why)
      BY <2>2 DEF Collided
    <3>. HIDE DEF why
    <3>3. snap' = [seen |-> snap.seen \cup {id}, models |-> snap.models,
                   index |-> snap.index, unsup |-> snap.unsup \cup {<<id, why>>},
                   warns |-> warns \cup {<<id, why>>}]
      BY <1>2, <3>1 DEF Excluded, Warned
    <3>4. Fields'
      BY <3>3 DEF Fields
    <3>5. /\ snap'.seen = snap.seen \cup {id} /\ snap'.models = snap.models
          /\ snap'.index = snap.index /\ snap'.warns = warns \cup {<<id, why>>}
          /\ snap'.unsup = snap.unsup \cup {Noted(id, why)}
      BY <3>3 DEF Noted
    <3>6. Refused(id, why)
      BY <1>2, <1>5, <3>2, <3>5 DEF Refused, Passed
    <3>. QED  BY <3>4, <3>6 DEF Outcome
  <2>3. CASE rec.public \notin DOMAIN snap.index /\ rec.upstream \notin DOMAIN snap.index
    <3>1. /\ rec \in Records /\ rec.upstream = id /\ rec.public = PublicID(cfg, id)
      BY <1>1, <1>5, CatalogAssumption DEF Records, CatalogAssumption, Shape
    <3>2. snap' = [w EXCEPT !.models = Append(@, rec),
                            !.index = [k \in DOMAIN @ \cup {rec.public, rec.upstream} |->
                               IF k \in {rec.public, rec.upstream} THEN rec ELSE @[k]]]
      BY <1>2, <1>5, <2>3 DEF AddRecord
    <3>. HIDE DEF rec
    <3>. DEFINE indexed == [k \in DOMAIN snap.index \cup {rec.public, rec.upstream} |->
                              IF k \in {rec.public, rec.upstream} THEN rec ELSE snap.index[k]]
    <3>3. w.index = snap.index /\ w.models = snap.models
      BY <1>2
    <3>4. snap' = [w EXCEPT !.models = Append(snap.models, rec), !.index = indexed]
      BY <3>2, <3>3
    <3>5. indexed = [k \in DOMAIN snap.index \cup KeysOf(rec) |->
                      IF k \in KeysOf(rec) THEN rec ELSE snap.index[k]]
      BY DEF KeysOf
    <3>. HIDE DEF indexed
    <3>6. snap' = [seen |-> snap.seen \cup {id}, models |-> Append(snap.models, rec),
                   index |-> indexed, unsup |-> snap.unsup, warns |-> warns]
      BY <1>2, <3>4
    <3>7. KeysOf(rec) \cap DOMAIN snap.index = {}
      BY <2>3 DEF KeysOf
    <3>8. Fields'
      BY <3>6 DEF Fields
    <3>9. Added(id, rec)
      BY <3>1, <3>5, <3>6, <3>7 DEF Added
    <3>10. snap'.seen = snap.seen \cup {id} /\ snap'.unsup = snap.unsup /\ snap'.warns = warns
      BY <3>6
    <3>11. Accepted(id, rec)
      BY <1>2, <1>5, <3>9, <3>10 DEF Accepted
    <3>. QED  BY <3>1, <3>8, <3>11 DEF Outcome
  <2>. QED  BY <2>1, <2>2, <2>3
<1>. QED  BY <1>1, <1>3, <1>4, <1>5

Took(id) ==
  /\ id \in Ids \cup {NoId}
  /\ entries' = Append(entries, id) /\ cfg' = cfg
  /\ Fields' /\ Outcome(id)

\* A step takes one entry, with one of the four outcomes.
LEMMA StepOutcome ==
  ASSUME Shape, NextEntry
  PROVE  \E id : Took(id)
<1>1. \E id \in Ids \cup {NoId} :
        entries' = Append(entries, id) /\ snap' = TakeEntry(cfg, snap, id) /\ cfg' = cfg
  BY DEF NextEntry
<1>2. PICK id \in Ids \cup {NoId} :
        entries' = Append(entries, id) /\ snap' = TakeEntry(cfg, snap, id) /\ cfg' = cfg
  BY <1>1
<1>3. CASE id = NoId
  <2>1. Fields' /\ Unnamed(id)
    BY <1>2, <1>3 DEF TakeEntry, Excluded, Shape, Fields, Unnamed, Passed, Noted, Missing
  <2>. QED  BY <1>2, <2>1 DEF Outcome, Took
<1>4. CASE id # NoId /\ id \in snap.seen
  <2>1. Fields' /\ Repeated(id)
    BY <1>2, <1>4 DEF TakeEntry, Warned, Shape, Fields, Repeated, Passed, Noted
  <2>. QED  BY <1>2, <2>1 DEF Outcome, Took
<1>5. CASE id # NoId /\ id \notin snap.seen
  <2>1. snap' = Consider(cfg, Marked(id), id)
    BY <1>2, <1>5 DEF TakeEntry, Marked
  <2>. QED  BY <1>2, <1>5, <2>1, ConsiderOutcome DEF Took
<1>. QED  BY <1>3, <1>4, <1>5

-----------------------------------------------------------------------------
(* What an outcome does to the lists.                                      *)

LEMMA ListKept ==
  ASSUME Passed
  PROVE  Listed' = Listed /\ Routable' = Routable
BY DEF Passed, Listed, Routable

LEMMA ListGrows ==
  ASSUME Shape, NEW id, NEW rec \in Records, Added(id, rec)
  PROVE  /\ Listed' = Listed \cup {rec}
         /\ Routable' = Routable \cup {id}
<1>1. /\ Len(snap'.models) = Len(snap.models) + 1
      /\ \A k \in 1..Len(snap.models) : snap'.models[k] = snap.models[k]
      /\ snap'.models[Len(snap.models) + 1] = rec
      /\ Len(snap.models) \in Nat
  BY DEF Shape, Added
<1>2. Listed' = Listed \cup {rec}
  BY <1>1 DEF Listed
<1>. QED  BY <1>2 DEF Routable, Added

LEMMA EntryTaken ==
  ASSUME Shape, NEW id, Took(id)
  PROVE  /\ entries' \in Seq(Ids \cup {NoId})
         /\ Len(entries) \in Nat /\ Len(entries') = Len(entries) + 1
         /\ \A k \in 1..Len(entries) : entries'[k] = entries[k]
         /\ entries'[Len(entries) + 1] = id
BY DEF Shape, Took

LEMMA NoIdIsNoId == NoId \notin Ids
BY CatalogAssumption DEF CatalogAssumption

-----------------------------------------------------------------------------
(* The parts of the invariant, one by one.                                 *)

LEMMA ShapeKept ==
  ASSUME Shape, NEW id, Took(id)
  PROVE  Shape'
<1>. DEFINE met == {entries[k] : k \in 1..Len(entries)}
            metThen == {entries'[k] : k \in 1..Len(entries')}
<1>1. metThen = met \cup {id} /\ entries' \in Seq(Ids \cup {NoId})
  BY EntryTaken
<1>2. snap.seen = met \ {NoId}
  BY DEF Shape
<1>. HIDE DEF met, metThen
<1>3. cfg' \in Configs /\ Fields'
  BY DEF Shape, Took
<1>4. snap'.models \in Seq(Records') /\ snap'.seen = metThen \ {NoId}
  <2>0. Records' = Records /\ snap.models \in Seq(Records)
    BY DEF Records, Took, Shape, PublicID
  <2>1. CASE Repeated(id) \/ Unnamed(id)
    BY <1>1, <1>2, <2>0, <2>1, NoIdIsNoId DEF Repeated, Unnamed, Passed
  <2>2. ASSUME NEW reason, Refused(id, reason)
        PROVE  snap'.models \in Seq(Records') /\ snap'.seen = metThen \ {NoId}
    BY <1>1, <1>2, <2>0, <2>2, NoIdIsNoId DEF Refused, Passed
  <2>3. ASSUME NEW rec \in Records, Accepted(id, rec)
        PROVE  snap'.models \in Seq(Records') /\ snap'.seen = metThen \ {NoId}
    BY <1>1, <1>2, <2>0, <2>3, NoIdIsNoId DEF Accepted, Added
  <2>. QED  BY <2>1, <2>2, <2>3 DEF Took, Outcome
<1>. QED  BY <1>1, <1>3, <1>4 DEF Shape, metThen

LEMMA IndexNamesKept ==
  ASSUME Shape, IndexNames, NEW id, Took(id)
  PROVE  IndexNames'
<1>1. CASE Passed
  BY <1>1, ListKept DEF IndexNames, Passed, KeysOf
<1>2. ASSUME NEW rec \in Records, Accepted(id, rec)
      PROVE  IndexNames'
  <2>1. Listed' = Listed \cup {rec}
    BY <1>2, ListGrows DEF Accepted
  <2>2. /\ DOMAIN snap'.index = DOMAIN snap.index \cup KeysOf(rec)
        /\ \A k \in KeysOf(rec) : snap'.index[k] = rec /\ k \notin DOMAIN snap.index
        /\ \A k \in DOMAIN snap.index : snap'.index[k] = snap.index[k]
    BY <1>2 DEF Accepted, Added
  <2>3. \A k \in DOMAIN snap'.index :
          snap'.index[k] \in Listed' /\ k \in KeysOf(snap'.index[k])
    BY <2>1, <2>2 DEF IndexNames
  <2>4. \A m \in Listed' : \A k \in KeysOf(m) :
          k \in DOMAIN snap'.index /\ snap'.index[k] = m
    BY <2>1, <2>2 DEF IndexNames
  <2>. QED  BY <2>3, <2>4 DEF IndexNames, KeysOf
<1>. QED  BY <1>1, <1>2 DEF Took, Outcome, Repeated, Unnamed, Refused

LEMMA DistinctKept ==
  ASSUME Shape, Distinct, NEW id, Took(id)
  PROVE  Distinct'
<1>1. CASE Passed
  <2>1. snap.seen \subseteq snap'.seen
    BY <1>1 DEF Took, Outcome, Repeated, Unnamed, Refused, Accepted
  <2>. QED  BY <1>1, <2>1, ListKept DEF Distinct, Passed
<1>2. ASSUME NEW rec \in Records, Accepted(id, rec)
      PROVE  Distinct'
  <2>1. Routable' = Routable \cup {id} /\ id \notin Routable
    BY <1>2, ListGrows DEF Accepted, Distinct
  <2>2. /\ Len(snap.models) \in Nat
        /\ Len(snap'.models) = Len(snap.models) + 1
        /\ \A k \in 1..Len(snap.models) :
             snap'.models[k] = snap.models[k] /\ snap.models[k].upstream \in Routable
        /\ snap'.models[Len(snap.models) + 1].upstream = id
    BY <1>2 DEF Accepted, Added, Shape, Routable, Listed
  <2>3. Routable' \subseteq snap'.seen
    BY <1>2, <2>1 DEF Distinct, Accepted
  <2>4. \A i, j \in 1..Len(snap'.models) :
          snap'.models[i].upstream = snap'.models[j].upstream => i = j
    <3>1. TAKE i, j \in 1..Len(snap'.models)
    <3>2. HAVE snap'.models[i].upstream = snap'.models[j].upstream
    <3>3. CASE i <= Len(snap.models) /\ j <= Len(snap.models)
      BY <2>2, <3>2, <3>3 DEF Distinct
    <3>4. CASE i = Len(snap.models) + 1 \/ j = Len(snap.models) + 1
      BY <2>1, <2>2, <3>2, <3>4
    <3>. QED  BY <2>2, <3>3, <3>4
  <2>. QED  BY <2>3, <2>4 DEF Distinct
<1>. QED  BY <1>1, <1>2 DEF Took, Outcome, Repeated, Unnamed, Refused

LEMMA RepetitionsKept ==
  ASSUME Shape, RepetitionsWarned, NEW id, Took(id)
  PROVE  RepetitionsWarned'
<1>1. snap.warns \subseteq snap'.warns
  BY DEF Took, Outcome, Repeated, Unnamed, Refused, Accepted
<1>2. ASSUME id \in snap.seen PROVE <<id, <<"duplicate">>>> \in snap'.warns
  BY <1>2, NoIdIsNoId, CatalogAssumption
     DEF Took, Outcome, Repeated, Unnamed, Refused, Accepted, Shape, Noted
<1>3. ASSUME NEW j \in 1..Len(entries), entries[j] = id, id # NoId
      PROVE  id \in snap.seen
  BY <1>3 DEF Shape
<1>. QED  BY <1>1, <1>2, <1>3, EntryTaken DEF RepetitionsWarned

\* An id met for the first time has no exclusion yet.
LEMMA ExcludingKept ==
  ASSUME Shape, Distinct, Excluding, NEW id, Took(id)
  PROVE  Excluding'
<1>0. NoId \notin snap.seen
  BY DEF Shape
<1>1. CASE Repeated(id)
  <2>1. id # NoId /\ Routable' = Routable /\ snap'.seen = snap.seen /\ snap'.unsup = snap.unsup
    BY <1>0, <1>1, ListKept DEF Repeated
  <2>. QED  BY <2>1, EntryTaken, NotedParts DEF Excluding
<1>2. CASE Unnamed(id)
  <2>1. /\ id = NoId /\ Routable' = Routable /\ snap'.seen = snap.seen
        /\ snap'.unsup = snap.unsup \cup {Noted(NoId, Missing)}
    BY <1>2, ListKept DEF Unnamed
  <2>2. \A u \in snap'.unsup : u[1] \in snap'.seen \cup {NoId}
    BY <2>1, NotedParts DEF Excluding
  <2>3. \A u \in snap'.unsup : u[1] = NoId => u = Noted(NoId, Missing)
    BY <2>1, NotedParts DEF Excluding
  <2>4. \A u, v \in snap'.unsup : u[1] = v[1] => u = v
    BY <2>1, <2>3, NotedParts DEF Excluding
  <2>5. \A x \in snap'.seen : x \in Routable' <=> ~\E u \in snap'.unsup : u[1] = x
    BY <1>0, <2>1, NotedParts DEF Excluding
  <2>6. \A k \in 1..Len(entries') : entries'[k] = NoId => \E u \in snap'.unsup : u[1] = NoId
    BY <2>1, NotedParts
  <2>. QED  BY <2>2, <2>3, <2>4, <2>5, <2>6 DEF Excluding
<1>3. ASSUME NEW reason, Refused(id, reason)
      PROVE  Excluding'
  <2>1. /\ id # NoId /\ id \notin snap.seen /\ id \notin Routable
        /\ Routable' = Routable /\ snap'.seen = snap.seen \cup {id}
        /\ snap'.unsup = snap.unsup \cup {Noted(id, reason)}
    BY <1>3, ListKept, NoIdIsNoId DEF Refused, Distinct
  <2>2. \A u \in snap.unsup : u[1] # id
    BY <2>1, NotedParts DEF Excluding
  <2>3. \A u \in snap'.unsup : u[1] \in snap'.seen \cup {NoId}
    BY <2>1, NotedParts DEF Excluding
  <2>4. \A u \in snap'.unsup : u[1] = NoId => u = Noted(NoId, Missing)
    BY <2>1, NotedParts DEF Excluding
  <2>5. \A u, v \in snap'.unsup : u[1] = v[1] => u = v
    BY <2>1, <2>2, NotedParts DEF Excluding
  <2>6. \A x \in snap'.seen : x \in Routable' <=> ~\E u \in snap'.unsup : u[1] = x
    BY <2>1, <2>2, NotedParts DEF Excluding
  <2>7. \A k \in 1..Len(entries') : entries'[k] = NoId => \E u \in snap'.unsup : u[1] = NoId
    BY <2>1, EntryTaken, NotedParts DEF Excluding
  <2>. QED  BY <2>3, <2>4, <2>5, <2>6, <2>7 DEF Excluding
<1>4. ASSUME NEW rec \in Records, Accepted(id, rec)
      PROVE  Excluding'
  <2>1. /\ id # NoId /\ id \notin snap.seen
        /\ Routable' = Routable \cup {id} /\ snap'.seen = snap.seen \cup {id}
        /\ snap'.unsup = snap.unsup
    BY <1>4, ListGrows, NoIdIsNoId DEF Accepted
  <2>2. \A u \in snap.unsup : u[1] # id
    BY <2>1, NotedParts DEF Excluding
  <2>3. \A x \in snap'.seen : x \in Routable' <=> ~\E u \in snap'.unsup : u[1] = x
    BY <2>1, <2>2, NotedParts DEF Excluding
  <2>4. \A k \in 1..Len(entries') : entries'[k] = NoId => \E u \in snap'.unsup : u[1] = NoId
    BY <2>1, EntryTaken, NotedParts DEF Excluding
  <2>. QED  BY <2>1, <2>3, <2>4 DEF Excluding
<1>. QED  BY <1>1, <1>2, <1>3, <1>4 DEF Took, Outcome

\* What is under a key of an eligible newcomer is another model, which has the key
\* as its other id: the prefix keeps public ids apart.
LEMMA CollisionIsReal ==
  ASSUME Shape, IndexNames, Distinct,
         NEW id \in Ids \ snap.seen, NEW reason, Collided(id, reason)
  PROVE  \E m \in Listed :
           /\ reason[2] = reason[3] /\ reason[2] \in KeysOf(m)
           /\ reason[2] \in {id, PublicID(cfg, id)}
<1>1. \A m \in Listed : /\ m.upstream \in Ids \cap Routable /\ m.upstream # id
                       /\ m.public = PublicID(cfg, m.upstream)
  <2>1. \A m \in Listed : m \in Records
    BY DEF Listed, Shape
  <2>. QED  BY <2>1 DEF Records, Routable, Distinct
<1>2. \A m \in Listed : m.public # PublicID(cfg, id)
  BY <1>1, PublicIdInjective
<1>. DEFINE public == PublicID(cfg, id)
<1>3. ASSUME NEW key \in DOMAIN snap.index, key \in {id, public},
             NEW m, m = snap.index[key],
             key = public => reason = Taken(public, m.upstream),
             key # public => reason = Taken(m.public, id)
      PROVE  reason[2] = reason[3] /\ reason[2] \in KeysOf(m) /\ reason[2] \in {id, public} /\ m \in Listed
  <2>1. m \in Listed /\ (key = m.public \/ key = m.upstream) /\ key \in KeysOf(m)
    <3>1. snap.index[key] \in Listed /\ key \in KeysOf(snap.index[key])
      BY DEF IndexNames
    <3>. QED  BY <1>3, <3>1 DEF KeysOf
  <2>2. CASE key = public
    <3>1. m.upstream = public
      BY <1>2, <2>1, <2>2
    <3>2. reason[2] = public /\ reason[3] = public
      BY <1>3, <2>2, <3>1, NotedParts
    <3>. QED  BY <2>1, <2>2, <3>2
  <2>3. CASE key # public
    <3>1. key = id /\ m.public = id
      BY <1>1, <1>3, <2>1, <2>3
    <3>2. reason[2] = id /\ reason[3] = id
      BY <1>3, <2>3, <3>1, NotedParts
    <3>. QED  BY <2>1, <3>1, <3>2
  <2>. QED  BY <2>2, <2>3
<1>4. CASE public \in DOMAIN snap.index /\ reason = Taken(public, snap.index[public].upstream)
  BY <1>3, <1>4
<1>5. CASE /\ public \notin DOMAIN snap.index /\ id \in DOMAIN snap.index
           /\ reason = Taken(snap.index[id].public, id)
  BY <1>3, <1>5
<1>. QED  BY <1>4, <1>5 DEF Collided

LEMMA CollisionsKept ==
  ASSUME Shape, IndexNames, Distinct, CollisionsAreReal, NEW id, Took(id)
  PROVE  CollisionsAreReal'
<1>1. Listed \subseteq Listed'
  BY ListKept, ListGrows DEF Took, Outcome, Repeated, Unnamed, Refused, Accepted
<1>2. \A u \in snap.unsup :
        u[2][1] = "collision" =>
          /\ u[2][2] = u[2][3]
          /\ \E m \in Listed' : m.upstream # u[1] /\ u[2][2] \in KeysOf(m)
  BY <1>1 DEF CollisionsAreReal
<1>3. CASE Repeated(id)
  BY <1>2, <1>3 DEF Repeated, CollisionsAreReal, KeysOf
<1>4. CASE Unnamed(id)
  BY <1>2, <1>4, NotedParts DEF Unnamed, CollisionsAreReal, KeysOf
<1>5. ASSUME NEW rec \in Records, Accepted(id, rec)
      PROVE  CollisionsAreReal'
  BY <1>2, <1>5 DEF Accepted, CollisionsAreReal, KeysOf
<1>6. ASSUME NEW reason, Refused(id, reason)
      PROVE  CollisionsAreReal'
  <2>1. snap'.unsup = snap.unsup \cup {Noted(id, reason)} /\ id \in Ids \ snap.seen
    BY <1>6 DEF Refused
  <2>2. ASSUME reason[1] = "collision"
        PROVE  /\ reason[2] = reason[3]
               /\ \E m \in Listed' : m.upstream # id /\ reason[2] \in KeysOf(m)
    <3>1. Collided(id, reason)
      BY <1>6, <2>2, NotedParts DEF Refused, Ineligible
    <3>2. \A m \in Listed : m.upstream # id
      BY <2>1 DEF Distinct, Routable
    <3>. QED  BY <1>1, <2>1, <3>1, <3>2, CollisionIsReal
  <2>. QED  BY <1>2, <2>1, <2>2, NotedParts DEF CollisionsAreReal, KeysOf
<1>. QED  BY <1>3, <1>4, <1>5, <1>6 DEF Took, Outcome

-----------------------------------------------------------------------------
(* First in catalog order wins.                                            *)

FirstIn(es, id) == CHOOSE k \in 1..Len(es) :
                     es[k] = id /\ \A j \in 1..(k - 1) : es[j] # id

LEMMA FirstIs ==
  ASSUME NEW es, Len(es) \in Nat, NEW x,
         NEW k \in 1..Len(es), es[k] = x, \A j \in 1..(k - 1) : es[j] # x
  PROVE  FirstIn(es, x) = k
<1>1. \A i \in 1..Len(es) :
        es[i] = x /\ (\A j \in 1..(i - 1) : es[j] # x) => i = k
  <2>1. TAKE i \in 1..Len(es)
  <2>2. HAVE es[i] = x /\ \A j \in 1..(i - 1) : es[j] # x
  <2>3. ~(i < k) /\ ~(k < i)
    BY <2>2
  <2>. QED  BY <2>3
<1>. QED  BY <1>1 DEF FirstIn

\* What is met keeps its first position, the newcomer gets the last one.
LEMMA FirstTaken ==
  ASSUME Shape, FirstsExist, NEW id, Took(id)
  PROVE  /\ FirstsExist'
         /\ \A x \in snap.seen : First(x)' = First(x) /\ First(x) \in 1..Len(entries)
         /\ id \notin snap.seen \cup {NoId} => First(id)' = Len(entries) + 1
<1>1. /\ Len(entries) \in Nat /\ Len(entries') = Len(entries) + 1
      /\ \A k \in 1..Len(entries) : entries'[k] = entries[k]
      /\ entries'[Len(entries) + 1] = id
  BY EntryTaken
<1>2. ASSUME NEW x \in snap.seen
      PROVE  /\ First(x)' = First(x) /\ First(x) \in 1..Len(entries)
             /\ \E k \in 1..Len(entries') : entries'[k] = x /\ \A j \in 1..(k - 1) : entries'[j] # x
  <2>1. PICK k \in 1..Len(entries) : entries[k] = x /\ \A j \in 1..(k - 1) : entries[j] # x
    BY DEF FirstsExist
  <2>2. k \in 1..Len(entries') /\ entries'[k] = x /\ \A j \in 1..(k - 1) : entries'[j] # x
    BY <1>1, <2>1
  <2>3. FirstIn(entries, x) = k /\ FirstIn(entries', x) = k
    BY <1>1, <2>1, <2>2, FirstIs
  <2>. QED  BY <2>2, <2>3 DEF FirstIn, First
<1>3. ASSUME id \notin snap.seen \cup {NoId}
      PROVE  /\ First(id)' = Len(entries) + 1
             /\ \E k \in 1..Len(entries') : entries'[k] = id /\ \A j \in 1..(k - 1) : entries'[j] # id
  <2>1. \A j \in 1..Len(entries) : entries[j] # id
    BY <1>3 DEF Shape
  <2>2. /\ Len(entries) + 1 \in 1..Len(entries') /\ entries'[Len(entries) + 1] = id
        /\ \A j \in 1..((Len(entries) + 1) - 1) : entries'[j] # id
    BY <1>1, <2>1
  <2>3. FirstIn(entries', id) = Len(entries) + 1
    BY <1>1, <2>2, FirstIs
  <2>. QED  BY <2>2, <2>3 DEF FirstIn, First
<1>4. snap'.seen \subseteq snap.seen \cup ({id} \ {NoId})
  BY NoIdIsNoId DEF Took, Outcome, Repeated, Unnamed, Refused, Accepted, Shape
<1>. QED  BY <1>2, <1>3, <1>4 DEF FirstsExist

FirstWins ==
  \A x \in snap.seen :
    x \in Routable <=>
      /\ Eligible(x)
      /\ \A other \in Routable : First(other) < First(x) => ~Clash(x, other)

LEMMA FirstWinsIsIt ==
  ASSUME Shape
  PROVE  FirstInCatalogOrderWins <=> FirstWins
BY DEF Shape, FirstInCatalogOrderWins, FirstWins, Routable

\* The keys of the routable models are the keys of the index.
LEMMA ClashIsTaken ==
  ASSUME Shape, IndexNames, Distinct, NEW id
  PROVE  /\ \A k \in {id, PublicID(cfg, id)} :
              k \in DOMAIN snap.index => \E other \in Routable : Clash(id, other)
         /\ \A other \in Routable :
              Clash(id, other) => {id, PublicID(cfg, id)} \cap DOMAIN snap.index # {}
<1>1. \A m \in Listed : /\ m.public = PublicID(cfg, m.upstream)
                       /\ KeysOf(m) = {m.upstream, PublicID(cfg, m.upstream)}
                       /\ m.upstream \in Routable
  <2>1. \A m \in Listed : m \in Records
    BY DEF Listed, Shape
  <2>. QED  BY <2>1 DEF Records, Routable, KeysOf
<1>2. ASSUME NEW key \in {id, PublicID(cfg, id)}, key \in DOMAIN snap.index
      PROVE  \E other \in Routable : Clash(id, other)
  <2>1. snap.index[key] \in Listed /\ key \in KeysOf(snap.index[key])
    BY <1>2 DEF IndexNames
  <2>. QED  BY <1>1, <1>2, <2>1 DEF Clash
<1>3. ASSUME NEW other \in Routable, Clash(id, other)
      PROVE  {id, PublicID(cfg, id)} \cap DOMAIN snap.index # {}
  <2>1. PICK m \in Listed : m.upstream = other
    BY DEF Routable
  <2>2. KeysOf(m) \subseteq DOMAIN snap.index
    BY DEF IndexNames
  <2>. QED  BY <1>1, <1>3, <2>1, <2>2 DEF Clash
<1>. QED  BY <1>2, <1>3

LEMMA FirstWinsKept ==
  ASSUME Shape, IndexNames, Distinct, FirstsExist, FirstWins, NEW id, Took(id)
  PROVE  FirstWins'
<1>1. /\ \A x \in snap.seen : First(x)' = First(x) /\ First(x) \in 1..Len(entries)
      /\ id \notin snap.seen \cup {NoId} => First(id)' = Len(entries) + 1
      /\ Len(entries) \in Nat
      /\ Routable \subseteq snap.seen /\ NoId \notin snap.seen
  BY FirstTaken, EntryTaken DEF Distinct, Shape
<1>2. \A x, y : Eligible(x)' = Eligible(x) /\ Clash(x, y)' = Clash(x, y)
  BY DEF Took, Eligible, Clash, PublicID
<1>3. CASE Repeated(id) \/ Unnamed(id)
  <2>1. Routable' = Routable /\ snap'.seen = snap.seen
    BY <1>3, ListKept DEF Repeated, Unnamed
  <2>. QED  BY <1>1, <1>2, <2>1 DEF FirstWins
<1>4. ASSUME NEW reason, Refused(id, reason)
      PROVE  FirstWins'
  <2>1. /\ Routable' = Routable /\ snap'.seen = snap.seen \cup {id}
        /\ id \notin snap.seen \cup {NoId} /\ id \notin Routable
    BY <1>1, <1>4, ListKept, NoIdIsNoId DEF Refused
  <2>2. \/ ~Eligible(id)
        \/ \E other \in Routable : Clash(id, other)
    BY <1>4, ClashIsTaken DEF Refused, Ineligible, Collided
  <2>3. \A other \in Routable : First(other)' < First(id)'
    BY <1>1, <2>1
  <2>. QED  BY <1>1, <1>2, <2>1, <2>2, <2>3 DEF FirstWins
<1>5. ASSUME NEW rec \in Records, Accepted(id, rec)
      PROVE  FirstWins'
  <2>1. /\ Routable' = Routable \cup {id} /\ snap'.seen = snap.seen \cup {id}
        /\ id \notin snap.seen \cup {NoId} /\ Eligible(id)
    BY <1>1, <1>5, ListGrows, NoIdIsNoId DEF Accepted
  <2>2. \A other \in Routable : ~Clash(id, other)
    BY <1>5, ClashIsTaken DEF Accepted, Added, KeysOf
  <2>3. \A x \in snap.seen : First(x)' < First(id)' /\ First(x)' \in Nat /\ First(id)' \in Nat
    BY <1>1, <2>1
  <2>4. \A other \in Routable' : First(other)' < First(id)' => ~Clash(id, other)'
    BY <1>1, <1>2, <2>1, <2>2, <2>3
  <2>5. ASSUME NEW x \in snap.seen
        PROVE  x \in Routable' <=>
                 /\ Eligible(x)'
                 /\ \A other \in Routable' : First(other)' < First(x)' => ~Clash(x, other)'
    BY <1>1, <1>2, <2>1, <2>3 DEF FirstWins
  <2>. QED  BY <1>2, <2>1, <2>4, <2>5 DEF FirstWins
<1>. QED  BY <1>3, <1>4, <1>5 DEF Took, Outcome

-----------------------------------------------------------------------------
(* The invariant holds, and the properties follow.                         *)

LEMMA InitIndInv == Init => IndInv
<1>. SUFFICES ASSUME Init PROVE IndInv
  OBVIOUS
<1>1. /\ cfg \in Configs /\ entries = <<>> /\ snap.models = <<>> /\ snap.index = <<>>
      /\ snap.seen = {} /\ snap.unsup = {} /\ snap.warns = {}
  BY DEF Init, EmptySnapshot
<1>2. Fields
  BY DEF Init, EmptySnapshot, Fields
<1>3. Listed = {} /\ Routable = {}
  BY <1>1 DEF Listed, Routable
<1>4. Shape
  BY <1>1, <1>2 DEF Shape
<1>5. FirstWins
  BY <1>1 DEF FirstWins
<1>. QED
  BY <1>1, <1>3, <1>4, <1>5, FirstWinsIsIt
     DEF IndInv, IndexNames, Distinct, Excluding, RepetitionsWarned, FirstsExist,
         CollisionsAreReal

LEMMA NextIndInv == IndInv /\ [Next]_vars => IndInv'
<1>. SUFFICES ASSUME IndInv, [Next]_vars PROVE IndInv'
  OBVIOUS
<1>1. CASE NextEntry
  <2>1. PICK id : Took(id)
    BY <1>1, StepOutcome DEF IndInv
  <2>2. Shape /\ Shape'
    BY <2>1, ShapeKept DEF IndInv
  <2>3. FirstWins'
    BY <2>1, FirstWinsIsIt, FirstWinsKept DEF IndInv
  <2>4. FirstInCatalogOrderWins'
    BY <2>2, <2>3, FirstWinsIsIt, PTL
  <2>. QED
    BY <2>1, <2>2, <2>4, IndexNamesKept, DistinctKept, ExcludingKept, RepetitionsKept,
       FirstTaken, CollisionsKept DEF IndInv
<1>2. CASE UNCHANGED vars
  <2>1. cfg' = cfg /\ entries' = entries /\ snap' = snap
    BY <1>2 DEF vars
  <2>2. Listed' = Listed /\ Routable' = Routable
    BY <2>1 DEF Listed, Routable
  <2>3. Shape'
    BY <2>1 DEF IndInv, Shape, Fields, Records, PublicID
  <2>4. IndexNames' /\ CollisionsAreReal'
    BY <2>1, <2>2 DEF IndInv, IndexNames, CollisionsAreReal, KeysOf
  <2>5. Distinct' /\ Excluding' /\ RepetitionsWarned' /\ FirstsExist'
    BY <2>1, <2>2 DEF IndInv, Distinct, Excluding, RepetitionsWarned, FirstsExist
  <2>6. FirstInCatalogOrderWins'
    BY <2>1, <2>2 DEF IndInv, FirstInCatalogOrderWins, First, Eligible, Clash, PublicID
  <2>. QED  BY <2>3, <2>4, <2>5, <2>6 DEF IndInv
<1>. QED  BY <1>1, <1>2 DEF Next

LEMMA AlwaysIndInv == Spec => []IndInv
BY InitIndInv, NextIndInv, PTL DEF Spec

\* Nothing is misrouted, for any configuration and any list of the upstream: a key
\* of the index leads to a routable model that has it, and back.
THEOREM IndexIsRight == Spec => []IndexNames
<1>1. IndInv => IndexNames
  BY DEF IndInv
<1>. QED  BY <1>1, AlwaysIndInv, PTL

\* Which of two clashing models is routed depends on the order of the catalog
\* alone, however long the list and whatever overrides there are.
THEOREM FirstWinsAlways == Spec => []FirstInCatalogOrderWins
<1>1. IndInv => FirstInCatalogOrderWins
  BY DEF IndInv
<1>. QED  BY <1>1, AlwaysIndInv, PTL

\* Every collision message names an id that two models share.
THEOREM CollisionsNamed == Spec => []CollisionsAreReal
<1>1. IndInv => CollisionsAreReal
  BY DEF IndInv
<1>. QED  BY <1>1, AlwaysIndInv, PTL

\* Each model is listed once and no listed id is dropped without a diagnostic.
THEOREM NothingLost == Spec => []NothingVanishes
<1>1. ASSUME IndInv PROVE NothingVanishes
  <2>1. \A k \in 1..Len(entries) :
          /\ (entries[k] \in Routable) # (\E u \in snap.unsup : u[1] = entries[k])
          /\ Cardinality({u \in snap.unsup : u[1] = entries[k]}) <= 1
          /\ (\E j \in 1..(k - 1) : entries[j] = entries[k]) /\ entries[k] # NoId
               => <<entries[k], <<"duplicate">>>> \in snap.warns
    <3>1. TAKE k \in 1..Len(entries)
    <3>2. entries[k] \in snap.seen \/ entries[k] = NoId
      BY <1>1 DEF IndInv, Shape
    <3>3. NoId \notin Routable
      BY <1>1 DEF IndInv, Shape, Distinct
    <3>4. (entries[k] \in Routable) # (\E u \in snap.unsup : u[1] = entries[k])
      BY <1>1, <3>2, <3>3 DEF IndInv, Excluding
    <3>5. Cardinality({u \in snap.unsup : u[1] = entries[k]}) <= 1
      <4>. DEFINE D == {u \in snap.unsup : u[1] = entries[k]}
      <4>1. ASSUME D # {} PROVE \E u : D = {u}
        <5>1. PICK u : u \in D
          BY <4>1
        <5>2. \A v \in D : v = u
          BY <1>1, <5>1 DEF IndInv, Excluding
        <5>3. D = {u}
          BY <5>1, <5>2
        <5>. QED  BY <5>3
      <4>. HIDE DEF D
      <4>2. Cardinality(D) = 0 \/ Cardinality(D) = 1
        BY <4>1, FS_EmptySet, FS_Singleton
      <4>. QED  BY <4>2 DEF D
    <3>6. (\E j \in 1..(k - 1) : entries[j] = entries[k]) /\ entries[k] # NoId
             => <<entries[k], <<"duplicate">>>> \in snap.warns
      BY <1>1 DEF IndInv, RepetitionsWarned, Shape
    <3>. QED  BY <3>4, <3>5, <3>6
  <2>2. Cardinality(Routable) = Len(snap.models)
    <3>. DEFINE n == Len(snap.models)
                f == [k \in 1..n |-> snap.models[k].upstream]
    <3>1. n \in Nat
      BY <1>1 DEF IndInv, Shape
    <3>2. /\ \A i, j \in 1..n : f[i] = f[j] => i = j
          /\ \A x \in Routable : \E k \in 1..n : f[k] = x
          /\ f \in [1..n -> Routable]
      BY <1>1 DEF IndInv, Distinct, Routable, Listed
    <3>. HIDE DEF n, f
    <3>3. f \in Bijection(1..n, Routable)
      BY <3>2 DEF Bijection, Injection, Surjection, IsInjective
    <3>. QED  BY <3>1, <3>3, FS_CountingElements DEF ExistsBijection, n
  <2>. QED  BY <2>1, <2>2 DEF NothingVanishes, Routable
<1>. QED  BY <1>1, AlwaysIndInv, PTL

\* What an id resolves to after some prefix of the list is final.
THEOREM KeysStay == Spec => KeysNeverMove
<1>. DEFINE Stays == \A k \in DOMAIN snap.index :
                       k \in DOMAIN snap'.index /\ snap'.index[k] = snap.index[k]
<1>1. IndInv /\ [Next]_vars => [Stays]_vars
  <2>. SUFFICES ASSUME IndInv, NextEntry PROVE Stays
    BY DEF Next
  <2>1. PICK id : Took(id)
    BY StepOutcome DEF IndInv
  <2>2. CASE Passed
    BY <2>2 DEF Passed
  <2>3. ASSUME NEW rec \in Records, Accepted(id, rec)
        PROVE  Stays
    BY <2>3 DEF Accepted, Added
  <2>. QED  BY <2>1, <2>2, <2>3 DEF Took, Outcome, Repeated, Unnamed, Refused
<1>. QED  BY <1>1, AlwaysIndInv, PTL DEF Spec, KeysNeverMove

-----------------------------------------------------------------------------
(* The state machine is swap.                                              *)

SnapshotBuilt ==
  /\ entries \in Entries
  /\ snap = Build(cfg, entries)

\* In every state the snapshot is what swap as a whole makes of the entries so far,
\* so that the theorems above hold of Build, and of every manager of Lifecycle, for
\* every list.
THEOREM SwapIsBuild == Spec => []SnapshotBuilt
<1>1. Init => SnapshotBuilt
  BY BuildOfNothing DEF Init, SnapshotBuilt, Entries
<1>2. SnapshotBuilt /\ [Next]_vars => SnapshotBuilt'
  <2>1. ASSUME SnapshotBuilt, NextEntry
        PROVE  SnapshotBuilt'
    <3>1. PICK id \in Ids \cup {NoId} :
            /\ entries' = Append(entries, id)
            /\ snap' = TakeEntry(cfg, snap, id)
            /\ cfg' = cfg
      BY <2>1 DEF NextEntry
    <3>2. entries \in Entries /\ entries' \in Entries
      BY <2>1, <3>1 DEF SnapshotBuilt, Entries
    <3>3. Build(cfg, Append(entries, id)) = TakeEntry(cfg, Build(cfg, entries), id)
      BY <3>2, BuildOfMore DEF Entries
    <3>4. QED
      BY <2>1, <3>1, <3>2, <3>3 DEF SnapshotBuilt
  <2>2. CASE UNCHANGED vars
    BY <2>2 DEF vars, SnapshotBuilt
  <2>3. QED
    BY <2>1, <2>2 DEF Next
<1>3. QED
  BY <1>1, <1>2, PTL DEF Spec
=============================================================================
