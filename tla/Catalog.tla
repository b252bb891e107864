-------------------------------- MODULE Catalog --------------------------------
(***************************************************************************)
(* internal/catalog/catalog.go, Manager.swap: from the entries of an       *)
(* upstream /v1/models answer and a configuration to a snapshot: the       *)
(* routable models, the index that Lookup reads, and the diagnostics.      *)
(*                                                                         *)
(* A model id is the sequence of its segments, so that a prefix is put in  *)
(* front of it as "<prefix>/" is; the missing id is the empty sequence.    *)
(* Names, limits, modes and thinking metadata are copied by the code and   *)
(* left out.  Lists of diagnostics are sets.                               *)
(***************************************************************************)
EXTENDS Naturals, Sequences

CONSTANTS
  Prefix,         \* segment of model-prefix.value
  Ids,            \* upstream model ids
  Routes,         \* upstream protocols
  NoRoute,        \* no family prefix matches
  Family,         \* Family[id]: route of the built-in family table, or NoRoute
  Configs         \* configurations: [prefixed, enabled, overrides, ...]

NoId == <<>>

\* An override names a protocol and an endpoint; of the endpoint it matters
\* whether the URL it makes leaves the configured upstream.
CatalogAssumption ==
  /\ Ids \subseteq Seq(STRING) \ {NoId}
  /\ NoRoute \notin Routes
  /\ Family \in [Ids -> Routes \cup {NoRoute}]
  /\ \A c \in Configs :
       /\ c.prefixed \in BOOLEAN
       /\ c.enabled \in SUBSET Routes
       /\ DOMAIN c.overrides \subseteq Ids
       /\ \A id \in DOMAIN c.overrides :
            /\ c.overrides[id].route \in Routes
            /\ c.overrides[id].escapes \in BOOLEAN
ASSUME CatalogAssumption

\* config.PublicID: the id clients see.
PublicID(c, id) == IF c.prefixed THEN <<Prefix>> \o id ELSE id

\* Fault: the family table goes before the user's override.
ResolveFamilyFirst(c, id) ==
  IF Family[id] # NoRoute \/ id \notin DOMAIN c.overrides
  THEN [route |-> Family[id], escapes |-> FALSE]
  ELSE c.overrides[id]

\* Manager.resolve: override, then family, then none.
Resolve(c, id) ==
  IF id \in DOMAIN c.overrides
  THEN c.overrides[id]
  ELSE [route |-> Family[id], escapes |-> FALSE]

-----------------------------------------------------------------------------
(* Snapshots.                                                              *)

\* What Manager holds after a swap, with the ids swap has seen.
EmptySnapshot ==
  [seen |-> {}, models |-> <<>>, index |-> <<>>, unsup |-> {}, warns |-> {}]

Warned(s, id, reason) == [s EXCEPT !.warns = @ \cup {<<id, reason>>}]

\* The entry is not routable; the reason is kept for diagnostics.
Excluded(s, id, reason) == [s EXCEPT !.unsup = @ \cup {<<id, reason>>}]

\* A key clash: a warning and an exclusion that name the public and the upstream
\* id that clash.
Collides(s, id, public, upstream) ==
  LET reason == <<"collision", public, upstream>> IN
  Excluded(Warned(s, id, reason), id, reason)

\* Fault: the later model takes the keys over.
AddToOccupied(c, s, rec) ==
  [s EXCEPT !.models = Append(@, rec),
            !.index = [k \in DOMAIN s.index \cup {rec.public, rec.upstream} |->
                         IF k \in {rec.public, rec.upstream} THEN rec ELSE s.index[k]]]

\* Fault: the upstream key is forgotten.
AddKeyOnly(c, s, rec) ==
  [s EXCEPT !.models = Append(@, rec),
            !.index = [k \in DOMAIN @ \cup {rec.public} |->
                         IF k = rec.public THEN rec ELSE @[k]]]

\* Fault: only the public key is looked up.
AddPublicChecked(c, s, rec) ==
  IF rec.public \in DOMAIN s.index
  THEN Collides(s, rec.upstream, rec.public, s.index[rec.public].upstream)
  ELSE AddToOccupied(c, s, rec)

\* Fault: the message names the ids of the later model only.
AddMisnamed(c, s, rec) ==
  IF {rec.public, rec.upstream} \cap DOMAIN s.index # {}
  THEN Collides(s, rec.upstream, rec.public, rec.upstream)
  ELSE AddToOccupied(c, s, rec)

\* A routable record goes under both of its keys unless a key is taken.
AddRecord(c, s, rec) ==
  CASE rec.public \in DOMAIN s.index ->
         Collides(s, rec.upstream, rec.public, s.index[rec.public].upstream)
    [] rec.public \notin DOMAIN s.index /\ rec.upstream \in DOMAIN s.index ->
         Collides(s, rec.upstream, s.index[rec.upstream].public, rec.upstream)
    [] OTHER ->
         [s EXCEPT
            !.models = Append(@, rec),
            !.index = [k \in DOMAIN @ \cup {rec.public, rec.upstream} |->
                         IF k \in {rec.public, rec.upstream} THEN rec ELSE @[k]]]

\* The first occurrence of an id: route, protocol flag, endpoint, then the keys.
Consider(c, s, id) ==
  LET r == Resolve(c, id)
      w == IF id \in DOMAIN c.overrides THEN Warned(s, id, <<"override">>) ELSE s IN
  CASE r.route = NoRoute -> Excluded(w, id, <<"no route">>)
    [] r.route \notin {NoRoute} \cup c.enabled -> Excluded(w, id, <<"disabled">>)
    [] r.route \in c.enabled /\ r.escapes -> Excluded(w, id, <<"escapes">>)
    [] OTHER -> AddRecord(c, w, [public |-> PublicID(c, id), upstream |-> id,
                                 route |-> r.route])

\* Fault: an id counts as seen once it is routable.
TakeEntrySeenLate(c, s, id) ==
  CASE id = NoId -> Excluded(s, id, <<"missing id">>)
    [] id \in s.seen -> Warned(s, id, <<"duplicate">>)
    [] OTHER -> LET t == Consider(c, s, id) IN
                [t EXCEPT !.seen = IF t.models # s.models THEN @ \cup {id} ELSE @]

\* One round of the loop of swap.
TakeEntry(c, s, id) ==
  CASE id = NoId -> Excluded(s, id, <<"missing id">>)
    [] id # NoId /\ id \in s.seen -> Warned(s, id, <<"duplicate">>)
    [] OTHER -> Consider(c, [s EXCEPT !.seen = @ \cup {id}], id)

\* swap as a whole: the entries in catalog order.
Build(c, entries) ==
  LET after[n \in 0..Len(entries)] ==
        IF n = 0 THEN EmptySnapshot ELSE TakeEntry(c, after[n - 1], entries[n])
  IN after[Len(entries)]
=============================================================================
