------------------------------ MODULE CatalogSwap ------------------------------
(***************************************************************************)
(* The loop of Manager.swap as a state machine: the upstream may list any  *)
(* entries in any order, with missing and repeated ids, and the snapshot   *)
(* after every prefix of the list is one swap may install.                 *)
(***************************************************************************)
EXTENDS Catalog, FiniteSets

CONSTANT MaxEntries     \* bound on the length of the upstream list

VARIABLES
  cfg,         \* the configuration of the manager
  entries,     \* the entries taken so far
  snap         \* the snapshot built from them

vars == <<cfg, entries, snap>>

Init ==
  /\ cfg \in Configs
  /\ entries = <<>>
  /\ snap = EmptySnapshot

\* The next entry of the decoded list.
NextEntry ==
  /\ Len(entries) < MaxEntries
  /\ \E id \in Ids \cup {NoId} :
       /\ entries' = Append(entries, id)
       /\ snap' = TakeEntry(cfg, snap, id)
  /\ UNCHANGED cfg

Next == NextEntry

Spec == Init /\ [][Next]_vars

-----------------------------------------------------------------------------
(* Properties.                                                             *)

Listed == {snap.models[k] : k \in 1..Len(snap.models)}
KeysOf(m) == {m.public, m.upstream}

\* Nothing is misrouted: every key of the index leads to a model it names, and
\* every model handed to clients is found under its public and its upstream id.
IndexNames ==
  /\ \A k \in DOMAIN snap.index : snap.index[k] \in Listed /\ k \in KeysOf(snap.index[k])
  /\ \A m \in Listed : \A k \in KeysOf(m) :
       k \in DOMAIN snap.index /\ snap.index[k] = m

\* Position of the first occurrence of a listed id.
First(id) == CHOOSE k \in 1..Len(entries) :
               entries[k] = id /\ \A j \in 1..(k - 1) : entries[j] # id

\* What the documentation asks of one id by itself: a user override decides the
\* route, else its family; the protocol is on; the endpoint stays on the upstream.
Eligible(id) ==
  IF id \in DOMAIN cfg.overrides
  THEN cfg.overrides[id].route \in cfg.enabled /\ ~cfg.overrides[id].escapes
  ELSE Family[id] \in cfg.enabled

Clash(a, b) == {a, PublicID(cfg, a)} \cap {b, PublicID(cfg, b)} # {}

\* The routable models are exactly the eligible ids that clash with no routable
\* model met earlier in the catalog ("first in catalog order wins").
FirstInCatalogOrderWins ==
  LET routable == {m.upstream : m \in Listed}
      seen == {entries[k] : k \in 1..Len(entries)} \ {NoId} IN
  \A id \in seen :
    id \in routable <=>
      /\ Eligible(id)
      /\ \A other \in routable : First(other) < First(id) => ~Clash(id, other)

\* No discovered model disappears without a diagnostic: every id met is routable
\* or excluded, never both, excluded for one reason, and a repetition is warned of.
NothingVanishes ==
  LET routable == {m.upstream : m \in Listed} IN
  /\ \A k \in 1..Len(entries) :
       LET id == entries[k] IN
       /\ (id \in routable) # (\E u \in snap.unsup : u[1] = id)
       /\ Cardinality({u \in snap.unsup : u[1] = id}) <= 1
       /\ (\E j \in 1..(k - 1) : entries[j] = id) /\ id # NoId
            => <<id, <<"duplicate">>>> \in snap.warns
  /\ Cardinality(routable) = Len(snap.models)

\* Every message "public id P collides with upstream id U" is true: P is U, P is the
\* public and U the upstream id of two different models.
CollisionsAreReal ==
  \A u \in snap.unsup :
    u[2][1] = "collision" =>
      /\ u[2][2] = u[2][3]
      /\ \E m \in Listed : m.upstream # u[1] /\ u[2][2] \in KeysOf(m)

\* A later entry never takes a key over: what an id resolves to in one prefix of
\* the catalog is what it resolves to in every longer one.
KeysNeverMove ==
  [][\A k \in DOMAIN snap.index :
       k \in DOMAIN snap'.index /\ snap'.index[k] = snap.index[k]]_vars
=============================================================================
