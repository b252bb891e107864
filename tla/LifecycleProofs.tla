---------------------------- MODULE LifecycleProofs ----------------------------
(***************************************************************************)
(* Proofs, for any set of callers, heap of managers, configurations and    *)
(* upstream catalogs, of the invariants of Lifecycle that do not depend on *)
(* what Build computes.                                                    *)
(***************************************************************************)
EXTENDS Lifecycle, CatalogProofs

\* A catalog manager is a record with the fields of Blank.
IsManager(m) == DOMAIN m = {"cfg", "raw", "models", "fresh", "loop", "stop"}

Heap ==
  /\ DOMAIN heap = Slots
  /\ \A g \in Slots : IsManager(heap[g])

\* The lifecycle call of p is past lifeMu.Lock.
Busy(p) == pc[p] \notin {"idle", "locking"}

\* p has a catalog manager that is not served yet.
Building(p) ==
  pc[p] \in {"refresh", "install"} \/ (pc[p] \in {"stop", "join"} /\ arg[p] # NoCfg)

Locals ==
  /\ \A p \in Callers : pc[p] = "auth" => arg[p] \in Configs
  /\ \A p \in Callers : Building(p) =>
       /\ mine[p] \in Slots /\ arg[p] \in Configs
       /\ heap[mine[p]].cfg = arg[p] /\ mine[p] # served

Mutex == \A p \in Callers : Busy(p) <=> lifeMu = p

\* The loop somebody waits for is the one of the manager served; once a caller is
\* past the wait there is no loop.
Waiting4Loop ==
  /\ \A p \in Callers : pc[p] = "join" =>
       old[p] = served /\ served \in Slots /\ current = NoSlot
  /\ \A p \in Callers : pc[p] \in {"install", "drain", "clear"} =>
       current = NoSlot /\ \A g \in Slots : ~Live(g)

\* The fail-closed policy holds in every manager, served or not.
Closed ==
  \A g \in Slots :
    heap[g].models # <<>> => heap[g].fresh \/ heap[g].cfg.stale

IndInv == TypeOK /\ Heap /\ Locals /\ Mutex /\ LoopOwned /\ Waiting4Loop /\ Closed

-----------------------------------------------------------------------------
(* The operations on one manager.                                          *)

LEMMA SwappedManager ==
  ASSUME NEW m, NEW list, IsManager(m)
  PROVE  LET r == Swapped(m, list) IN
         /\ IsManager(r)
         /\ r.cfg = m.cfg /\ r.raw = list /\ r.fresh = m.fresh
         /\ r.loop = m.loop /\ r.stop = m.stop
BY DEF IsManager, Swapped

LEMMA RefreshedManager ==
  ASSUME NEW m, NEW list, IsManager(m)
  PROVE  LET r == Refreshed(m, list) IN
         /\ IsManager(r)
         /\ r.cfg = m.cfg /\ r.raw = list /\ r.fresh = TRUE
         /\ r.loop = m.loop /\ r.stop = m.stop
<1> DEFINE s == Swapped(m, list)
<1>1. /\ IsManager(s) /\ s.cfg = m.cfg /\ s.raw = list
      /\ s.loop = m.loop /\ s.stop = m.stop
  BY SwappedManager
<1>2. Refreshed(m, list) = [s EXCEPT !.fresh = TRUE]
  BY DEF Refreshed
<1> HIDE DEF s
<1>3. QED
  BY <1>1, <1>2 DEF IsManager

LEMMA FailedManager ==
  ASSUME NEW m, IsManager(m)
  PROVE  LET r == Fail(m) IN
         /\ IsManager(r)
         /\ r.cfg = m.cfg /\ r.raw \in {m.raw, <<>>} /\ r.fresh = FALSE
         /\ r.loop = m.loop /\ r.stop = m.stop
         /\ ~m.cfg.stale => r.models = <<>>
BY DEF IsManager, Fail

LEMMA BlankManager ==
  /\ IsManager(Blank)
  /\ Blank.cfg = NoCfg /\ Blank.raw = <<>> /\ Blank.models = <<>>
  /\ Blank.fresh = FALSE /\ Blank.loop = "none" /\ Blank.stop = FALSE
  /\ \A c : /\ IsManager(ManagerOf(c))
           /\ ManagerOf(c).cfg = c /\ ManagerOf(c).raw = <<>> /\ ManagerOf(c).models = <<>>
           /\ ManagerOf(c).fresh = FALSE /\ ManagerOf(c).loop = "none"
           /\ ManagerOf(c).stop = FALSE
BY DEF IsManager, Blank, ManagerOf

-----------------------------------------------------------------------------
(* The initial states, and the steps of a caller.                          *)

\* What the assumption says of the values that stand for nothing.
LEMMA Distinct == NoSlot \notin Slots /\ NoCfg \notin Configs /\ NoCaller \notin Callers
BY LifecycleAssumption DEF LifecycleAssumption

LEMMA InitIndInv == Init => IndInv
<1> SUFFICES ASSUME Init PROVE IndInv
  OBVIOUS
<1>1. TypeOK
  BY BlankManager DEF Init, TypeOK
<1>2. Heap /\ Closed
  BY BlankManager, Distinct DEF Init, Heap, Closed
<1>3. Locals /\ Mutex
  BY Distinct DEF Init, Locals, Mutex, Building, Busy
<1>4. LoopOwned /\ Waiting4Loop
  BY BlankManager DEF Init, LoopOwned, Waiting4Loop, Live
<1>5. QED
  BY <1>1, <1>2, <1>3, <1>4 DEF IndInv

LEMMA CallKeeps ==
  ASSUME IndInv, NEW p \in Callers, Call(p)
  PROVE  IndInv'
<1>1. TypeOK'
  BY DEF IndInv, TypeOK, Call, Goto
<1>2. Heap' /\ Closed'
  BY DEF IndInv, Heap, Closed, Call
<1>3. Locals' /\ Mutex'
  BY DEF IndInv, TypeOK, Locals, Mutex, Building, Busy, Call, Goto
<1>4. LoopOwned' /\ Waiting4Loop'
  BY DEF IndInv, TypeOK, LoopOwned, Waiting4Loop, Live, Call, Goto
<1>5. QED
  BY <1>1, <1>2, <1>3, <1>4 DEF IndInv

LEMMA LockKeeps ==
  ASSUME IndInv, NEW p \in Callers, Lock(p)
  PROVE  IndInv'
<1>1. TypeOK'
  BY DEF IndInv, TypeOK, Lock, Goto, local
<1>2. Heap' /\ Closed'
  BY DEF IndInv, Heap, Closed, Lock
<1>3. Locals' /\ Mutex'
  BY Distinct
  DEF IndInv, TypeOK, Locals, Mutex, Building, Busy, Lock, Goto, local
<1>4. LoopOwned' /\ Waiting4Loop'
  BY DEF IndInv, TypeOK, LoopOwned, Waiting4Loop, Live, Lock, Goto, local
<1>5. QED
  BY <1>1, <1>2, <1>3, <1>4 DEF IndInv

LEMMA AuthFailsKeeps ==
  ASSUME IndInv, NEW p \in Callers, AuthFails(p)
  PROVE  IndInv'
<1>1. TypeOK'
  BY DEF IndInv, TypeOK, AuthFails, Return, Goto
<1>2. Heap' /\ Closed'
  BY DEF IndInv, Heap, Closed, AuthFails
<1>3. Locals' /\ Mutex'
  BY Distinct
  DEF IndInv, TypeOK, Locals, Mutex, Building, Busy, AuthFails, Return, Goto
<1>4. LoopOwned' /\ Waiting4Loop'
  BY DEF IndInv, TypeOK, LoopOwned, Waiting4Loop, Live, AuthFails, Return, Goto
<1>5. QED
  BY <1>1, <1>2, <1>3, <1>4 DEF IndInv

LEMMA DrainKeeps ==
  ASSUME IndInv, NEW p \in Callers, Drain(p)
  PROVE  IndInv'
<1>1. TypeOK'
  BY DEF IndInv, TypeOK, Drain, Goto, local
<1>2. Heap' /\ Closed'
  BY DEF IndInv, Heap, Closed, Drain
<1>3. Locals' /\ Mutex'
  BY DEF IndInv, TypeOK, Locals, Mutex, Building, Busy, Drain, Goto, local
<1>4. LoopOwned' /\ Waiting4Loop'
  BY DEF IndInv, TypeOK, LoopOwned, Waiting4Loop, Live, Drain, Goto, local
<1>5. QED
  BY <1>1, <1>2, <1>3, <1>4 DEF IndInv

\* The new manager goes to a free slot, which is nobody's and has no loop.
LEMMA AuthSavedKeeps ==
  ASSUME IndInv, NEW p \in Callers, AuthSaved(p)
  PROVE  IndInv'
<1>1. PICK g \in Free : /\ mine' = [mine EXCEPT ![p] = g]
                        /\ heap' = [heap EXCEPT ![g] = ManagerOf(arg[p])]
  BY DEF AuthSaved
<1>2. /\ g \in Slots /\ g # served /\ g # current /\ ~Live(g)
      /\ \A q \in Callers : mine[q] # g /\ old[q] # g
  BY DEF Free
<1>3. arg[p] \in Configs /\ pc[p] = "auth"
  BY DEF AuthSaved, IndInv, Locals
<1> DEFINE m == ManagerOf(arg[p])
<1>4. /\ DOMAIN heap' = Slots
      /\ \A h \in Slots : heap'[h] = IF h = g THEN m ELSE heap[h]
  BY <1>1, <1>2 DEF IndInv, Heap
<1>5. /\ IsManager(m) /\ m.cfg = arg[p] /\ m.models = <<>> /\ m.raw = <<>> /\ m.fresh = FALSE
      /\ m.loop = "none" /\ m.stop = FALSE
  BY BlankManager
<1>6. /\ pc' = [pc EXCEPT ![p] = "refresh"]
      /\ UNCHANGED <<lifeMu, arg, failed, old, served, cfg, current, lastGood>>
  BY DEF AuthSaved, Goto
<1> HIDE DEF m
<1>7. TypeOK'
  <2>1. /\ \A h \in Slots :
             /\ heap'[h].cfg \in Configs \cup {NoCfg}
             /\ heap'[h].raw \in Catalogs \cup {<<>>}
             /\ heap'[h].fresh \in BOOLEAN /\ heap'[h].stop \in BOOLEAN
             /\ heap'[h].loop \in {"none", "waiting", "fetching", "gone"}
    BY <1>3, <1>4, <1>5 DEF IndInv, TypeOK
  <2>2. cfg' = IF served' = NoSlot THEN NoCfg ELSE heap'[served'].cfg
    BY <1>2, <1>4, <1>6 DEF IndInv, TypeOK
  <2>3. pc' \in [Callers -> {"idle", "locking", "auth", "refresh", "stop", "join",
                             "install", "drain", "clear"}]
    BY <1>6 DEF IndInv, TypeOK
  <2>4. mine' \in [Callers -> Slots \cup {NoSlot}]
    BY <1>1, <1>2 DEF IndInv, TypeOK
  <2>5. QED
    BY <1>6, <2>1, <2>2, <2>3, <2>4 DEF IndInv, TypeOK
<1>8. Heap' /\ Closed'
  BY <1>4, <1>5 DEF IndInv, Heap, Closed
<1>9. Locals' /\ Mutex'
  <2>1. Mutex'
    BY <1>3, <1>6 DEF IndInv, TypeOK, Mutex, Busy
  <2>2. Locals'
    BY <1>1, <1>2, <1>3, <1>4, <1>5, <1>6 DEF IndInv, TypeOK, Locals, Building
  <2>3. QED
    BY <2>1, <2>2
<1>10. \A h \in Slots : Live(h)' => Live(h)
  BY <1>4, <1>5 DEF Live
<1>11. LoopOwned' /\ Waiting4Loop'
  BY <1>2, <1>4, <1>10 DEF IndInv, TypeOK, LoopOwned, Waiting4Loop, AuthSaved, Goto
<1>12. QED
  BY <1>7, <1>8, <1>9, <1>11 DEF IndInv

\* The refresh touches what the manager would serve, not its loop.
LEMMA FirstRefreshKeeps ==
  ASSUME IndInv, NEW p \in Callers, FirstRefresh(p)
  PROVE  IndInv'
<1> DEFINE g == mine[p]
<1>1. pc[p] = "refresh" /\ g \in Slots /\ arg[p] \in Configs /\ heap[g].cfg = arg[p]
  BY DEF FirstRefresh, IndInv, Locals, Building
<1>2. IsManager(heap[g])
  BY <1>1 DEF IndInv, Heap
<1>3. PICK m : /\ heap' = [heap EXCEPT ![g] = m]
               /\ \/ \E list \in Catalogs : m = Refreshed(heap[g], list)
                  \/ m = Fail(heap[g])
  BY DEF FirstRefresh
<1>4. /\ IsManager(m) /\ m.cfg = arg[p] /\ m.raw \in Catalogs \cup {<<>>}
      /\ m.fresh \in BOOLEAN /\ m.loop = heap[g].loop /\ m.stop = heap[g].stop
      /\ m.models # <<>> => m.fresh \/ m.cfg.stale
  <2>1. CASE \E list \in Catalogs : m = Refreshed(heap[g], list)
    <3>1. PICK list \in Catalogs : m = Refreshed(heap[g], list)
      BY <2>1
    <3>2. /\ IsManager(m) /\ m.cfg = heap[g].cfg /\ m.raw = list /\ m.fresh = TRUE
          /\ m.loop = heap[g].loop /\ m.stop = heap[g].stop
      BY <1>2, <3>1, RefreshedManager
    <3>3. QED
      BY <1>1, <3>2
  <2>2. CASE m = Fail(heap[g])
    <3>1. heap[g].raw \in Catalogs \cup {<<>>}
      BY <1>1 DEF IndInv, TypeOK
    <3>2. /\ IsManager(m) /\ m.cfg = heap[g].cfg /\ m.raw \in {heap[g].raw, <<>>}
          /\ m.fresh = FALSE /\ m.loop = heap[g].loop /\ m.stop = heap[g].stop
          /\ ~heap[g].cfg.stale => m.models = <<>>
      BY <1>2, <2>2, FailedManager
    <3>3. QED
      BY <1>1, <3>1, <3>2
  <2>3. QED
    BY <1>3, <2>1, <2>2
<1>5. /\ DOMAIN heap' = Slots
      /\ \A h \in Slots : heap'[h] = IF h = g THEN m ELSE heap[h]
  BY <1>1, <1>3 DEF IndInv, Heap
<1>6. served # g
  BY <1>1 DEF IndInv, Locals, Building
<1>7. /\ pc' = [pc EXCEPT ![p] = "stop"]
      /\ failed' \in [Callers -> BOOLEAN]
      /\ UNCHANGED <<lifeMu, arg, mine, old, served, cfg, current, lastGood>>
  BY DEF FirstRefresh, Goto, IndInv, TypeOK
<1> HIDE DEF g
<1>8. TypeOK'
  BY <1>1, <1>4, <1>5, <1>6, <1>7 DEF IndInv, TypeOK
<1>9. Heap' /\ Closed'
  BY <1>4, <1>5 DEF IndInv, Heap, Closed
<1>10. Locals' /\ Mutex'
  BY <1>1, <1>4, <1>5, <1>7 DEF IndInv, TypeOK, Locals, Mutex, Building, Busy
<1>11. \A h \in Slots : (Live(h)' <=> Live(h)) /\ heap'[h].stop = heap[h].stop
  BY <1>4, <1>5 DEF Live
<1>12. LoopOwned' /\ Waiting4Loop'
  BY <1>1, <1>7, <1>11 DEF IndInv, TypeOK, LoopOwned, Waiting4Loop
<1>13. QED
  BY <1>8, <1>9, <1>10, <1>12 DEF IndInv

\* Only the caller that holds lifeMu is past the lock: its loop, if any, is current.
LEMMA CloseStopKeeps ==
  ASSUME IndInv, NEW p \in Callers, CloseStop(p)
  PROVE  IndInv'
<1>1. pc[p] = "stop"
  BY DEF CloseStop
<1>2. /\ DOMAIN heap' = Slots
      /\ \A h \in Slots :
           /\ IsManager(heap'[h])
           /\ heap'[h].cfg = heap[h].cfg /\ heap'[h].raw = heap[h].raw
           /\ heap'[h].models = heap[h].models /\ heap'[h].fresh = heap[h].fresh
           /\ heap'[h].loop = heap[h].loop /\ heap'[h].stop \in BOOLEAN
  <2>1. /\ DOMAIN heap' = Slots
        /\ \A h \in Slots : heap'[h] = IF h = current THEN [heap[h] EXCEPT !.stop = TRUE]
                                       ELSE heap[h]
    BY DEF CloseStop
  <2>2. \A h \in Slots : IsManager(heap[h]) /\ heap[h].stop \in BOOLEAN
    BY DEF IndInv, Heap, TypeOK
  <2>3. QED
    BY <2>1, <2>2 DEF IsManager
<1>3. /\ pc' = [pc EXCEPT ![p] = IF current = NoSlot THEN AfterJoin(p) ELSE "join"]
      /\ old' = [old EXCEPT ![p] = current] /\ current' = NoSlot
      /\ UNCHANGED <<lifeMu, arg, mine, failed, served, cfg, lastGood>>
  BY DEF CloseStop, Goto
<1>4. TypeOK'
  BY <1>2, <1>3 DEF IndInv, TypeOK, AfterJoin
<1>5. Heap' /\ Closed'
  BY <1>2 DEF IndInv, Heap, Closed
<1>6. Locals' /\ Mutex'
  <2>1. Locals'
    BY <1>1, <1>2, <1>3 DEF IndInv, TypeOK, Locals, Building, AfterJoin
  <2>2. Mutex'
    BY <1>1, <1>3 DEF IndInv, TypeOK, Mutex, Busy, AfterJoin
  <2>3. QED
    BY <2>1, <2>2
<1>7. \A q \in Callers : q # p => pc[q] \in {"idle", "locking"}
  BY <1>1 DEF IndInv, Mutex, Busy
<1>8. \A h \in Slots : Live(h)' <=> Live(h)
  BY <1>2 DEF Live
<1>9. \A h \in Slots : Live(h) => h = current
  BY <1>1, <1>7 DEF IndInv, LoopOwned
<1>10. LoopOwned' /\ Waiting4Loop'
  <2>1. CASE current = NoSlot
    BY <1>1, <1>3, <1>7, <1>8, <1>9, <2>1, Distinct
    DEF IndInv, TypeOK, LoopOwned, Waiting4Loop, AfterJoin
  <2>2. CASE current # NoSlot
    <3>1. current = served /\ served \in Slots
      BY <2>2 DEF IndInv, TypeOK, LoopOwned
    <3>2. QED
      BY <1>1, <1>3, <1>7, <1>8, <1>9, <2>2, <3>1, Distinct
      DEF IndInv, TypeOK, LoopOwned, Waiting4Loop
  <2>3. QED
    BY <2>1, <2>2
<1>11. QED
  BY <1>4, <1>5, <1>6, <1>10 DEF IndInv

\* The loop waited for was the only one.
LEMMA JoinKeeps ==
  ASSUME IndInv, NEW p \in Callers, Join(p)
  PROVE  IndInv'
<1>1. pc[p] = "join" /\ ~Live(old[p]) /\ current = NoSlot
  BY DEF Join, Live, IndInv, Waiting4Loop
<1>2. /\ pc' = [pc EXCEPT ![p] = AfterJoin(p)]
      /\ UNCHANGED <<lifeMu, arg, mine, failed, old, heap, served, cfg, current, lastGood>>
  BY DEF Join, Goto, local
<1>3. TypeOK'
  BY <1>2 DEF IndInv, TypeOK, AfterJoin
<1>4. Heap' /\ Closed'
  BY <1>2 DEF IndInv, Heap, Closed
<1>5. Locals' /\ Mutex'
  BY <1>1, <1>2 DEF IndInv, TypeOK, Locals, Mutex, Building, Busy, AfterJoin
<1>6. \A q \in Callers : q # p => pc[q] \in {"idle", "locking"}
  BY <1>1 DEF IndInv, Mutex, Busy
<1>7. \A h \in Slots : ~Live(h)
  BY <1>1, <1>6, Distinct DEF IndInv, LoopOwned
<1>8. LoopOwned' /\ Waiting4Loop'
  BY <1>1, <1>2, <1>6, <1>7 DEF IndInv, TypeOK, LoopOwned, Waiting4Loop, Live, AfterJoin
<1>9. QED
  BY <1>3, <1>4, <1>5, <1>8 DEF IndInv

\* No loop is left when the new one starts; a seeded manager serves what its own
\* configuration makes of the previous list, and is stale by policy.
LEMMA InstallKeeps ==
  ASSUME IndInv, NEW p \in Callers, Install(p)
  PROVE  IndInv'
<1> DEFINE g == mine[p]
           n == IF KeepsSnapshot(p) THEN SeedFrom(heap[g], heap[served]) ELSE heap[g]
           m == [n EXCEPT !.loop = "waiting", !.stop = FALSE]
<1>1. /\ pc[p] = "install" /\ g \in Slots /\ arg[p] \in Configs /\ heap[g].cfg = arg[p]
      /\ g # served /\ \A h \in Slots : ~Live(h)
  BY DEF Install, IndInv, Locals, Building, Waiting4Loop
<1>2. \A h \in Slots : IsManager(heap[h]) /\ heap[h].raw \in Catalogs \cup {<<>>}
                       /\ heap[h].fresh \in BOOLEAN
  BY DEF IndInv, Heap, TypeOK
<1>3. /\ IsManager(n) /\ n.cfg = arg[p] /\ n.raw \in Catalogs \cup {<<>>}
      /\ n.fresh \in BOOLEAN
      /\ n.models # <<>> => n.fresh \/ n.cfg.stale
  <2>1. CASE KeepsSnapshot(p)
    <3>1. arg[p].stale /\ served \in Slots
      BY <2>1 DEF KeepsSnapshot, IndInv, TypeOK
    <3>2. n = Swapped(heap[g], heap[served].raw)
      BY <2>1 DEF SeedFrom
    <3>3. IsManager(n) /\ n.cfg = heap[g].cfg /\ n.raw = heap[served].raw
          /\ n.fresh = heap[g].fresh
      BY <1>1, <1>2, <3>2, SwappedManager
    <3>4. QED
      BY <1>1, <1>2, <3>1, <3>3
  <2>2. CASE ~KeepsSnapshot(p)
    BY <1>1, <1>2, <2>2 DEF IndInv, Closed
  <2>3. QED
    BY <2>1, <2>2
<1>4. m = [n EXCEPT !.loop = "waiting", !.stop = FALSE]
  OBVIOUS
<1>5. /\ DOMAIN heap' = Slots
      /\ \A h \in Slots : heap'[h] = IF h = g THEN m
                                     ELSE IF h = served /\ ~Live(h) THEN Blank ELSE heap[h]
  BY DEF Install
<1>6. /\ pc' = [pc EXCEPT ![p] = "idle"] /\ lifeMu' = NoCaller
      /\ arg' = [arg EXCEPT ![p] = NoCfg] /\ mine' = [mine EXCEPT ![p] = NoSlot]
      /\ failed' = [failed EXCEPT ![p] = FALSE] /\ old' = [old EXCEPT ![p] = NoSlot]
      /\ cfg' = arg[p] /\ served' = g /\ current' = g
      /\ lastGood' \in Catalogs \cup {<<>>}
  <2>1. /\ pc' = [pc EXCEPT ![p] = "idle"] /\ lifeMu' = NoCaller
        /\ arg' = [arg EXCEPT ![p] = NoCfg] /\ mine' = [mine EXCEPT ![p] = NoSlot]
        /\ failed' = [failed EXCEPT ![p] = FALSE] /\ old' = [old EXCEPT ![p] = NoSlot]
        /\ cfg' = arg[p] /\ served' = g /\ current' = g
    BY DEF Install, Return, Goto
  <2>2. lastGood' = IF ~failed[p] THEN heap[g].raw
                    ELSE IF arg[p].stale THEN lastGood ELSE <<>>
    BY DEF Install
  <2>3. QED
    BY <1>1, <1>2, <2>1, <2>2 DEF IndInv, TypeOK
<1> HIDE DEF n
<1>7. /\ IsManager(m) /\ m.cfg = arg[p] /\ m.raw \in Catalogs \cup {<<>>}
      /\ m.fresh \in BOOLEAN /\ m.loop = "waiting" /\ m.stop = FALSE
      /\ m.models # <<>> => m.fresh \/ m.cfg.stale
  BY <1>3, <1>4 DEF IsManager
<1> HIDE DEF g, m
<1>8. TypeOK'
  <2>1. \A h \in Slots :
          /\ heap'[h].cfg \in Configs \cup {NoCfg}
          /\ heap'[h].raw \in Catalogs \cup {<<>>}
          /\ heap'[h].fresh \in BOOLEAN /\ heap'[h].stop \in BOOLEAN
          /\ heap'[h].loop \in {"none", "waiting", "fetching", "gone"}
    BY <1>1, <1>5, <1>7, BlankManager DEF IndInv, TypeOK
  <2>2. cfg' = IF served' = NoSlot THEN NoCfg ELSE heap'[served'].cfg
    BY <1>1, <1>5, <1>6, <1>7, Distinct
  <2>3. QED
    BY <1>1, <1>6, <2>1, <2>2 DEF IndInv, TypeOK
<1>9. Heap' /\ Closed'
  BY <1>5, <1>7, BlankManager DEF IndInv, Heap, Closed
<1>10. \A q \in Callers : q # p => pc[q] \in {"idle", "locking"}
  BY <1>1 DEF IndInv, Mutex, Busy
<1>11. pc'[p] = "idle" /\ \A q \in Callers : q # p => pc'[q] = pc[q]
  BY <1>6 DEF IndInv, TypeOK
<1>12. Locals' /\ Mutex'
  BY <1>6, <1>10, <1>11, Distinct DEF Locals, Mutex, Building, Busy
<1>13. \A h \in Slots : Live(h)' <=> h = g
  BY <1>1, <1>5, <1>7, BlankManager DEF Live
<1>14. LoopOwned' /\ Waiting4Loop'
  BY <1>1, <1>5, <1>6, <1>7, <1>10, <1>11, <1>13 DEF LoopOwned, Waiting4Loop
<1>15. QED
  BY <1>8, <1>9, <1>12, <1>14 DEF IndInv

\* Nothing runs when configuration and manager are forgotten.
LEMMA ClearKeeps ==
  ASSUME IndInv, NEW p \in Callers, Clear(p)
  PROVE  IndInv'
<1>1. pc[p] = "clear" /\ current = NoSlot /\ \A h \in Slots : ~Live(h)
  BY DEF Clear, IndInv, Waiting4Loop
<1>2. /\ DOMAIN heap' = Slots
      /\ \A h \in Slots : heap'[h] \in {Blank, heap[h]}
  BY DEF Clear
<1>3. /\ pc' = [pc EXCEPT ![p] = "idle"] /\ lifeMu' = NoCaller
      /\ arg' = [arg EXCEPT ![p] = NoCfg] /\ mine' = [mine EXCEPT ![p] = NoSlot]
      /\ failed' = [failed EXCEPT ![p] = FALSE] /\ old' = [old EXCEPT ![p] = NoSlot]
      /\ cfg' = NoCfg /\ served' = NoSlot /\ current' = current /\ lastGood' = <<>>
  BY DEF Clear, Return, Goto
<1>4. TypeOK'
  <2>1. \A h \in Slots :
          /\ heap'[h].cfg \in Configs \cup {NoCfg}
          /\ heap'[h].raw \in Catalogs \cup {<<>>}
          /\ heap'[h].fresh \in BOOLEAN /\ heap'[h].stop \in BOOLEAN
          /\ heap'[h].loop \in {"none", "waiting", "fetching", "gone"}
    BY <1>2, BlankManager DEF IndInv, TypeOK
  <2>2. QED
    BY <1>3, <2>1 DEF IndInv, TypeOK
<1>5. Heap' /\ Closed'
  BY <1>2, BlankManager DEF IndInv, Heap, Closed
<1>6. \A q \in Callers : q # p => pc[q] \in {"idle", "locking"}
  BY <1>1 DEF IndInv, Mutex, Busy
<1>7. pc'[p] = "idle" /\ \A q \in Callers : q # p => pc'[q] = pc[q]
  BY <1>3 DEF IndInv, TypeOK
<1>8. Locals' /\ Mutex'
  BY <1>3, <1>6, <1>7, Distinct DEF Locals, Mutex, Building, Busy
<1>9. \A h \in Slots : ~Live(h)'
  BY <1>1, <1>2, BlankManager DEF Live
<1>10. LoopOwned' /\ Waiting4Loop'
  BY <1>1, <1>3, <1>6, <1>7, <1>9 DEF LoopOwned, Waiting4Loop
<1>11. QED
  BY <1>4, <1>5, <1>8, <1>10 DEF IndInv

-----------------------------------------------------------------------------
(* The steps of a loop.                                                    *)

\* A step of a loop that keeps the configuration and the stop channel of its
\* manager, obeys the fail-closed policy and never starts a loop.
LEMMA LoopStepKeeps ==
  ASSUME IndInv, NEW g \in Slots, Live(g), NEW m, OnlyHeap(g, m),
         IsManager(m), m.cfg = heap[g].cfg, m.stop = heap[g].stop,
         m.raw \in Catalogs \cup {<<>>}, m.fresh \in BOOLEAN,
         m.loop \in {"waiting", "fetching", "gone"},
         m.models # <<>> => m.fresh \/ m.cfg.stale,
         lastGood' \in Catalogs \cup {<<>>}
  PROVE  IndInv'
<1>1. /\ DOMAIN heap' = Slots
      /\ \A h \in Slots : heap'[h] = IF h = g THEN m ELSE heap[h]
  BY DEF OnlyHeap, IndInv, Heap
<1>2. UNCHANGED <<lifeMu, pc, arg, mine, failed, old, served, cfg, current>>
  BY DEF OnlyHeap, local
<1>3. \A h \in Slots : heap'[h].cfg = heap[h].cfg /\ heap'[h].stop = heap[h].stop
  BY <1>1
<1>4. TypeOK'
  <2>1. \A h \in Slots :
          /\ heap'[h].cfg \in Configs \cup {NoCfg}
          /\ heap'[h].raw \in Catalogs \cup {<<>>}
          /\ heap'[h].fresh \in BOOLEAN /\ heap'[h].stop \in BOOLEAN
          /\ heap'[h].loop \in {"none", "waiting", "fetching", "gone"}
    BY <1>1, <1>3 DEF IndInv, TypeOK
  <2>2. cfg' = IF served' = NoSlot THEN NoCfg ELSE heap'[served'].cfg
    BY <1>2, <1>3 DEF IndInv, TypeOK
  <2>3. QED
    BY <1>2, <2>1, <2>2 DEF IndInv, TypeOK
<1>5. Heap' /\ Closed'
  BY <1>1 DEF IndInv, Heap, Closed
<1>6. Locals' /\ Mutex'
  BY <1>2, <1>3 DEF IndInv, Locals, Mutex, Building, Busy
<1>7. \A h \in Slots : Live(h)' => Live(h)
  BY <1>1 DEF Live
<1>8. LoopOwned' /\ Waiting4Loop'
  BY <1>2, <1>3, <1>7 DEF IndInv, TypeOK, LoopOwned, Waiting4Loop
<1>9. QED
  BY <1>4, <1>5, <1>6, <1>8 DEF IndInv

\* What the invariant says of the manager of a loop that runs.
LEMMA LiveManager ==
  ASSUME IndInv, NEW g \in Slots
  PROVE  /\ IsManager(heap[g]) /\ heap[g].raw \in Catalogs \cup {<<>>}
         /\ heap[g].fresh \in BOOLEAN /\ lastGood \in Catalogs \cup {<<>>}
         /\ heap[g].models # <<>> => heap[g].fresh \/ heap[g].cfg.stale
BY DEF IndInv, Heap, TypeOK, Closed

LEMMA TickKeeps ==
  ASSUME IndInv, NEW g \in Slots, Tick(g)
  PROVE  IndInv'
<1> DEFINE m == [heap[g] EXCEPT !.loop = "fetching"]
<1>1. Live(g) /\ OnlyHeap(g, m) /\ lastGood' = lastGood
  BY DEF Tick, Live
<1>2. /\ IsManager(m) /\ m.cfg = heap[g].cfg /\ m.raw = heap[g].raw
      /\ m.models = heap[g].models /\ m.fresh = heap[g].fresh
      /\ m.loop = "fetching" /\ m.stop = heap[g].stop
  <2>1. IsManager(heap[g])
    BY LiveManager
  <2>2. QED
    BY <2>1 DEF IsManager
<1> HIDE DEF m
<1>3. QED
  BY <1>1, <1>2, LiveManager, LoopStepKeeps

\* A tick that ends leaves its loop waiting.
LEMMA TickEndKeeps ==
  ASSUME IndInv, NEW g \in Slots, heap[g].loop = "fetching", NEW r,
         OnlyHeap(g, Waiting(r)),
         IsManager(r), r.cfg = heap[g].cfg, r.stop = heap[g].stop,
         r.raw \in Catalogs \cup {<<>>}, r.fresh \in BOOLEAN,
         r.models # <<>> => r.fresh \/ r.cfg.stale,
         lastGood' \in Catalogs \cup {<<>>}
  PROVE  IndInv'
<1> DEFINE m == Waiting(r)
<1>1. Live(g) /\ OnlyHeap(g, m)
  BY DEF Live
<1>2. m = [r EXCEPT !.loop = "waiting"]
  BY DEF Waiting
<1> HIDE DEF m
<1>3. /\ IsManager(m) /\ m.cfg = r.cfg /\ m.raw = r.raw
      /\ m.models = r.models /\ m.fresh = r.fresh
      /\ m.loop = "waiting" /\ m.stop = r.stop
  BY <1>2 DEF IsManager
<1>4. QED
  BY <1>1, <1>3, LoopStepKeeps

LEMMA TickSucceedsKeeps ==
  ASSUME IndInv, NEW g \in Slots, TickSucceeds(g)
  PROVE  IndInv'
<1>1. PICK list \in Catalogs :
        /\ OnlyHeap(g, Waiting(Refreshed(heap[g], list)))
        /\ lastGood' = IF g = served THEN list ELSE lastGood
  BY DEF TickSucceeds
<1> DEFINE r == Refreshed(heap[g], list)
<1>2. OnlyHeap(g, Waiting(r)) /\ heap[g].loop = "fetching"
  BY <1>1 DEF TickSucceeds
<1>3. /\ IsManager(r) /\ r.cfg = heap[g].cfg /\ r.raw = list /\ r.fresh = TRUE
      /\ r.stop = heap[g].stop
  <2>1. IsManager(heap[g])
    BY LiveManager
  <2>2. QED
    BY <2>1, RefreshedManager
<1> HIDE DEF r
<1>4. QED
  BY <1>1, <1>2, <1>3, LiveManager, TickEndKeeps

\* A failed or aborted tick obeys the policy of its manager.
LEMMA TickFailsKeeps ==
  ASSUME IndInv, NEW g \in Slots, TickFails(g) \/ TickAborted(g)
  PROVE  IndInv'
<1> DEFINE r == Fail(heap[g])
<1>1. /\ OnlyHeap(g, Waiting(r)) /\ heap[g].loop = "fetching"
      /\ lastGood' \in {lastGood, <<>>}
  BY DEF TickFails, TickAborted
<1>2. /\ IsManager(r) /\ r.cfg = heap[g].cfg /\ r.raw \in {heap[g].raw, <<>>}
      /\ r.fresh = FALSE /\ r.stop = heap[g].stop
      /\ ~heap[g].cfg.stale => r.models = <<>>
  BY LiveManager, FailedManager
<1> HIDE DEF r
<1>3. QED
  BY <1>1, <1>2, LiveManager, TickEndKeeps

LEMMA TickPanicsKeeps ==
  ASSUME IndInv, NEW g \in Slots, TickPanics(g)
  PROVE  IndInv'
<1>1. OnlyHeap(g, Waiting(heap[g])) /\ heap[g].loop = "fetching" /\ lastGood' = lastGood
  BY DEF TickPanics
<1>2. QED
  BY <1>1, LiveManager, TickEndKeeps

LEMMA LoopExitsKeeps ==
  ASSUME IndInv, NEW g \in Slots, LoopExits(g)
  PROVE  IndInv'
<1> DEFINE m == [heap[g] EXCEPT !.loop = "gone"]
<1>1. Live(g) /\ OnlyHeap(g, m) /\ lastGood' = lastGood
  BY DEF LoopExits, Live
<1>2. /\ IsManager(m) /\ m.cfg = heap[g].cfg /\ m.raw = heap[g].raw
      /\ m.models = heap[g].models /\ m.fresh = heap[g].fresh
      /\ m.loop = "gone" /\ m.stop = heap[g].stop
  <2>1. IsManager(heap[g])
    BY LiveManager
  <2>2. QED
    BY <2>1 DEF IsManager
<1> HIDE DEF m
<1>3. QED
  BY <1>1, <1>2, LiveManager, LoopStepKeeps

-----------------------------------------------------------------------------
(* The invariant.                                                          *)

LEMMA NextIndInv == IndInv /\ [Next]_vars => IndInv'
<1> SUFFICES ASSUME IndInv, [Next]_vars PROVE IndInv'
  OBVIOUS
<1>1. ASSUME NEW p \in Callers,
             Call(p) \/ Lock(p) \/ AuthFails(p) \/ AuthSaved(p) \/ FirstRefresh(p)
             \/ CloseStop(p) \/ Join(p) \/ Install(p) \/ Drain(p) \/ Clear(p)
      PROVE  IndInv'
  BY <1>1, CallKeeps, LockKeeps, AuthFailsKeeps, AuthSavedKeeps, FirstRefreshKeeps,
     CloseStopKeeps, JoinKeeps, InstallKeeps, DrainKeeps, ClearKeeps
<1>2. ASSUME NEW g \in Slots,
             Tick(g) \/ TickSucceeds(g) \/ TickFails(g) \/ TickAborted(g)
             \/ TickPanics(g) \/ LoopExits(g)
      PROVE  IndInv'
  BY <1>2, TickKeeps, TickSucceedsKeeps, TickFailsKeeps, TickPanicsKeeps, LoopExitsKeeps
<1>3. CASE UNCHANGED vars
  BY <1>3 DEF vars, local, IndInv, TypeOK, Heap, Locals, Mutex, LoopOwned, Waiting4Loop,
              Closed, Building, Busy, Live
<1>4. QED
  BY <1>1, <1>2, <1>3 DEF Next

LEMMA Invariance == Spec => []IndInv
<1>1. QED
  BY InitIndInv, NextIndInv, PTL DEF Spec

-----------------------------------------------------------------------------
(* What a manager serves is what its own configuration makes of its list.  *)

ManagerBuilt(m) == m.models = Build(m.cfg, m.raw).models

Built == \A g \in Slots : ManagerBuilt(heap[g])

LEMMA NothingBuilt ==
  ASSUME NEW m, m.raw = <<>>
  PROVE  ManagerBuilt(m) <=> m.models = <<>>
<1>1. Build(m.cfg, <<>>) = EmptySnapshot
  BY BuildOfNothing
<1>2. QED
  BY <1>1 DEF ManagerBuilt, EmptySnapshot

LEMMA SameList ==
  ASSUME NEW m, NEW n, n.cfg = m.cfg, n.raw = m.raw, n.models = m.models, ManagerBuilt(m)
  PROVE  ManagerBuilt(n)
BY DEF ManagerBuilt

LEMMA SwapBuilds ==
  ASSUME NEW m, NEW list, IsManager(m)
  PROVE  ManagerBuilt(Swapped(m, list)) /\ ManagerBuilt(Refreshed(m, list))
<1> DEFINE s == Swapped(m, list)
           b == Build(m.cfg, list).models
<1>1. s = [m EXCEPT !.raw = list, !.models = b]
  BY DEF Swapped
<1>2. Refreshed(m, list) = [s EXCEPT !.fresh = TRUE]
  BY DEF Refreshed
<1> HIDE DEF s, b
<1>3. IsManager(s) /\ s.cfg = m.cfg /\ s.raw = list /\ s.models = b
  BY <1>1 DEF IsManager
<1>4. ManagerBuilt(s)
  BY <1>3 DEF ManagerBuilt, b
<1> DEFINE r == Refreshed(m, list)
<1>5. r.cfg = s.cfg /\ r.raw = s.raw /\ r.models = s.models
  BY <1>2, <1>3 DEF IsManager
<1> HIDE DEF r
<1>6. ManagerBuilt(r)
  BY <1>4, <1>5, SameList
<1>7. QED
  BY <1>4, <1>6 DEF r, s

LEMMA FailBuilds ==
  ASSUME NEW m, IsManager(m), ManagerBuilt(m)
  PROVE  ManagerBuilt(Fail(m))
<1> DEFINE r == Fail(m)
<1>1. CASE m.cfg.stale
  <2>1. r.cfg = m.cfg /\ r.raw = m.raw /\ r.models = m.models
    BY <1>1 DEF Fail, IsManager
  <2> HIDE DEF r
  <2>2. QED
    BY <2>1, SameList DEF r
<1>2. CASE ~m.cfg.stale
  <2>1. r.raw = <<>> /\ r.models = <<>>
    BY <1>2 DEF Fail, IsManager
  <2> HIDE DEF r
  <2>2. QED
    BY <2>1, NothingBuilt DEF r
<1>3. QED
  BY <1>1, <1>2

LEMMA BlankBuilds == ManagerBuilt(Blank) /\ \A c : ManagerBuilt(ManagerOf(c))
BY BlankManager, NothingBuilt

\* Every step of the system leaves a manager as it is, blank, or rebuilt from a list.
LEMMA CallerBuilds ==
  ASSUME IndInv, Built, NEW p \in Callers,
         AuthSaved(p) \/ FirstRefresh(p) \/ CloseStop(p) \/ Install(p) \/ Clear(p)
  PROVE  Built'
<1>0. \A h \in Slots : IsManager(heap[h]) /\ ManagerBuilt(heap[h])
  BY DEF IndInv, Heap, Built
<1>1. DOMAIN heap = Slots
  BY DEF IndInv, Heap
<1>2. CASE AuthSaved(p)
  <2>1. PICK g \in Slots : heap' = [heap EXCEPT ![g] = ManagerOf(arg[p])]
    BY <1>2 DEF AuthSaved, Free
  <2>2. \A h \in Slots : heap'[h] \in {heap[h], ManagerOf(arg[p])}
    BY <1>1, <2>1
  <2>3. QED
    BY <1>0, <2>2, BlankBuilds DEF Built
<1>3. CASE FirstRefresh(p)
  <2> DEFINE g == mine[p]
  <2>1. g \in Slots
    BY <1>3 DEF FirstRefresh, IndInv, Locals, Building
  <2>2. PICK m : /\ heap' = [heap EXCEPT ![g] = m]
                 /\ \/ \E list \in Catalogs : m = Refreshed(heap[g], list)
                    \/ m = Fail(heap[g])
    BY <1>3 DEF FirstRefresh
  <2>3. ManagerBuilt(m)
    BY <1>0, <2>1, <2>2, SwapBuilds, FailBuilds
  <2> HIDE DEF g
  <2>4. \A h \in Slots : heap'[h] \in {heap[h], m}
    BY <1>1, <2>2
  <2>5. QED
    BY <1>0, <2>3, <2>4 DEF Built
<1>4. CASE CloseStop(p)
  <2>1. \A h \in Slots : heap'[h] \in {heap[h], [heap[h] EXCEPT !.stop = TRUE]}
    BY <1>4 DEF CloseStop
  <2>2. \A h \in Slots : heap'[h].cfg = heap[h].cfg /\ heap'[h].raw = heap[h].raw
                         /\ heap'[h].models = heap[h].models
    BY <1>0, <2>1 DEF IsManager
  <2>3. QED
    BY <1>0, <2>2, SameList DEF Built
<1>5. CASE Install(p)
  <2> DEFINE g == mine[p]
             n == IF KeepsSnapshot(p) THEN SeedFrom(heap[g], heap[served]) ELSE heap[g]
             m == [n EXCEPT !.loop = "waiting", !.stop = FALSE]
  <2>1. g \in Slots
    BY <1>5 DEF Install, IndInv, Locals, Building
  <2>2. IsManager(n) /\ ManagerBuilt(n)
    BY <1>0, <2>1, SwapBuilds, SwappedManager DEF SeedFrom
  <2>3. \A h \in Slots : heap'[h] \in {m, Blank, heap[h]}
    BY <1>5 DEF Install
  <2>4. m = [n EXCEPT !.loop = "waiting", !.stop = FALSE]
    OBVIOUS
  <2> HIDE DEF n, m
  <2>5. m.cfg = n.cfg /\ m.raw = n.raw /\ m.models = n.models
    BY <2>2, <2>4 DEF IsManager
  <2>6. ManagerBuilt(m)
    BY <2>2, <2>5, SameList
  <2>7. QED
    BY <1>0, <2>3, <2>6, BlankBuilds DEF Built
<1>6. CASE Clear(p)
  <2>1. \A h \in Slots : heap'[h] \in {Blank, heap[h]}
    BY <1>6 DEF Clear
  <2>2. QED
    BY <1>0, <2>1, BlankBuilds DEF Built
<1>7. QED
  BY <1>2, <1>3, <1>4, <1>5, <1>6

LEMMA LoopBuilds ==
  ASSUME IndInv, Built, NEW g \in Slots, NEW m, IsManager(m), ManagerBuilt(m),
         \E l : OnlyHeap(g, [m EXCEPT !.loop = l])
  PROVE  Built'
<1>1. PICK l : OnlyHeap(g, [m EXCEPT !.loop = l])
  OBVIOUS
<1> DEFINE n == [m EXCEPT !.loop = l]
<1>2. n.cfg = m.cfg /\ n.raw = m.raw /\ n.models = m.models
  BY DEF IsManager
<1>3. \A h \in Slots : heap'[h] \in {heap[h], n}
  BY <1>1 DEF OnlyHeap, IndInv, Heap
<1> HIDE DEF n
<1>4. ManagerBuilt(n)
  BY <1>2, SameList
<1>5. QED
  BY <1>3, <1>4 DEF Built

LEMMA TicksBuild ==
  ASSUME IndInv, Built, NEW g \in Slots,
         Tick(g) \/ TickSucceeds(g) \/ TickFails(g) \/ TickAborted(g)
         \/ TickPanics(g) \/ LoopExits(g)
  PROVE  Built'
<1>1. IsManager(heap[g]) /\ ManagerBuilt(heap[g])
  BY DEF IndInv, Heap, Built
<1>2. CASE Tick(g) \/ TickPanics(g) \/ LoopExits(g)
  BY <1>1, <1>2, LoopBuilds DEF Tick, TickPanics, LoopExits, Waiting
<1>3. CASE TickSucceeds(g)
  <2>1. PICK list \in Catalogs : OnlyHeap(g, Waiting(Refreshed(heap[g], list)))
    BY <1>3 DEF TickSucceeds
  <2> DEFINE r == Refreshed(heap[g], list)
  <2>2. IsManager(r) /\ ManagerBuilt(r)
    BY <1>1, RefreshedManager, SwapBuilds
  <2>3. OnlyHeap(g, Waiting(r))
    BY <2>1
  <2> HIDE DEF r
  <2>4. QED
    BY <2>2, <2>3, LoopBuilds DEF Waiting
<1>4. CASE TickFails(g) \/ TickAborted(g)
  <2> DEFINE r == Fail(heap[g])
  <2>1. IsManager(r) /\ ManagerBuilt(r)
    BY <1>1, FailedManager, FailBuilds
  <2>2. OnlyHeap(g, Waiting(r))
    BY <1>4 DEF TickFails, TickAborted
  <2> HIDE DEF r
  <2>3. QED
    BY <2>1, <2>2, LoopBuilds DEF Waiting
<1>5. QED
  BY <1>2, <1>3, <1>4

\* What is served has a configuration.
Configured == served # NoSlot => cfg \in Configs

LEMMA NextConfigured == IndInv /\ Configured /\ [Next]_vars => Configured'
<1> SUFFICES ASSUME IndInv, Configured, [Next]_vars PROVE Configured'
  OBVIOUS
<1>1. CASE UNCHANGED <<served, cfg>>
  BY <1>1 DEF Configured
<1>2. ASSUME NEW p \in Callers, Install(p)
      PROVE  Configured'
  BY <1>2 DEF Install, IndInv, Locals, Building, Configured
<1>3. ASSUME NEW p \in Callers, Clear(p)
      PROVE  Configured'
  BY <1>3 DEF Clear, Configured
<1>4. ASSUME NEW p \in Callers,
             Call(p) \/ Lock(p) \/ AuthFails(p) \/ AuthSaved(p) \/ FirstRefresh(p)
             \/ CloseStop(p) \/ Join(p) \/ Drain(p)
      PROVE  UNCHANGED <<served, cfg>>
  BY <1>4 DEF Call, Lock, AuthFails, AuthSaved, FirstRefresh, CloseStop, Join, Drain
<1>5. ASSUME NEW g \in Slots,
             Tick(g) \/ TickSucceeds(g) \/ TickFails(g) \/ TickAborted(g)
             \/ TickPanics(g) \/ LoopExits(g)
      PROVE  UNCHANGED <<served, cfg>>
  BY <1>5 DEF Tick, TickSucceeds, TickFails, TickAborted, TickPanics, LoopExits, OnlyHeap
<1>6. QED
  BY <1>1, <1>2, <1>3, <1>4, <1>5 DEF Next, vars

LEMMA BuiltInvariance == Spec => [](IndInv /\ Built /\ Configured)
<1>1. Init => Built /\ Configured
  BY BlankBuilds DEF Init, Built, Configured
<1>2. IndInv /\ Built /\ [Next]_vars => Built'
  <2>1. SUFFICES ASSUME IndInv, Built, [Next]_vars PROVE Built'
    OBVIOUS
  <2>2. CASE UNCHANGED heap
    BY <2>1, <2>2 DEF Built
  <2>3. ASSUME NEW p \in Callers,
               Call(p) \/ Lock(p) \/ AuthFails(p) \/ AuthSaved(p) \/ FirstRefresh(p)
               \/ CloseStop(p) \/ Join(p) \/ Install(p) \/ Drain(p) \/ Clear(p)
        PROVE  Built'
    <3>1. CASE Call(p) \/ Lock(p) \/ AuthFails(p) \/ Join(p) \/ Drain(p)
      BY <2>2, <3>1 DEF Call, Lock, AuthFails, Join, Drain
    <3>2. QED
      BY <2>1, <2>3, <3>1, CallerBuilds
  <2>4. ASSUME NEW g \in Slots,
               Tick(g) \/ TickSucceeds(g) \/ TickFails(g) \/ TickAborted(g)
               \/ TickPanics(g) \/ LoopExits(g)
        PROVE  Built'
    BY <2>1, <2>4, TicksBuild
  <2>5. QED
    BY <2>1, <2>2, <2>3, <2>4 DEF Next, vars
<1>3. QED
  BY <1>1, <1>2, InitIndInv, NextIndInv, NextConfigured, PTL DEF Spec

\* The snapshot that is served, as Build makes it.
LEMMA ServedCatalog ==
  ASSUME IndInv, Built, served # NoSlot
  PROVE  /\ served \in Slots /\ cfg = heap[served].cfg
         /\ heap[served].models = Build(cfg, heap[served].raw).models
         /\ heap[served].raw \in Entries
<1>1. served \in Slots /\ cfg = heap[served].cfg
  BY DEF IndInv, TypeOK
<1>2. heap[served].raw \in Catalogs \cup {<<>>}
  BY <1>1 DEF IndInv, TypeOK
<1>3. Catalogs \subseteq Entries /\ <<>> \in Entries
  BY LifecycleAssumption DEF LifecycleAssumption, Entries
<1>4. QED
  BY <1>1, <1>2, <1>3 DEF Built, ManagerBuilt

-----------------------------------------------------------------------------
(* Under stale-while-unavailable.                                          *)

\* Every configuration keeps the last valid snapshot, and routes something of
\* whatever the upstream serves.  Without the first an aborted tick may clear what
\* was good, without the second the list of a snapshot that came out empty is not
\* seeded (findings 3 and 4 of the README).
AlwaysStale == \A c \in Configs : c.stale
AlwaysRoutes ==
  \A c \in Configs, list \in Catalogs :
    \E n \in 1..Len(list) : list[n] # NoId /\ Routed(c, list[n])

\* The list served is the last good one; a manager whose refresh has failed, or not
\* begun, has none.
GoodKept ==
  /\ served = NoSlot => lastGood = <<>>
  /\ served # NoSlot => heap[served].raw = lastGood
  /\ \A p \in Callers : pc[p] \in {"idle", "locking", "auth", "refresh"} => ~failed[p]
  /\ \A p \in Callers : Building(p) /\ (pc[p] = "refresh" \/ failed[p]) =>
                          heap[mine[p]].raw = <<>>

LEMMA InitGoodKept == Init => GoodKept
BY Distinct DEF Init, GoodKept, Building

\* Where the lock is held by one caller, no other is past it.
LEMMA Alone ==
  ASSUME IndInv, NEW p \in Callers, Busy(p)
  PROVE  \A q \in Callers : q # p => pc[q] \in {"idle", "locking"} /\ ~Building(q)
BY DEF IndInv, Mutex, Busy, Building

\* Steps that change no list.
LEMMA EarlyKeepGood ==
  ASSUME IndInv, GoodKept, NEW p \in Callers,
         Call(p) \/ Lock(p) \/ AuthFails(p) \/ Join(p) \/ Drain(p)
  PROVE  GoodKept'
<1>1. UNCHANGED <<heap, served, lastGood>>
  BY DEF Call, Lock, AuthFails, Join, Drain
<1>2. CASE Call(p)
  BY <1>1, <1>2 DEF Call, Goto, IndInv, TypeOK, GoodKept, Building
<1>3. CASE Lock(p)
  BY <1>1, <1>3 DEF Lock, Goto, local, IndInv, TypeOK, GoodKept, Building
<1>4. CASE AuthFails(p)
  BY <1>1, <1>4 DEF AuthFails, Return, Goto, IndInv, TypeOK, GoodKept, Building
<1>5. CASE Join(p)
  BY <1>1, <1>5 DEF Join, Goto, AfterJoin, local, IndInv, TypeOK, GoodKept, Building
<1>6. CASE Drain(p)
  BY <1>1, <1>6 DEF Drain, Goto, local, IndInv, TypeOK, GoodKept, Building
<1>7. QED
  BY <1>2, <1>3, <1>4, <1>5, <1>6

LEMMA AuthSavedKeepsGood ==
  ASSUME IndInv, GoodKept, NEW p \in Callers, AuthSaved(p)
  PROVE  GoodKept'
<1>1. PICK g \in Free : /\ mine' = [mine EXCEPT ![p] = g]
                        /\ heap' = [heap EXCEPT ![g] = ManagerOf(arg[p])]
  BY DEF AuthSaved
<1>2. g \in Slots /\ g # served
  BY DEF Free
<1>3. heap'[g].raw = <<>> /\ \A h \in Slots : h # g => heap'[h] = heap[h]
  BY <1>1, <1>2, BlankManager DEF IndInv, Heap
<1>4. /\ pc[p] = "auth" /\ pc' = [pc EXCEPT ![p] = "refresh"]
      /\ UNCHANGED <<lifeMu, arg, failed, old, served, cfg, current, lastGood>>
  BY DEF AuthSaved, Goto
<1>5. \A q \in Callers : q # p => pc[q] \in {"idle", "locking"} /\ ~Building(q)
  BY <1>4, Alone DEF Busy
<1>6. /\ mine'[p] = g /\ pc'[p] = "refresh"
      /\ \A q \in Callers : q # p => pc'[q] = pc[q] /\ mine'[q] = mine[q]
  BY <1>1, <1>4 DEF IndInv, TypeOK
<1>7. \A q \in Callers : Building(q)' => q = p
  BY <1>4, <1>5, <1>6 DEF Building
<1>8. served \in Slots \cup {NoSlot}
  BY DEF IndInv, TypeOK
<1>9. QED
  BY <1>2, <1>3, <1>4, <1>5, <1>6, <1>7, <1>8 DEF GoodKept

LEMMA FirstRefreshKeepsGood ==
  ASSUME AlwaysStale, IndInv, GoodKept, NEW p \in Callers, FirstRefresh(p)
  PROVE  GoodKept'
<1> DEFINE g == mine[p]
<1>1. /\ pc[p] = "refresh" /\ g \in Slots /\ g # served /\ heap[g].cfg \in Configs
      /\ heap[g].raw = <<>> /\ ~failed[p]
  BY DEF FirstRefresh, IndInv, Locals, Building, GoodKept
<1>2. /\ pc' = [pc EXCEPT ![p] = "stop"]
      /\ UNCHANGED <<lifeMu, arg, mine, old, served, cfg, current, lastGood>>
  BY DEF FirstRefresh, Goto
<1>3. /\ failed'[p] => heap'[g].raw = <<>>
      /\ \A q \in Callers : q # p => failed'[q] = failed[q]
      /\ \A h \in Slots : h # g => heap'[h] = heap[h]
  <2>1. CASE failed' = failed /\ \E list \in Catalogs :
               heap' = [heap EXCEPT ![g] = Refreshed(@, list)]
    BY <1>1, <2>1 DEF IndInv, Heap
  <2>2. CASE /\ heap' = [heap EXCEPT ![g] = Fail(@)]
             /\ failed' = [failed EXCEPT ![p] = TRUE]
    <3>1. IsManager(heap[g])
      BY <1>1 DEF IndInv, Heap
    <3>2. Fail(heap[g]).raw \in {heap[g].raw, <<>>}
      BY <3>1, FailedManager
    <3>3. QED
      BY <1>1, <2>2, <3>2 DEF IndInv, Heap, TypeOK
  <2>3. QED
    BY <2>1, <2>2 DEF FirstRefresh
<1>4. \A q \in Callers : q # p => pc[q] \in {"idle", "locking"} /\ ~Building(q)
  BY <1>1, Alone DEF Busy
<1>5. pc'[p] = "stop" /\ \A q \in Callers : q # p => pc'[q] = pc[q]
  BY <1>2 DEF IndInv, TypeOK
<1>6. \A q \in Callers : Building(q)' => q = p
  BY <1>2, <1>4, <1>5 DEF Building
<1>7. served \in Slots \cup {NoSlot}
  BY DEF IndInv, TypeOK
<1>8. QED
  BY <1>1, <1>2, <1>3, <1>4, <1>5, <1>6, <1>7 DEF GoodKept

LEMMA CloseStopKeepsGood ==
  ASSUME IndInv, GoodKept, NEW p \in Callers, CloseStop(p)
  PROVE  GoodKept'
<1>1. \A h \in Slots : heap'[h].raw = heap[h].raw
  <2>1. \A h \in Slots : IsManager(heap[h])
    BY DEF IndInv, Heap
  <2>2. QED
    BY <2>1 DEF CloseStop, IsManager
<1>2. /\ pc[p] = "stop"
      /\ pc' = [pc EXCEPT ![p] = IF current = NoSlot THEN AfterJoin(p) ELSE "join"]
      /\ UNCHANGED <<lifeMu, arg, mine, failed, served, cfg, lastGood>>
  BY DEF CloseStop, Goto
<1>3. \A q \in Callers : Building(q)' => Building(q)
  BY <1>2 DEF IndInv, TypeOK, Building, AfterJoin
<1>4. \A q \in Callers : Building(q) => mine[q] \in Slots
  BY DEF IndInv, Locals
<1>5. \A q \in Callers : pc'[q] \in {"idle", "locking", "auth", "refresh"} => pc'[q] = pc[q]
  BY <1>2 DEF IndInv, TypeOK, AfterJoin
<1>6. served \in Slots \cup {NoSlot}
  BY DEF IndInv, TypeOK
<1>7. QED
  BY <1>1, <1>2, <1>3, <1>4, <1>5, <1>6 DEF GoodKept

\* A list that is served routes something, so that it is there to be seeded.
LEMMA ServedIsSeeded ==
  ASSUME AlwaysRoutes, IndInv, Built, Configured, served # NoSlot
  PROVE  heap[served].models = <<>> <=> heap[served].raw = <<>>
<1> DEFINE list == heap[served].raw
<1>1. /\ served \in Slots /\ cfg \in Configs /\ list \in Entries
      /\ heap[served].models = Build(cfg, list).models
  BY ServedCatalog DEF Configured
<1>2. list \in Catalogs \cup {<<>>}
  BY <1>1 DEF IndInv, TypeOK
<1>3. CASE list = <<>>
  <2>1. heap[served].models = <<>>
    BY <1>1, <1>3, BuildOfNothing DEF EmptySnapshot
  <2>2. QED
    BY <1>3, <2>1
<1>4. CASE list # <<>>
  <2>1. \E n \in 1..Len(list) : list[n] # NoId /\ Routed(cfg, list[n])
    BY <1>1, <1>2, <1>4 DEF AlwaysRoutes
  <2>2. Build(cfg, list).models # <<>>
    BY <1>1, <2>1, BuildEmptyIff
  <2>3. QED
    BY <1>1, <1>4, <2>2
<1>5. QED
  BY <1>3, <1>4

\* What Install puts in the slot of the new manager.
LEMMA InstalledList ==
  ASSUME AlwaysStale, AlwaysRoutes, IndInv, Built, Configured, GoodKept,
         NEW p \in Callers, Install(p)
  PROVE  /\ served' \in Slots /\ heap'[served'].raw = lastGood'
         /\ failed[p] => /\ lastGood' = lastGood
                         /\ heap'[served'].cfg = arg[p]
<1> DEFINE g == mine[p]
           n == IF KeepsSnapshot(p) THEN SeedFrom(heap[g], heap[served]) ELSE heap[g]
           m == [n EXCEPT !.loop = "waiting", !.stop = FALSE]
<1>1. /\ pc[p] = "install" /\ g \in Slots /\ arg[p] \in Configs /\ heap[g].cfg = arg[p]
      /\ served' = g
  BY DEF Install, IndInv, Locals, Building
<1>2. arg[p].stale
  BY <1>1 DEF AlwaysStale
<1>3. lastGood' = IF failed[p] THEN lastGood ELSE heap[g].raw
  BY <1>2 DEF Install
<1>4. IsManager(heap[g])
  BY <1>1 DEF IndInv, Heap
<1>5. heap'[g] = m
  BY <1>1 DEF Install
<1>6. IsManager(n) /\ n.cfg = arg[p] /\ n.raw = lastGood'
  <2>1. CASE KeepsSnapshot(p)
    <3>1. n = Swapped(heap[g], heap[served].raw)
      BY <2>1 DEF SeedFrom
    <3>2. failed[p] /\ served # NoSlot
      BY <2>1 DEF KeepsSnapshot
    <3>3. heap[served].raw = lastGood
      BY <3>2 DEF GoodKept
    <3>4. QED
      BY <1>1, <1>3, <1>4, <3>1, <3>2, <3>3, SwappedManager
  <2>2. CASE ~KeepsSnapshot(p) /\ ~failed[p]
    BY <1>1, <1>3, <1>4, <2>2
  <2>3. CASE ~KeepsSnapshot(p) /\ failed[p]
    <3>1. heap[g].raw = <<>>
      BY <1>1, <2>3 DEF GoodKept, Building
    <3>2. served # NoSlot => heap[served].models = <<>>
      BY <1>2, <2>3 DEF KeepsSnapshot
    <3>3. lastGood = <<>>
      <4>1. CASE served = NoSlot
        BY <4>1 DEF GoodKept
      <4>2. CASE served # NoSlot
        BY <3>2, <4>2, ServedIsSeeded DEF GoodKept
      <4>3. QED
        BY <4>1, <4>2
    <3>4. QED
      BY <1>1, <1>3, <1>4, <2>3, <3>1, <3>3
  <2>4. QED
    BY <2>1, <2>2, <2>3
<1>7. m = [n EXCEPT !.loop = "waiting", !.stop = FALSE]
  OBVIOUS
<1> HIDE DEF n, m
<1>8. m.raw = n.raw /\ m.cfg = n.cfg
  BY <1>6, <1>7 DEF IsManager
<1>9. QED
  BY <1>1, <1>3, <1>5, <1>6, <1>8

LEMMA InstallKeepsGood ==
  ASSUME AlwaysStale, AlwaysRoutes, IndInv, Built, Configured, GoodKept,
         NEW p \in Callers, Install(p)
  PROVE  GoodKept'
<1>1. served' \in Slots /\ heap'[served'].raw = lastGood'
  BY InstalledList
<1>2. /\ pc[p] = "install" /\ pc' = [pc EXCEPT ![p] = "idle"]
      /\ failed' = [failed EXCEPT ![p] = FALSE]
  BY DEF Install, Return, Goto
<1>3. \A q \in Callers : q # p => pc[q] \in {"idle", "locking"} /\ ~failed[q]
  BY <1>2, Alone DEF Busy, GoodKept
<1>4. \A q \in Callers : pc'[q] \in {"idle", "locking"} /\ ~failed'[q]
  BY <1>2, <1>3 DEF IndInv, TypeOK
<1>5. QED
  BY <1>1, <1>4, Distinct DEF GoodKept, Building

LEMMA ClearKeepsGood ==
  ASSUME IndInv, GoodKept, NEW p \in Callers, Clear(p)
  PROVE  GoodKept'
<1>1. /\ pc[p] = "clear" /\ pc' = [pc EXCEPT ![p] = "idle"]
      /\ failed' = [failed EXCEPT ![p] = FALSE]
      /\ served' = NoSlot /\ lastGood' = <<>>
  BY DEF Clear, Return, Goto
<1>2. \A q \in Callers : q # p => pc[q] \in {"idle", "locking"} /\ ~failed[q]
  BY <1>1, Alone DEF Busy, GoodKept
<1>3. \A q \in Callers : pc'[q] \in {"idle", "locking"} /\ ~failed'[q]
  BY <1>1, <1>2 DEF IndInv, TypeOK
<1>4. QED
  BY <1>1, <1>3 DEF GoodKept, Building

\* Only the loop of the manager that is served runs.
LEMMA OnlyServedLives ==
  ASSUME IndInv, NEW g \in Slots, Live(g)
  PROVE  g = served
BY Distinct DEF IndInv, LoopOwned, Waiting4Loop

LEMMA LoopKeepsGood ==
  ASSUME IndInv, GoodKept, NEW g \in Slots, Live(g), NEW m, OnlyHeap(g, m),
         m.raw = lastGood'
  PROVE  GoodKept'
<1>1. g = served /\ g # NoSlot
  BY OnlyServedLives, Distinct
<1>2. heap'[g] = m /\ \A h \in Slots : h # g => heap'[h] = heap[h]
  BY DEF OnlyHeap, IndInv, Heap
<1>3. UNCHANGED <<lifeMu, pc, arg, mine, failed, old, served, cfg, current>>
  BY DEF OnlyHeap, local
<1>4. \A q \in Callers : Building(q) => mine[q] \in Slots /\ mine[q] # g
  BY <1>1 DEF IndInv, Locals
<1>5. QED
  BY <1>1, <1>2, <1>3, <1>4 DEF GoodKept, Building

LEMMA TicksKeepGood ==
  ASSUME AlwaysStale, IndInv, Configured, GoodKept, NEW g \in Slots,
         Tick(g) \/ TickSucceeds(g) \/ TickFails(g) \/ TickAborted(g)
         \/ TickPanics(g) \/ LoopExits(g)
  PROVE  GoodKept'
<1>1. Live(g) /\ g = served /\ g # NoSlot
  <2>1. Live(g)
    BY DEF Live, Tick, TickSucceeds, TickFails, TickAborted, TickPanics, LoopExits
  <2>2. QED
    BY <2>1, OnlyServedLives, Distinct
<1>2. IsManager(heap[g]) /\ heap[g].raw = lastGood
  BY <1>1 DEF IndInv, Heap, GoodKept
<1>3. CASE Tick(g) \/ TickPanics(g) \/ LoopExits(g)
  <2>1. PICK l : OnlyHeap(g, [heap[g] EXCEPT !.loop = l]) /\ lastGood' = lastGood
    BY <1>3 DEF Tick, TickPanics, LoopExits, Waiting
  <2>2. [heap[g] EXCEPT !.loop = l].raw = lastGood
    BY <1>2 DEF IsManager
  <2>3. QED
    BY <1>1, <2>1, <2>2, LoopKeepsGood
<1>4. CASE TickSucceeds(g)
  <2>1. PICK list \in Catalogs :
          OnlyHeap(g, Waiting(Refreshed(heap[g], list))) /\ lastGood' = list
    BY <1>1, <1>4 DEF TickSucceeds
  <2> DEFINE r == Refreshed(heap[g], list)
  <2>2. IsManager(r) /\ r.raw = list
    BY <1>2, RefreshedManager
  <2>3. OnlyHeap(g, Waiting(r))
    BY <2>1
  <2> HIDE DEF r
  <2>4. Waiting(r).raw = list
    BY <2>2 DEF Waiting, IsManager
  <2>5. QED
    BY <1>1, <2>1, <2>3, <2>4, LoopKeepsGood
<1>5. CASE TickFails(g) \/ TickAborted(g)
  <2> DEFINE r == Fail(heap[g])
  <2>1. heap[g].cfg.stale
    BY <1>1 DEF AlwaysStale, Configured, IndInv, TypeOK
  <2>2. OnlyHeap(g, Waiting(r)) /\ lastGood' = lastGood
    BY <1>5, <2>1 DEF TickFails, TickAborted
  <2>3. IsManager(r) /\ r.raw = lastGood
    BY <1>2, <2>1 DEF Fail, IsManager
  <2> HIDE DEF r
  <2>4. Waiting(r).raw = lastGood
    BY <2>3 DEF Waiting, IsManager
  <2>5. QED
    BY <1>1, <2>2, <2>4, LoopKeepsGood
<1>6. QED
  BY <1>3, <1>4, <1>5

LEMMA NextGoodKept ==
  ASSUME AlwaysStale, AlwaysRoutes
  PROVE  IndInv /\ Built /\ Configured /\ GoodKept /\ [Next]_vars => GoodKept'
<1> SUFFICES ASSUME IndInv, Built, Configured, GoodKept, [Next]_vars PROVE GoodKept'
  OBVIOUS
<1>1. ASSUME NEW p \in Callers,
             Call(p) \/ Lock(p) \/ AuthFails(p) \/ AuthSaved(p) \/ FirstRefresh(p)
             \/ CloseStop(p) \/ Join(p) \/ Install(p) \/ Drain(p) \/ Clear(p)
      PROVE  GoodKept'
  BY <1>1, EarlyKeepGood, AuthSavedKeepsGood, FirstRefreshKeepsGood, CloseStopKeepsGood,
     InstallKeepsGood, ClearKeepsGood
<1>2. ASSUME NEW g \in Slots,
             Tick(g) \/ TickSucceeds(g) \/ TickFails(g) \/ TickAborted(g)
             \/ TickPanics(g) \/ LoopExits(g)
      PROVE  GoodKept'
  BY <1>2, TicksKeepGood
<1>3. CASE UNCHANGED vars
  BY <1>3 DEF vars, local, GoodKept, Building
<1>4. QED
  BY <1>1, <1>2, <1>3 DEF Next

-----------------------------------------------------------------------------
(* The theorems.                                                           *)

\* The variables keep their types, and the configuration in force is always the one
\* of the catalog manager that is served.
THEOREM LifecycleTypeCorrect == Spec => []TypeOK
<1>1. IndInv => TypeOK
  BY DEF IndInv
<1>2. QED
  BY <1>1, Invariance, PTL

\* However many callers reconfigure and shut down at once: one refresh loop, owned by
\* the stop and done channels or awaited by the one caller that took them.
THEOREM OneOwnedLoop == Spec => []LoopOwned
<1>1. IndInv => LoopOwned
  BY DEF IndInv
<1>2. QED
  BY <1>1, Invariance, PTL

\* Shutdown reaches the drain of the host callbacks with no refresh loop left, and
\* none runs until a configuration is installed again.
THEOREM DownIsQuiet == Spec => []QuietWhenDown
<1>1. IndInv => QuietWhenDown
  <2>1. IndInv /\ served = NoSlot => \A g \in Slots : ~Live(g)
    BY Distinct DEF IndInv, LoopOwned, Waiting4Loop
  <2>2. IndInv => \A p \in Callers : pc[p] \in {"drain", "clear"} =>
                    \A g \in Slots : ~Live(g)
    BY DEF IndInv, Waiting4Loop
  <2>3. QED
    BY <2>1, <2>2 DEF QuietWhenDown
<1>2. QED
  BY <1>1, Invariance, PTL

\* stale-while-unavailable: false: after a failed refresh nothing is served, by a
\* tick or by a reconfiguration.
THEOREM ClosedServesNothing == Spec => []FailClosed
<1>1. IndInv => FailClosed
  <2>1. SUFFICES ASSUME IndInv, served # NoSlot, ~cfg.stale, ~heap[served].fresh
                 PROVE  heap[served].models = <<>>
    BY DEF FailClosed
  <2>2. served \in Slots /\ cfg = heap[served].cfg
    BY <2>1 DEF IndInv, TypeOK
  <2>3. QED
    BY <2>1, <2>2 DEF IndInv, Closed
<1>2. QED
  BY <1>1, Invariance, PTL

\* Whatever was fetched, seeded, kept or cleared, and under whichever configuration: the
\* models served are routed, named and sent by the configuration in force.
THEOREM OwnConfigServed == Spec => []ServesOwnConfig
<1>1. ASSUME IndInv, Built, Configured, served # NoSlot,
             NEW k \in 1..Len(heap[served].models)
      PROVE  LET m == heap[served].models[k] IN
             /\ m.route \in cfg.enabled
             /\ m.public = PublicID(cfg, m.upstream)
             /\ m.upstream \in DOMAIN cfg.overrides =>
                  m.route = cfg.overrides[m.upstream].route
                  /\ ~cfg.overrides[m.upstream].escapes
  <2> DEFINE list == heap[served].raw
             m == heap[served].models[k]
  <2>1. /\ served \in Slots /\ cfg = heap[served].cfg /\ list \in Entries
        /\ heap[served].models = Build(cfg, list).models
    BY <1>1, ServedCatalog
  <2>2. cfg \in Configs
    BY <1>1 DEF Configured
  <2>3. \E n \in 1..Len(list) : /\ list[n] \in Ids /\ Routed(cfg, list[n])
                                /\ m = RecordOf(cfg, list[n])
    BY <1>1, <2>1, <2>2, BuildListsRouted
  <2>4. PICK id \in Ids : Routed(cfg, id) /\ m = RecordOf(cfg, id)
    BY <2>3
  <2> HIDE DEF m
  <2>5. m.upstream = id /\ m.public = PublicID(cfg, id) /\ m.route = Resolve(cfg, id).route
    BY <2>4 DEF RecordOf
  <2>6. QED
    BY <2>4, <2>5 DEF Routed, Resolve, m
<1>2. IndInv /\ Built /\ Configured => ServesOwnConfig
  BY <1>1 DEF ServesOwnConfig
<1>3. QED
  BY <1>2, BuiltInvariance, PTL

\* Where every configuration keeps the last valid snapshot and routes something of what
\* the upstream serves, the list served is the last good one: through failing, aborted
\* and panicking ticks, reconfigurations during an outage, and shutdowns.
THEOREM LastGoodKept ==
  ASSUME AlwaysStale, AlwaysRoutes
  PROVE  Spec => []LastGoodServed
<1>1. GoodKept => LastGoodServed
  BY DEF GoodKept, LastGoodServed
<1>2. QED
  BY <1>1, InitGoodKept, NextGoodKept, BuiltInvariance, PTL DEF Spec

\* There a reconfiguration whose refresh fails goes on with the last good snapshot
\* whenever its own configuration routes something of it.
THEOREM OutageKeeps ==
  ASSUME AlwaysStale, AlwaysRoutes
  PROVE  Spec => OutageReconfigureKeeps
<1>1. ASSUME IndInv, Built, Configured, GoodKept, [Next]_vars, Built',
             NEW p \in Callers, Install(p), failed[p], arg[p].stale,
             Build(arg[p], lastGood).models # <<>>
      PROVE  heap'[served'].models # <<>>
  BY <1>1, InstalledList DEF Built, ManagerBuilt
<1>2. IndInv /\ Built /\ Configured /\ GoodKept /\ [Next]_vars /\ Built'
        => [\A p \in Callers :
              Install(p) /\ failed[p] /\ arg[p].stale /\ Build(arg[p], lastGood).models # <<>>
                => heap'[served'].models # <<>>]_vars
  BY <1>1
<1>3. Spec => [](IndInv /\ Built /\ Configured /\ GoodKept)
  BY InitGoodKept, NextGoodKept, BuiltInvariance, PTL DEF Spec
<1>4. QED
  BY <1>2, <1>3, BuiltInvariance, PTL DEF Spec, OutageReconfigureKeeps
=============================================================================
