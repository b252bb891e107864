------------------------------- MODULE Lifecycle -------------------------------
(***************************************************************************)
(* internal/plugin/plugin.go: plugin.register, plugin.reconfigure and      *)
(* plugin.shutdown, called by the host on any thread, beside the goroutine *)
(* that refreshes the catalog, with the catalog managers they install,     *)
(* seed and clear (internal/catalog, Refresh, fail and SeedFrom).          *)
(*                                                                         *)
(* A catalog manager is a slot of a heap; a slot nobody refers to is free  *)
(* and blank.  The loop goroutine of a manager lives in the manager's      *)
(* slot.  Time is left out: a fetch ends when it likes, a tick comes when  *)
(* it likes.  m.mu is held over single assignments only and is not a lock  *)
(* of the model: what it covers is one action.                             *)
(***************************************************************************)
EXTENDS Catalog, FiniteSets

CONSTANTS
  Callers,        \* host threads that make lifecycle calls
  Slots,          \* heap of catalog managers
  Catalogs,       \* lists the upstream may serve
  NoSlot, NoCfg, NoCaller

\* A configuration also has catalog.stale-while-unavailable.
LifecycleAssumption ==
  /\ \A c \in Configs : c.stale \in BOOLEAN
  /\ Catalogs \subseteq Seq(Ids \cup {NoId})
  /\ NoSlot \notin Slots /\ NoCfg \notin Configs /\ NoCaller \notin Callers
ASSUME LifecycleAssumption

VARIABLES
  lifeMu,      \* the caller that holds the lock, or NoCaller
  pc,          \* pc[p]: where the lifecycle call of thread p is
  arg,         \* arg[p]: configuration of its register or reconfigure
  mine,        \* mine[p]: the catalog manager it has made
  failed,      \* failed[p]: the refresh of that manager failed
  old,         \* old[p]: the loop it has told to stop and waits for
  heap,        \* heap[g]: a catalog manager and its loop
  served,      \* m.mgr
  cfg,         \* m.cfg
  current,     \* m.stop and m.done: the loop they belong to
  lastGood     \* history: the last list fetched that the policy lets us keep

vars == <<lifeMu, pc, arg, mine, failed, old, heap, served, cfg, current, lastGood>>
local == <<arg, mine, failed, old>>

Blank == [cfg |-> NoCfg, raw |-> <<>>, models |-> <<>>, fresh |-> FALSE,
          loop |-> "none", stop |-> FALSE]

\* fresh: its last refresh succeeded.  stop: the stop channel of its loop is closed.
ManagerOf(c) == [Blank EXCEPT !.cfg = c]

TypeOK ==
  /\ lifeMu \in Callers \cup {NoCaller}
  /\ pc \in [Callers -> {"idle", "locking", "auth", "refresh", "stop", "join",
                         "install", "drain", "clear"}]
  /\ arg \in [Callers -> Configs \cup {NoCfg}]
  /\ mine \in [Callers -> Slots \cup {NoSlot}]
  /\ old \in [Callers -> Slots \cup {NoSlot}]
  /\ failed \in [Callers -> BOOLEAN]
  /\ \A g \in Slots :
       /\ heap[g].cfg \in Configs \cup {NoCfg}
       /\ heap[g].raw \in Catalogs \cup {<<>>}
       /\ heap[g].fresh \in BOOLEAN /\ heap[g].stop \in BOOLEAN
       /\ heap[g].loop \in {"none", "waiting", "fetching", "gone"}
  /\ served \in Slots \cup {NoSlot} /\ current \in Slots \cup {NoSlot}
  /\ cfg = (IF served = NoSlot THEN NoCfg ELSE heap[served].cfg)
  /\ lastGood \in Catalogs \cup {<<>>}

Init ==
  /\ lifeMu = NoCaller
  /\ pc = [p \in Callers |-> "idle"]
  /\ arg = [p \in Callers |-> NoCfg]
  /\ mine = [p \in Callers |-> NoSlot]
  /\ failed = [p \in Callers |-> FALSE]
  /\ old = [p \in Callers |-> NoSlot]
  /\ heap = [g \in Slots |-> Blank]
  /\ served = NoSlot /\ cfg = NoCfg /\ current = NoSlot
  /\ lastGood = <<>>

-----------------------------------------------------------------------------
(* Catalog managers.                                                       *)

Live(g) == heap[g].loop \in {"waiting", "fetching"}

Free == {g \in Slots : /\ g # served /\ g # current /\ ~Live(g)
                       /\ \A p \in Callers : mine[p] # g /\ old[p] # g}

\* swap: the snapshot is rebuilt from the list under the manager's own cfg.
Swapped(m, list) ==
  [m EXCEPT !.raw = list, !.models = Build(m.cfg, list).models]

\* A refresh that succeeds.
Refreshed(m, list) == [Swapped(m, list) EXCEPT !.fresh = TRUE]

\* Fault: a failed refresh clears the snapshot whatever the policy.
FailClears(m) == [m EXCEPT !.raw = <<>>, !.models = <<>>, !.fresh = FALSE]

\* fail: the snapshot stays, or goes under the fail-closed policy.
Fail(m) ==
  IF m.cfg.stale THEN [m EXCEPT !.fresh = FALSE]
  ELSE [m EXCEPT !.raw = <<>>, !.models = <<>>, !.fresh = FALSE]

\* Fault: the records of the previous manager are copied as they are.
SeedFromCopies(m, prev) == [m EXCEPT !.raw = prev.raw, !.models = prev.models]

\* SeedFrom.
SeedFrom(m, prev) == Swapped(m, prev.raw)

-----------------------------------------------------------------------------
(* The callers.                                                            *)

Goto(p, l) == pc' = [pc EXCEPT ![p] = l]

\* The call returns: the lock is released and its locals are gone.
Return(p) ==
  /\ Goto(p, "idle")
  /\ lifeMu' = NoCaller
  /\ arg' = [arg EXCEPT ![p] = NoCfg]
  /\ mine' = [mine EXCEPT ![p] = NoSlot]
  /\ failed' = [failed EXCEPT ![p] = FALSE]
  /\ old' = [old EXCEPT ![p] = NoSlot]

\* The host calls register or reconfigure with a valid configuration (an invalid
\* one is answered before the lock), or shutdown, which has none.
Call(p) ==
  /\ pc[p] = "idle"
  /\ \E c \in Configs \cup {NoCfg} : arg' = [arg EXCEPT ![p] = c]
  /\ Goto(p, "locking")
  /\ UNCHANGED <<lifeMu, mine, failed, old, heap, served, cfg, current, lastGood>>

\* Fault: the lifecycle calls do not exclude one another.
LockAtOnce(p) ==
  /\ pc[p] = "locking"
  /\ lifeMu' = p
  /\ Goto(p, IF arg[p] = NoCfg THEN "stop" ELSE "auth")
  /\ UNCHANGED <<local, heap, served, cfg, current, lastGood>>

\* lifeMu.Lock.
Lock(p) ==
  /\ pc[p] = "locking" /\ lifeMu = NoCaller
  /\ lifeMu' = p
  /\ Goto(p, IF arg[p] = NoCfg THEN "stop" ELSE "auth")
  /\ UNCHANGED <<local, heap, served, cfg, current, lastGood>>

\* The auth records cannot be listed or saved: an error, and nothing has changed.
AuthFails(p) ==
  /\ pc[p] = "auth"
  /\ Return(p)
  /\ UNCHANGED <<heap, served, cfg, current, lastGood>>

\* The auth records are there; a catalog manager for the new configuration.
AuthSaved(p) ==
  /\ pc[p] = "auth"
  /\ \E g \in Free :
       /\ g = CHOOSE x \in Free : TRUE
       /\ mine' = [mine EXCEPT ![p] = g]
       /\ heap' = [heap EXCEPT ![g] = ManagerOf(arg[p])]
  /\ Goto(p, "refresh")
  /\ UNCHANGED <<lifeMu, arg, failed, old, served, cfg, current, lastGood>>

\* refreshOnce within registerRefreshTimeout: a list, or any failure.
FirstRefresh(p) ==
  /\ pc[p] = "refresh"
  /\ \/ \E list \in Catalogs :
          /\ heap' = [heap EXCEPT ![mine[p]] = Refreshed(@, list)]
          /\ failed' = failed
     \/ /\ heap' = [heap EXCEPT ![mine[p]] = Fail(@)]
        /\ failed' = [failed EXCEPT ![p] = TRUE]
  /\ Goto(p, "stop")
  /\ UNCHANGED <<lifeMu, arg, mine, old, served, cfg, current, lastGood>>

AfterJoin(p) == IF arg[p] = NoCfg THEN "drain" ELSE "install"

\* Fault: the channel is forgotten and never closed.
CloseStopForgets(p) ==
  /\ pc[p] = "stop"
  /\ old' = [old EXCEPT ![p] = current]
  /\ current' = NoSlot
  /\ Goto(p, IF current = NoSlot THEN AfterJoin(p) ELSE "join")
  /\ UNCHANGED <<lifeMu, arg, mine, failed, heap, served, cfg, lastGood>>

\* closeStop: the running loop, if any, is told to stop.
CloseStop(p) ==
  /\ pc[p] = "stop"
  /\ old' = [old EXCEPT ![p] = current]
  /\ heap' = [g \in Slots |-> IF g = current THEN [heap[g] EXCEPT !.stop = TRUE]
                              ELSE heap[g]]
  /\ current' = NoSlot
  /\ Goto(p, IF current = NoSlot THEN AfterJoin(p) ELSE "join")
  /\ UNCHANGED <<lifeMu, arg, mine, failed, served, cfg, lastGood>>

\* Fault: the loop is not waited for.
JoinSkipped(p) ==
  /\ pc[p] = "join"
  /\ Goto(p, AfterJoin(p))
  /\ UNCHANGED <<lifeMu, local, heap, served, cfg, current, lastGood>>

\* <-oldDone, with lifeMu held and m.mu free.
Join(p) ==
  /\ pc[p] = "join" /\ heap[old[p]].loop = "gone"
  /\ Goto(p, AfterJoin(p))
  /\ UNCHANGED <<lifeMu, local, heap, served, cfg, current, lastGood>>

\* Fault: the snapshot is kept on a failed refresh whatever the new policy.
KeepsSnapshotAlways(p) ==
  failed[p] /\ served # NoSlot /\ heap[served].models # <<>>

\* When the new manager starts from the snapshot of the previous one.
KeepsSnapshot(p) ==
  failed[p] /\ arg[p].stale /\ served # NoSlot /\ heap[served].models # <<>>

\* The new configuration and manager are served, seeded if need be, and their
\* loop starts.  The previous manager is garbage once its loop is gone.
Install(p) ==
  LET g == mine[p]
      m == IF KeepsSnapshot(p) THEN SeedFrom(heap[g], heap[served]) ELSE heap[g] IN
  /\ pc[p] = "install"
  /\ heap' = [s \in Slots |->
                IF s = g THEN [m EXCEPT !.loop = "waiting", !.stop = FALSE]
                ELSE IF s = served /\ ~Live(s) THEN Blank ELSE heap[s]]
  /\ cfg' = arg[p] /\ served' = g /\ current' = g
  /\ lastGood' = IF ~failed[p] THEN heap[g].raw
                 ELSE IF arg[p].stale THEN lastGood ELSE <<>>
  /\ Return(p)

\* WaitForInFlight, which ends by itself or by its timeout (see HostBridge).
Drain(p) ==
  /\ pc[p] = "drain"
  /\ Goto(p, "clear")
  /\ UNCHANGED <<lifeMu, local, heap, served, cfg, current, lastGood>>

\* Fault: shutdown forgets the configuration only.
ClearKeepsManager(p) ==
  /\ pc[p] = "clear"
  /\ cfg' = NoCfg
  /\ lastGood' = <<>>
  /\ Return(p)
  /\ UNCHANGED <<heap, served, current>>

\* shutdown forgets configuration and manager.
Clear(p) ==
  /\ pc[p] = "clear"
  /\ heap' = [s \in Slots |-> IF s = served /\ ~Live(s) THEN Blank ELSE heap[s]]
  /\ cfg' = NoCfg /\ served' = NoSlot
  /\ lastGood' = <<>>
  /\ Return(p)
  /\ UNCHANGED current

-----------------------------------------------------------------------------
(* The refresh loop of the manager in slot g.                              *)

OnlyHeap(g, m) ==
  /\ heap' = [heap EXCEPT ![g] = m]
  /\ UNCHANGED <<lifeMu, pc, local, served, cfg, current>>

\* A tick.  select may choose it although the stop channel is closed too.
Tick(g) ==
  /\ heap[g].loop = "waiting"
  /\ OnlyHeap(g, [heap[g] EXCEPT !.loop = "fetching"])
  /\ UNCHANGED lastGood

Waiting(m) == [m EXCEPT !.loop = "waiting"]

\* The fetch succeeds, perhaps in a race with the cancellation of its context.
TickSucceeds(g) ==
  /\ heap[g].loop = "fetching"
  /\ \E list \in Catalogs :
       /\ OnlyHeap(g, Waiting(Refreshed(heap[g], list)))
       /\ lastGood' = IF g = served THEN list ELSE lastGood

\* Fault: a failed fetch ends the loop.
TickFailsForGood(g) ==
  /\ heap[g].loop = "fetching" /\ ~heap[g].stop
  /\ OnlyHeap(g, [Fail(heap[g]) EXCEPT !.loop = "gone"])
  /\ lastGood' = IF g = served /\ ~heap[g].cfg.stale THEN <<>> ELSE lastGood

\* The fetch fails.
TickFails(g) ==
  /\ heap[g].loop = "fetching" /\ ~heap[g].stop
  /\ OnlyHeap(g, Waiting(Fail(heap[g])))
  /\ lastGood' = IF g = served /\ ~heap[g].cfg.stale THEN <<>> ELSE lastGood

\* The closed stop channel cancels the fetch, which Refresh takes for a failure.
TickAborted(g) ==
  /\ heap[g].loop = "fetching" /\ heap[g].stop
  /\ OnlyHeap(g, Waiting(Fail(heap[g])))
  /\ UNCHANGED lastGood

\* A panic of the tick is recovered; the snapshot is as it was.
TickPanics(g) ==
  /\ heap[g].loop = "fetching"
  /\ OnlyHeap(g, Waiting(heap[g]))
  /\ UNCHANGED lastGood

\* The loop sees the stop channel closed and closes done.
LoopExits(g) ==
  /\ heap[g].loop = "waiting" /\ heap[g].stop
  /\ OnlyHeap(g, [heap[g] EXCEPT !.loop = "gone"])
  /\ UNCHANGED lastGood

-----------------------------------------------------------------------------
Next ==
  \/ \E p \in Callers :
       \/ Call(p) \/ Lock(p) \/ AuthFails(p) \/ AuthSaved(p) \/ FirstRefresh(p)
       \/ CloseStop(p) \/ Join(p) \/ Install(p) \/ Drain(p) \/ Clear(p)
  \/ \E g \in Slots :
       \/ Tick(g) \/ TickSucceeds(g) \/ TickFails(g) \/ TickAborted(g)
       \/ TickPanics(g) \/ LoopExits(g)

Spec == Init /\ [][Next]_vars

\* A Go mutex serves every waiter; a callback that authenticates or fetches ends by
\* its deadline (HostBridge); the ticker ticks; of a closed stop channel and a
\* tick select picks the channel sooner or later.
Working(p) == AuthFails(p) \/ AuthSaved(p) \/ FirstRefresh(p) \/ CloseStop(p)
              \/ Join(p) \/ Install(p) \/ Drain(p) \/ Clear(p)
FetchEnds(g) == TickSucceeds(g) \/ TickFails(g) \/ TickAborted(g) \/ TickPanics(g)
Fairness ==
  /\ \A p \in Callers : SF_vars(Lock(p)) /\ WF_vars(Working(p))
  /\ \A g \in Slots : WF_vars(Tick(g)) /\ WF_vars(FetchEnds(g)) /\ SF_vars(LoopExits(g))

FairSpec == Spec /\ Fairness

-----------------------------------------------------------------------------
(* Properties.                                                             *)

\* lifeMu keeps stop, wait and install together: a loop that runs is the one the
\* stop and done channels belong to and refreshes the manager that is served, or it
\* has been told to stop and one caller waits for it.
LoopOwned ==
  /\ \A g \in Slots : Live(g) =>
       (g = current) <=> ~\E p \in Callers : pc[p] = "join" /\ old[p] = g
  /\ current # NoSlot => current = served /\ ~heap[current].stop

\* Before shutdown drains the host callbacks, and for as long as nothing is served
\* afterwards, no refresh loop is left that could still call the host.
QuietWhenDown ==
  served = NoSlot \/ (\E p \in Callers : pc[p] \in {"drain", "clear"})
    => \A g \in Slots : ~Live(g)

\* stale-while-unavailable: false is honoured on both paths, ticks and
\* reconfiguration: after a failed refresh nothing is served.
FailClosed ==
  served # NoSlot /\ ~cfg.stale /\ ~heap[served].fresh => heap[served].models = <<>>

\* Every model served is one the configuration in force routes: its protocol is
\* on, its id carries the prefix in force, its endpoint stays on the upstream; also
\* when the snapshot was fetched under another configuration.
ServesOwnConfig ==
  served # NoSlot =>
    \A k \in 1..Len(heap[served].models) :
      LET m == heap[served].models[k] IN
      /\ m.route \in cfg.enabled
      /\ m.public = PublicID(cfg, m.upstream)
      /\ m.upstream \in DOMAIN cfg.overrides =>
           m.route = cfg.overrides[m.upstream].route /\ ~cfg.overrides[m.upstream].escapes

\* "When true, serves the last valid catalog snapshot if an update fails": across
\* failing, aborted and panicking ticks and reconfigurations during an outage.
LastGoodServed ==
  served # NoSlot /\ cfg.stale => heap[served].raw = lastGood

\* "a failed refresh must neither wipe a non-empty previous snapshot": a
\* reconfiguration under the stale policy whose refresh fails goes on with the last
\* good snapshot.
OutageReconfigureKeeps ==
  [][\A p \in Callers :
       Install(p) /\ failed[p] /\ arg[p].stale /\ Build(arg[p], lastGood).models # <<>>
         => heap'[served'].models # <<>>]_vars

\* register, reconfigure and shutdown return to the host, whatever the upstream
\* and the refresh loop do.
CallsReturn == \A p \in Callers : pc[p] # "idle" ~> pc[p] = "idle"

\* The served catalog is refreshed again and again: no failure, panic or abort of a
\* tick ends the loop while its manager is served.
RefreshGoesOn ==
  \A g \in Slots : current = g ~> (heap[g].loop = "fetching" \/ current # g)
=============================================================================
