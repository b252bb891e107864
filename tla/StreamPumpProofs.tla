---------------------------- MODULE StreamPumpProofs ----------------------------
(***************************************************************************)
(* Theorems about StreamPump, for any size limit and any number of events. *)
(***************************************************************************)
EXTENDS StreamPump, FiniteSetTheorems, SequenceTheorems, TLAPS

-----------------------------------------------------------------------------
(* The invariant.                                                          *)

\* A bounded downstream call is made for an event of the batch or for the close.
CallsPlaced ==
  /\ req.call # "none" => req.pc \in {"emitting", "closingDown"}
  /\ req.pc = "emitting" /\ req.call # "none" => req.pending # <<>>

\* closeOnce is used by whoever closes the upstream next, and no way out of the
\* pump or of the handler comes before that close.
CloseOnce ==
  /\ req.pc \in {"closingDown", "returning", "gone", "failed"} => req.up # "open"
  /\ req.once => req.pc = "closingUp" \/ req.up # "open"
  /\ req.pc \in {"idle", "opening"} => req.up = "none" /\ req.watchdog = "off"
  /\ req.pc \in {"idle", "failed"} \cup Handler => ~req.once

Quiet == req.pc \notin Handler \cup Pumping /\ req.orphan = {}

\* A drain that has been told of zero stays right about pump and orphans, for no
\* request starts any more.
DrainRight ==
  /\ waiter # "none" => shutdown # "serving"
  /\ waiter = "passed" => Quiet
  /\ shutdown = "drained" => Quiet

IndInv == TypeOK /\ CallsPlaced /\ CloseOnce /\ DrainRight

-----------------------------------------------------------------------------
(* Facts.                                                                  *)

LEMMA EventsAreItems == 1..MaxEvents \subseteq Items /\ CleanClose \in Items /\ FailedClose \in Items
BY PumpAssumption DEF PumpAssumption, Items, CleanClose, FailedClose

LEMMA NextEvent ==
  ASSUME NEW s \in Seq(1..MaxEvents), s # <<>>
  PROVE  Head(s) \in 1..MaxEvents /\ Head(s) \in Items /\ Tail(s) \in Seq(1..MaxEvents)
<1>1. Head(s) \in 1..MaxEvents /\ Tail(s) \in Seq(1..MaxEvents)
  BY HeadTailProperties
<1>. QED  BY <1>1, EventsAreItems

\* The stream downstream is one of items, whatever is accepted next.
LEMMA DownGrows ==
  ASSUME req \in Requests
  PROVE  /\ \A x \in Items : Append(req.down, x) \in Seq(Items)
         /\ \A o \in req.orphan : o \in Items /\ Append(req.down, o) \in Seq(Items)
<1>1. req.down \in Seq(Items) /\ req.orphan \subseteq Items
  BY DEF Requests
<1>. QED  BY <1>1

\* A payload within the limit keeps the total within it.
LEMMA TotalTyped ==
  ASSUME req \in Requests, ~OverLimit
  PROVE  req.total + req.last.size \in 0..MaxResponseBytes
<1>1. req.total \in 0..MaxResponseBytes /\ req.last \in Reads
  BY DEF Requests
<1>2. req.last.size \in 0..(MaxResponseBytes + 1)
  BY <1>1 DEF Reads
<1>. QED  BY <1>1, <1>2, PumpAssumption DEF PumpAssumption, OverLimit

\* A batch is within the bound on events.
LEMMA BatchTyped ==
  ASSUME req \in Requests, NEW n \in 0..(MaxEvents - req.produced)
  PROVE  Batch(n) \in Seq(1..MaxEvents) /\ req.produced + n \in 0..MaxEvents
<1>1. req.produced \in 0..MaxEvents
  BY DEF Requests
<1>2. n \in Nat /\ req.produced + n \in 0..MaxEvents
  BY <1>1, PumpAssumption DEF PumpAssumption
<1>3. \A k \in 1..n : req.produced + k \in 1..MaxEvents
  BY <1>1, <1>2, PumpAssumption DEF PumpAssumption
<1>4. Batch(n) \in [1..n -> 1..MaxEvents]
  BY <1>3 DEF Batch
<1>. QED  BY <1>2, <1>4, SeqDef

\* At zero nobody of the request is in the host and the pump is not running.
LEMMA ZeroIsQuiet ==
  ASSUME req \in Requests, Count = 0
  PROVE  Quiet
<1>1. IsFiniteSet(Items)
  <2>0. 0 \in Int /\ MaxEvents \in Int
    BY PumpAssumption DEF PumpAssumption
  <2>1. IsFiniteSet({FailedClose}) /\ IsFiniteSet(0..MaxEvents)
    BY <2>0, FS_Singleton, FS_Interval
  <2>. QED  BY <2>1, FS_Union DEF Items
<1>2. IsFiniteSet(req.orphan)
  BY <1>1, FS_Subset DEF Requests
<1>3. Cardinality(req.orphan) \in Nat /\ (Cardinality(req.orphan) = 0 <=> req.orphan = {})
  BY <1>2, FS_CardinalityType, FS_EmptySet
<1>4. \A b \in BOOLEAN : One(b) \in {0, 1} /\ (One(b) = 0 <=> ~b)
  BY DEF One
<1>. DEFINE pump == req.pc \in Pumping
            calls == req.pc \in Handler \cup {"reading", "closingUp"} \/ req.call # "none"
            closes == req.watchdog = "closing"
<1>5. One(pump) + One(calls) + One(closes) + Cardinality(req.orphan) = 0
  BY DEF Count, CountOf
<1>6. pump \in BOOLEAN /\ calls \in BOOLEAN /\ closes \in BOOLEAN
  OBVIOUS
<1>. HIDE DEF pump, calls, closes
<1>7. ~pump /\ ~calls /\ Cardinality(req.orphan) = 0
  BY <1>3, <1>4, <1>5, <1>6
<1>. QED  BY <1>3, <1>7 DEF Quiet, pump, calls

\* A timed-out call joins the orphans.
Joined(r, o) == [r EXCEPT !.orphan = @ \cup {o}]

LEMMA OrphanJoins ==
  ASSUME NEW r \in Requests, NEW o \in Items
  PROVE  /\ Joined(r, o) \in Requests
         /\ Joined(r, o).pc = r.pc /\ Joined(r, o).call = r.call
         /\ Joined(r, o).once = r.once
BY DEF Requests, Joined

LEMMA CutByWatchdog ==
  ASSUME NEW r \in Requests
  PROVE  [r EXCEPT !.watchdog = "ended", !.up = "closed"] \in Requests
BY DEF Requests

RequestSteps ==
  \/ Execute \/ OpenFails \/ OpenRejected \/ ErrorBodyRead \/ ErrorClosed
  \/ OpenSucceeds
  \/ ReadReturns \/ Decide
  \/ EmitNext \/ HostAcceptsEvent \/ EmitReturns \/ EmitFails
  \/ NextRead \/ FlushConverter \/ LeaveLoop
  \/ UpstreamClosed \/ HostClosesDownstream \/ DownstreamClosed
  \/ StopWatchdog \/ PumpExits
  \/ WatchdogFires \/ WatchdogFlags \/ WatchdogCalls \/ WatchdogClosed
  \/ OrphanEnds

\* What every step of the request does to the drain.
LEMMA RequestStepWakes ==
  ASSUME RequestSteps
  PROVE  /\ shutdown' = shutdown
         /\ waiter' = waiter \/ (waiter = "waiting" /\ waiter' = "woken")
<1>1. \E r : Becomes(r)
  BY DEF RequestSteps, Execute, OpenFails, OpenRejected, ErrorBodyRead, ErrorClosed,
         OpenSucceeds, ReadReturns, Decide, EmitNext, HostAcceptsEvent, EmitReturns,
         EmitFails, NextRead, FlushConverter, LeaveLoop, UpstreamClosed,
         HostClosesDownstream, DownstreamClosed, StopWatchdog, PumpExits, WatchdogFires,
         WatchdogFlags, WatchdogCalls, WatchdogClosed, OrphanEnds
<1>2. PICK r : Becomes(r)
  BY <1>1
<1>3. shutdown' = shutdown /\ (waiter = "waiting" /\ CountOf(r) = 0 => waiter' = "woken")
  BY <1>2 DEF Becomes
<1>4. ~(waiter = "waiting" /\ CountOf(r) = 0) => waiter' = waiter
  BY <1>2 DEF Becomes
<1>5. CASE waiter = "waiting" /\ CountOf(r) = 0
  BY <1>3, <1>5
<1>6. CASE ~(waiter = "waiting" /\ CountOf(r) = 0)
  BY <1>3, <1>4, <1>6
<1>. QED  BY <1>5, <1>6

-----------------------------------------------------------------------------
(* The steps of the request.                                               *)

Placed == req \in Requests /\ CallsPlaced /\ CloseOnce

\* The handler thread.
LEMMA HandlerStep ==
  ASSUME Placed,
         Execute \/ OpenFails \/ OpenRejected \/ ErrorBodyRead \/ ErrorClosed \/ OpenSucceeds
  PROVE  Placed'
<1>. USE DEF Placed, CallsPlaced, CloseOnce, Requests, Handler, Pumping, Becomes
<1>1. CASE Execute
  BY <1>1 DEF Execute
<1>2. CASE OpenFails
  BY <1>2 DEF OpenFails
<1>3. CASE OpenRejected
  BY <1>3 DEF OpenRejected
<1>4. CASE ErrorBodyRead
  BY <1>4 DEF ErrorBodyRead, Stopped
<1>5. CASE ErrorClosed
  BY <1>5 DEF ErrorClosed
<1>6. CASE OpenSucceeds
  BY <1>6 DEF OpenSucceeds
<1>. QED  BY <1>1, <1>2, <1>3, <1>4, <1>5, <1>6

\* The pump loop.
LEMMA LoopStep ==
  ASSUME Placed,
         \/ ReadReturns \/ Decide \/ EmitNext \/ HostAcceptsEvent \/ EmitReturns
         \/ EmitFails \/ NextRead \/ FlushConverter \/ LeaveLoop
  PROVE  Placed'
<1>. USE DEF Placed, CallsPlaced, CloseOnce, Requests, Handler, Pumping, Becomes
<1>1. CASE ReadReturns
  <2>1. PICK r \in Reads :
          Becomes([req EXCEPT !.pc = "deciding", !.last = r,
                              !.ended = req.up = "open" /\ r.closed])
    BY <1>1 DEF ReadReturns
  <2>2. (req.up = "open" /\ r.closed) \in BOOLEAN /\ r \in Reads
    OBVIOUS
  <2>3. req.call = "none"
    BY <1>1 DEF ReadReturns
  <2>. HIDE DEF Reads
  <2>. QED  BY <1>1, <2>1, <2>2, <2>3 DEF ReadReturns
<1>2. CASE Decide
  <2>1. CASE \E l \in {"timeout", "upstream", "limit", "convert"} :
               req.pc = "deciding" /\ Becomes(Failing(req, l))
    <3>1. PICK l \in {"timeout", "upstream", "limit", "convert"} : Becomes(Failing(req, l))
      BY <2>1
    <3>2. req' = [req EXCEPT !.pc = "closingUp", !.label = l, !.once = TRUE]
      BY <3>1 DEF Failing
    <3>. QED  BY <2>1, <3>2
  <2>2. ASSUME NEW n \in 0..(MaxEvents - req.produced), NEW fin \in BOOLEAN,
               req.pc = "deciding", ~OverLimit, Becomes(Fed(n, fin))
        PROVE  Placed'
    <3>1. Batch(n) \in Seq(1..MaxEvents) /\ req.produced + n \in 0..MaxEvents
      BY BatchTyped
    <3>2. req.total + req.last.size \in 0..MaxResponseBytes
      BY <2>2, TotalTyped
    <3>. QED  BY <2>2, <3>1, <3>2 DEF Fed
  <2>. QED  BY <1>2, <2>1, <2>2 DEF Decide
<1>3. CASE EmitNext
  BY <1>3 DEF EmitNext
<1>4. CASE HostAcceptsEvent
  <2>1. /\ req' = [req EXCEPT !.call = "accepted", !.down = Append(@, Head(req.pending))]
        /\ req.pc = "emitting" /\ req.pending # <<>>
    BY <1>4 DEF HostAcceptsEvent
  <2>2. Head(req.pending) \in Items
    BY <2>1, NextEvent
  <2>3. Append(req.down, Head(req.pending)) \in Seq(Items)
    BY <2>2, DownGrows
  <2>. QED  BY <2>1, <2>3
<1>5. CASE EmitReturns
  <2>1. /\ req' = [req EXCEPT !.call = "none", !.pending = Tail(@)]
        /\ req.pc = "emitting" /\ req.pending # <<>>
    BY <1>5 DEF EmitReturns
  <2>2. Tail(req.pending) \in Seq(1..MaxEvents)
    BY <2>1, NextEvent
  <2>. QED  BY <2>1, <2>2
<1>6. CASE EmitFails
  <2>. DEFINE failed == Failing([req EXCEPT !.call = "none"], "emit")
  <2>1. /\ req.pc = "emitting" /\ req.pending # <<>>
        /\ \/ Becomes(failed)
           \/ Becomes([failed EXCEPT !.orphan = @ \cup {Head(req.pending)}])
    BY <1>6 DEF EmitFails
  <2>2. Head(req.pending) \in Items
    BY <2>1, NextEvent
  <2>3. /\ failed = [req EXCEPT !.call = "none", !.pc = "closingUp", !.label = "emit", !.once = TRUE]
        /\ failed \in Requests
    BY DEF Failing
  <2>4. failed.pc = "closingUp" /\ failed.call = "none" /\ failed.once /\ failed.orphan = req.orphan
    BY <2>3
  <2>. HIDE DEF failed
  <2>. HIDE DEF CallsPlaced, CloseOnce, Placed
  <2>5. /\ req' \in Requests
        /\ req'.pc = "closingUp" /\ req'.call = "none" /\ req'.once
    <3>1. CASE Becomes(failed)
      <4>. HIDE DEF Requests
      <4>. QED  BY <2>3, <2>4, <3>1
    <3>2. CASE Becomes([failed EXCEPT !.orphan = @ \cup {Head(req.pending)}])
      <4>. HIDE DEF Requests
      <4>1. req' = Joined(failed, Head(req.pending))
        BY <3>2 DEF Joined
      <4>. HIDE DEF Becomes
      <4>. QED  BY <2>2, <2>3, <2>4, <4>1, OrphanJoins
    <3>. QED  BY <2>1, <3>1, <3>2
  <2>. HIDE DEF Requests
  <2>. QED  BY <2>5 DEF Placed, CallsPlaced, CloseOnce
<1>7. CASE NextRead
  BY <1>7 DEF NextRead, BatchOut
<1>8. CASE FlushConverter
  <2>1. PICK n \in 0..(MaxEvents - req.produced) :
          Becomes([req EXCEPT !.flushed = TRUE, !.pending = Batch(n), !.produced = @ + n])
    BY <1>8 DEF FlushConverter
  <2>2. Batch(n) \in Seq(1..MaxEvents) /\ req.produced + n \in 0..MaxEvents
    BY BatchTyped
  <2>. QED  BY <1>8, <2>1, <2>2 DEF FlushConverter, BatchOut
<1>9. CASE LeaveLoop
  BY <1>9 DEF LeaveLoop, BatchOut
<1>. QED  BY <1>1, <1>2, <1>3, <1>4, <1>5, <1>6, <1>7, <1>8, <1>9

\* Closing, the watchdog and the orphans.
LEMMA ClosingStep ==
  ASSUME Placed,
         \/ UpstreamClosed \/ HostClosesDownstream \/ DownstreamClosed
         \/ StopWatchdog \/ PumpExits
         \/ WatchdogFires \/ WatchdogFlags \/ WatchdogCalls \/ WatchdogClosed
         \/ OrphanEnds
  PROVE  Placed'
<1>. USE DEF Placed, CallsPlaced, CloseOnce, Requests, Handler, Pumping, Becomes
<1>00. req \in Requests
  BY DEF Placed
<1>0. CloseItem \in Items
  BY EventsAreItems DEF CloseItem
<1>1. CASE UpstreamClosed
  BY <1>1 DEF UpstreamClosed
<1>2. CASE HostClosesDownstream
  <2>1. /\ req' = [req EXCEPT !.call = "accepted", !.down = Append(@, CloseItem)]
        /\ req.pc = "closingDown"
    BY <1>2 DEF HostClosesDownstream
  <2>2. Append(req.down, CloseItem) \in Seq(Items)
    BY <1>0, DownGrows
  <2>. QED  BY <2>1, <2>2
<1>3. CASE DownstreamClosed
  BY <1>0, <1>3 DEF DownstreamClosed
<1>4. CASE StopWatchdog
  <2>1. CASE req.once
    BY <1>4, <2>1 DEF StopWatchdog, Stopped
  <2>2. CASE ~req.once
    BY <1>4, <2>2 DEF StopWatchdog, Stopped
  <2>. QED  BY <2>1, <2>2
<1>5. CASE PumpExits
  BY <1>5 DEF PumpExits
<1>6. CASE WatchdogFires
  BY <1>6 DEF WatchdogFires
<1>7. CASE WatchdogFlags
  BY <1>7 DEF WatchdogFlags
<1>8. CASE WatchdogCalls
  BY <1>8 DEF WatchdogCalls
<1>9. CASE WatchdogClosed
  <2>1. req' = [req EXCEPT !.watchdog = "ended", !.up = "closed"]
    BY <1>9 DEF WatchdogClosed
  <2>2. req.pc \notin {"idle", "opening"}
    BY <1>9 DEF WatchdogClosed
  <2>. HIDE DEF CallsPlaced, CloseOnce, Placed
  <2>3. req' \in Requests
    <3>. HIDE DEF Requests
    <3>. QED  BY <2>1, <1>00, CutByWatchdog
  <2>4. req'.pc = req.pc /\ req'.once = req.once /\ req'.up = "closed" /\ req'.call = req.call
        /\ req'.pending = req.pending /\ req'.watchdog = "ended"
    BY <2>1
  <2>. HIDE DEF Requests
  <2>. QED  BY <2>2, <2>3, <2>4 DEF Placed, CallsPlaced, CloseOnce
<1>10. CASE OrphanEnds
  <2>1. PICK o \in req.orphan :
          \/ Becomes([req EXCEPT !.orphan = @ \ {o}, !.down = Append(@, o)])
          \/ Becomes([req EXCEPT !.orphan = @ \ {o}])
    BY <1>10 DEF OrphanEnds
  <2>2. Append(req.down, o) \in Seq(Items)
    BY DownGrows
  <2>3. CASE Becomes([req EXCEPT !.orphan = @ \ {o}, !.down = Append(@, o)])
    BY <2>2, <2>3
  <2>4. CASE Becomes([req EXCEPT !.orphan = @ \ {o}])
    BY <2>4
  <2>. QED  BY <2>1, <2>3, <2>4
<1>. QED  BY <1>1, <1>2, <1>3, <1>4, <1>5, <1>6, <1>7, <1>8, <1>9, <1>10

-----------------------------------------------------------------------------
(* The drain.                                                              *)

\* A request that is over, with no orphan left, stays so: nothing but a new
\* request starts a pump or a call that can be orphaned.
LEMMA QuietStays ==
  ASSUME Placed, Quiet, shutdown # "serving", RequestSteps
  PROVE  Quiet'
<1>1. req.pc \notin Handler \cup Pumping /\ req.orphan = {} /\ req.call = "none" /\ req \in Requests
  BY DEF Placed, CallsPlaced, Quiet, Pumping
<1>2. WatchdogFires \/ WatchdogFlags \/ WatchdogCalls \/ WatchdogClosed
  BY <1>1 DEF RequestSteps, Handler, Pumping, Execute, OpenFails, OpenRejected, ErrorBodyRead,
         ErrorClosed, OpenSucceeds, ReadReturns, Decide, EmitNext, HostAcceptsEvent,
         EmitReturns, EmitFails, NextRead, FlushConverter, LeaveLoop, BatchOut,
         UpstreamClosed, HostClosesDownstream, DownstreamClosed, StopWatchdog, PumpExits,
         OrphanEnds
<1>3. req'.pc = req.pc /\ req'.orphan = req.orphan
  BY <1>1, <1>2 DEF Requests, WatchdogFires, WatchdogFlags, WatchdogCalls, WatchdogClosed, Becomes
<1>. QED  BY <1>1, <1>3 DEF Quiet

LEMMA RequestStepKeeps ==
  ASSUME IndInv, RequestSteps
  PROVE  IndInv'
<1>1. Placed'
  BY HandlerStep, LoopStep, ClosingStep DEF RequestSteps, IndInv, TypeOK, Placed
<1>2. shutdown' = shutdown /\ (waiter' = waiter \/ (waiter = "waiting" /\ waiter' = "woken"))
  BY RequestStepWakes
<1>3. TypeOK'
  BY <1>1, <1>2 DEF Placed, IndInv, TypeOK
<1>4. waiter # "none" => shutdown # "serving"
  BY DEF IndInv, DrainRight
<1>5. Quiet /\ shutdown # "serving" => Quiet'
  BY QuietStays DEF IndInv, TypeOK, Placed
<1>6. DrainRight'
  BY <1>2, <1>4, <1>5 DEF IndInv, DrainRight
<1>. QED  BY <1>1, <1>3, <1>6 DEF Placed, IndInv

\* The waiter passes at zero, and at zero the request is quiet.
LEMMA DrainStepKeeps ==
  ASSUME IndInv, StartDrain \/ WaiterRuns \/ DrainReturns
  PROVE  IndInv'
<1>1. req' = req
  BY DEF StartDrain, WaiterRuns, DrainReturns
<1>2. (CallsPlaced /\ CloseOnce)' /\ req' \in Requests /\ (Quiet' <=> Quiet)
  BY <1>1 DEF IndInv, TypeOK, CallsPlaced, CloseOnce, Quiet
<1>3. Count = 0 => Quiet
  BY ZeroIsQuiet DEF IndInv, TypeOK
<1>4. CASE StartDrain
  BY <1>2, <1>3, <1>4 DEF StartDrain, IndInv, TypeOK, DrainRight
<1>5. CASE WaiterRuns
  BY <1>2, <1>3, <1>5 DEF WaiterRuns, IndInv, TypeOK, DrainRight
<1>6. CASE DrainReturns
  BY <1>2, <1>6 DEF DrainReturns, IndInv, TypeOK, DrainRight
<1>. QED  BY <1>4, <1>5, <1>6

LEMMA InitIndInv == Init => IndInv
<1>. SUFFICES ASSUME Init PROVE IndInv
  OBVIOUS
<1>1. NoRead \in Reads /\ 0 \in 0..MaxResponseBytes /\ 0 \in 0..MaxEvents
  BY PumpAssumption DEF PumpAssumption, NoRead, Reads
<1>2. <<>> \in Seq(1..MaxEvents) /\ <<>> \in Seq(Items) /\ {} \in SUBSET Items
  OBVIOUS
<1>3. req \in Requests
  BY <1>1, <1>2 DEF Init, Requests
<1>4. req.pc = "idle" /\ req.call = "none" /\ req.up = "none" /\ req.once = FALSE /\ req.watchdog = "off"
  BY DEF Init
<1>. QED  BY <1>3, <1>4 DEF Init, IndInv, TypeOK, CallsPlaced, CloseOnce, DrainRight

LEMMA NextIndInv == IndInv /\ [Next]_vars => IndInv'
<1>. SUFFICES ASSUME IndInv, [Next]_vars PROVE IndInv'
  OBVIOUS
<1>1. CASE RequestSteps
  BY <1>1, RequestStepKeeps
<1>2. CASE StartDrain \/ WaiterRuns \/ DrainReturns
  BY <1>2, DrainStepKeeps
<1>3. CASE UNCHANGED vars
  BY <1>3 DEF vars, IndInv, TypeOK, CallsPlaced, CloseOnce, DrainRight, Quiet
<1>4. Next => RequestSteps \/ StartDrain \/ WaiterRuns \/ DrainReturns
  BY DEF Next, RequestSteps
<1>. QED  BY <1>1, <1>2, <1>3, <1>4

LEMMA AlwaysIndInv == Spec => []IndInv
BY InitIndInv, NextIndInv, PTL DEF Spec

\* The types, for any size limit and any number of events: in particular no more
\* than max-response-bytes are accepted.
THEOREM TypesHold == Spec => []TypeOK
<1>1. IndInv => TypeOK
  BY DEF IndInv
<1>. QED  BY <1>1, AlwaysIndInv, PTL

\* Whatever fails, times out or is cut, the upstream stream is not open when
\* executeStream has failed or its pump has ended.
THEOREM UpstreamAlwaysReleased == Spec => []UpstreamReleased
<1>1. IndInv => UpstreamReleased
  BY DEF IndInv, CloseOnce, UpstreamReleased
<1>. QED  BY <1>1, AlwaysIndInv, PTL

\* A drain that succeeds finds the pump ended and nothing of it in the host,
\* however its callbacks were orphaned.
THEOREM DrainCovers == Spec => []DrainCoversPump
<1>1. IndInv => DrainCoversPump
  BY DEF IndInv, DrainRight, Quiet, DrainCoversPump
<1>. QED  BY <1>1, AlwaysIndInv, PTL

-----------------------------------------------------------------------------
(* The pump implements its contract.  The invariant: what the client has   *)
(* heard, what is still to come, and who knows that the stream was cut.    *)

\* The stream downstream has m events and ended as e says.
Heard(d, m, e) ==
  \/ /\ e = "none" /\ Len(d) = m
     /\ \A k \in 1..m : d[k] = k
  \/ /\ e = "clean" /\ Len(d) = m + 1 /\ d[m + 1] = CleanClose
     /\ \A k \in 1..m : d[k] = k
  \/ /\ e = "failed" /\ Len(d) = m + 1 /\ d[m + 1] = FailedClose
     /\ \A k \in 1..m : d[k] = k
  \/ /\ e = "straggled" /\ m > 0 /\ Len(d) = m + 1
     /\ d[m] = FailedClose /\ d[m + 1] = m
     /\ \A k \in 1..(m - 1) : d[k] = k

Early   == {"idle", "failed", "reading", "deciding"} \cup Handler
Looping == {"reading", "deciding", "emitting"}

\* A stream that the watchdog closes has raised the flag before.
Watched ==
  /\ req.pc \in Pumping \cup {"gone"} /\ req.watchdog \in {"flagged", "closing", "ended"}
       => req.aborted
  /\ req.pc \in Looping /\ req.up # "open" => req.aborted

\* The pump takes a stream for ended only when the upstream has ended it.
EndKnown ==
  /\ req.ended => req.last.closed
  /\ req.pc \in {"idle", "opening", "reading"} => ~req.ended
  /\ req.pc = "deciding" /\ req.last.closed /\ ~req.aborted => req.ended
  /\ req.pc = "emitting" /\ req.last.closed => req.ended
  /\ req.pc \in Early => ~req.convDone

\* Failures are labelled when the pump leaves its loop because of them.
Labelled ==
  /\ req.pc \in Early \cup {"emitting"} => req.label = ""
  /\ req.pc \in Looping => ~req.once
  /\ req.pc = "stopping" => (req.once <=> req.label # "")
  /\ req.pc = "closingDown" => req.call # "none"
  /\ req.label # "" => req.once

Closes == {CleanClose, FailedClose}
Delivered == Sent(req.down)
Ended == End(req.down)

\* The batch is the last events made, and those before it are out.
BatchIsRest ==
  /\ \A k \in 1..Len(req.pending) :
       req.pending[k] = (req.produced - Len(req.pending)) + k
  /\ Delivered = (req.produced - Len(req.pending)) + One(req.call = "accepted")

\* Past the loop: no close before it is due, an unlabelled one only for a whole
\* stream, and at most the next event still in the host.
CloseIsDue ==
  /\ Delivered <= req.produced
  /\ req.label = "" => /\ Delivered = req.produced /\ (req.convDone \/ req.ended)
                       /\ req.orphan \subseteq {CleanClose}
  /\ req.label # "" => req.orphan \subseteq {Delivered + 1, FailedClose}
  /\ Delivered + 1 \in req.orphan => Delivered < req.produced /\ Ended # "straggled"
  /\ Ended = "clean" => req.label = ""
  /\ Ended \in {"failed", "straggled"} => req.label # ""
  /\ req.orphan \cap Closes # {} => Ended = "none"
  /\ \/ req.pc = "closingUp"
     \/ req.pc = "stopping" /\ req.label = ""
     \/ req.pc = "closingDown" /\ req.call = "inHost"
     => Ended = "none" /\ req.orphan \cap Closes = {}
  /\ req.pc = "closingDown" => req.orphan \cap Closes = {}

Delivery ==
  /\ Delivered \in Nat /\ Heard(req.down, Delivered, Ended)
  /\ req.pc \in Early =>
       /\ Delivered = req.produced /\ Ended = "none"
       /\ req.orphan = {} /\ req.pending = <<>>
  /\ req.pc = "emitting" => Ended = "none" /\ req.orphan = {} /\ BatchIsRest
  /\ req.pc \notin Early \cup {"emitting"} => CloseIsDue

SimInv == IndInv /\ Watched /\ EndKnown /\ Labelled /\ Delivery

\* The control of the pump, apart from what has been delivered.
Control == req \in Requests /\ CallsPlaced /\ CloseOnce /\ Watched /\ EndKnown /\ Labelled

LEMMA HandlerControl ==
  ASSUME Control,
         Execute \/ OpenFails \/ OpenRejected \/ ErrorBodyRead \/ ErrorClosed \/ OpenSucceeds
  PROVE  (Watched /\ EndKnown /\ Labelled)'
<1>. USE DEF Control, CallsPlaced, CloseOnce, Watched, EndKnown, Labelled,
             Requests, Handler, Pumping, Early, Looping, Becomes
<1>1. CASE Execute
  BY <1>1 DEF Execute
<1>2. CASE OpenFails
  BY <1>2 DEF OpenFails
<1>3. CASE OpenRejected
  BY <1>3 DEF OpenRejected
<1>4. CASE ErrorBodyRead
  BY <1>4 DEF ErrorBodyRead, Stopped
<1>5. CASE ErrorClosed
  BY <1>5 DEF ErrorClosed
<1>6. CASE OpenSucceeds
  BY <1>6 DEF OpenSucceeds
<1>. QED  BY <1>1, <1>2, <1>3, <1>4, <1>5, <1>6

LEMMA DecideCases ==
  ASSUME Decide
  PROVE  /\ req.pc = "deciding"
         /\ \/ \E l \in {"timeout", "upstream", "limit", "convert"} : Becomes(Failing(req, l))
            \/ \E n \in 0..(MaxEvents - req.produced), fin \in BOOLEAN :
                 ~req.aborted /\ ~OverLimit /\ Becomes(Fed(n, fin))
BY DEF Decide

LEMMA OrphanCases ==
  ASSUME OrphanEnds
  PROVE  \E o \in req.orphan :
           \/ Becomes([req EXCEPT !.orphan = @ \ {o}, !.down = Append(@, o)])
           \/ o > 0 /\ Becomes([req EXCEPT !.orphan = @ \ {o}])
BY DEF OrphanEnds

LEMMA LoopControl ==
  ASSUME Control,
         \/ ReadReturns \/ Decide \/ EmitNext \/ HostAcceptsEvent \/ EmitReturns
         \/ EmitFails \/ NextRead \/ FlushConverter \/ LeaveLoop
  PROVE  (Watched /\ EndKnown /\ Labelled)'
<1>. USE DEF Control, CallsPlaced, CloseOnce, Watched, EndKnown, Labelled,
             Requests, Handler, Pumping, Early, Looping, Becomes
<1>1. CASE ReadReturns
  <2>1. PICK r \in Reads :
          /\ req.up = "closed" => (r.closed \/ r.failed)
          /\ Becomes([req EXCEPT !.pc = "deciding", !.last = r,
                                 !.ended = req.up = "open" /\ r.closed])
    BY <1>1 DEF ReadReturns
  <2>2. (req.up = "open" /\ r.closed) \in BOOLEAN
    OBVIOUS
  <2>3. /\ req'.pc = "deciding" /\ req'.last = r
        /\ req'.ended = (req.up = "open" /\ r.closed)
    BY <2>1
  <2>4. UNCHANGED <<req.watchdog, req.aborted, req.up, req.convDone, req.label, req.once, req.call>>
    BY <2>1
  <2>5. req.pc = "reading"
    BY <1>1 DEF ReadReturns
  <2>6. req.up \in {"none", "open", "closed"}
    OBVIOUS
  <2>7. Watched'
    BY <2>3, <2>4, <2>5
  <2>8. EndKnown'
    BY <2>2, <2>3, <2>4, <2>5, <2>6
  <2>9. Labelled'
    BY <2>3, <2>4, <2>5
  <2>. QED  BY <2>7, <2>8, <2>9
<1>2. CASE Decide
  <2>1. CASE \E l \in {"timeout", "upstream", "limit", "convert"} :
               req.pc = "deciding" /\ Becomes(Failing(req, l))
    BY <2>1 DEF Failing
  <2>2. CASE \E n \in 0..(MaxEvents - req.produced), fin \in BOOLEAN :
               req.pc = "deciding" /\ ~req.aborted /\ Becomes(Fed(n, fin))
    BY <2>2 DEF Fed
  <2>. HIDE DEF Control, Becomes, Watched, EndKnown, Labelled
  <2>. QED  BY <1>2, <2>1, <2>2, DecideCases
<1>3. CASE EmitNext
  BY <1>3 DEF EmitNext
<1>4. CASE HostAcceptsEvent
  BY <1>4 DEF HostAcceptsEvent
<1>5. CASE EmitReturns
  BY <1>5 DEF EmitReturns
<1>6. CASE EmitFails
  <2>1. CASE Becomes(Failing([req EXCEPT !.call = "none"], "emit"))
    BY <1>6, <2>1 DEF EmitFails, Failing
  <2>2. CASE Becomes([Failing([req EXCEPT !.call = "none"], "emit")
                        EXCEPT !.orphan = @ \cup {Head(req.pending)}])
    BY <1>6, <2>2 DEF EmitFails, Failing
  <2>. QED  BY <1>6, <2>1, <2>2 DEF EmitFails
<1>7. CASE NextRead
  BY <1>7 DEF NextRead, BatchOut
<1>8. CASE FlushConverter
  BY <1>8 DEF FlushConverter, BatchOut
<1>9. CASE LeaveLoop
  BY <1>9 DEF LeaveLoop, BatchOut
<1>. QED  BY <1>1, <1>2, <1>3, <1>4, <1>5, <1>6, <1>7, <1>8, <1>9

LEMMA ClosingControl ==
  ASSUME Control,
         \/ UpstreamClosed \/ HostClosesDownstream \/ DownstreamClosed
         \/ StopWatchdog \/ PumpExits
         \/ WatchdogFires \/ WatchdogFlags \/ WatchdogCalls \/ WatchdogClosed
         \/ OrphanEnds
  PROVE  (Watched /\ EndKnown /\ Labelled)'
<1>. USE DEF Control, CallsPlaced, CloseOnce, Watched, EndKnown, Labelled,
             Requests, Handler, Pumping, Early, Looping, Becomes
<1>1. CASE UpstreamClosed
  BY <1>1 DEF UpstreamClosed
<1>2. CASE HostClosesDownstream
  BY <1>2 DEF HostClosesDownstream
<1>3. CASE DownstreamClosed
  <2>1. /\ req'.pc = IF req.label = "" THEN "returning" ELSE "stopping"
        /\ req'.call = "none" /\ req.pc = "closingDown"
        /\ UNCHANGED <<req.watchdog, req.aborted, req.up, req.ended, req.last, req.convDone,
                       req.label, req.once>>
    BY <1>3 DEF DownstreamClosed
  <2>2. CASE req.label = ""
    BY <2>1, <2>2
  <2>3. CASE req.label # ""
    BY <2>1, <2>3
  <2>. QED  BY <2>2, <2>3
<1>4. CASE StopWatchdog
  BY <1>4 DEF StopWatchdog, Stopped
<1>5. CASE PumpExits
  BY <1>5 DEF PumpExits
<1>6. CASE WatchdogFires
  BY <1>6 DEF WatchdogFires
<1>7. CASE WatchdogFlags
  BY <1>7 DEF WatchdogFlags
<1>8. CASE WatchdogCalls
  BY <1>8 DEF WatchdogCalls
<1>9. CASE WatchdogClosed
  BY <1>9 DEF WatchdogClosed
<1>10. CASE OrphanEnds
  <2>1. PICK o \in req.orphan :
          \/ Becomes([req EXCEPT !.orphan = @ \ {o}, !.down = Append(@, o)])
          \/ Becomes([req EXCEPT !.orphan = @ \ {o}])
    BY <1>10, OrphanCases
  <2>2. CASE Becomes([req EXCEPT !.orphan = @ \ {o}, !.down = Append(@, o)])
    <3>1. UNCHANGED <<req.pc, req.watchdog, req.aborted, req.up, req.ended, req.last,
                      req.convDone, req.label, req.once, req.call>>
      BY <2>2
    <3>. QED  BY <3>1
  <2>3. CASE Becomes([req EXCEPT !.orphan = @ \ {o}])
    BY <2>3
  <2>. HIDE DEF Becomes
  <2>. QED  BY <2>1, <2>2, <2>3
<1>. QED  BY <1>1, <1>2, <1>3, <1>4, <1>5, <1>6, <1>7, <1>8, <1>9, <1>10
-----------------------------------------------------------------------------
(* What was heard.                                                         *)

LEMMA SameInterval ==
  ASSUME NEW m \in Nat, NEW i \in Nat, 1..m = 1..i
  PROVE  i = m
<1>1. i \in 1..i \/ i = 0
  OBVIOUS
<1>2. m \in 1..m \/ m = 0
  OBVIOUS
<1>. QED  BY <1>1, <1>2

\* A stream as Heard describes it is read by Sent and End as it says.
LEMMA HeardIsSent ==
  ASSUME NEW d \in Seq(Items), NEW m \in Nat, NEW e, Heard(d, m, e)
  PROVE  Sent(d) = m /\ End(d) = e
<1>. DEFINE n == Len(d)
            events == {k \in 1..n : ~IsClose(d[k])}
            closes == {k \in 1..n : IsClose(d[k])}
            values == {d[k] : k \in events}
<1>1. n \in Nat /\ \A k \in 1..n : d[k] \in Int
  BY PumpAssumption DEF PumpAssumption, Items, FailedClose
<1>2. values = 1..m /\ m \in 0..n /\ \A j, k \in events : j < k => d[j] < d[k]
  <2>1. CASE e = "none"
    <3>1. n = m /\ (\A k \in 1..m : d[k] = k)
      BY <2>1 DEF Heard
    <3>2. events = 1..m
      BY <1>1, <3>1 DEF IsClose
    <3>. QED  BY <1>1, <3>1, <3>2
  <2>2. CASE e \in {"clean", "failed"}
    <3>1. n = m + 1 /\ d[n] \in {0, -1} /\ (\A k \in 1..m : d[k] = k)
      BY <2>2 DEF Heard, CleanClose, FailedClose
    <3>2. events = 1..m
      BY <1>1, <3>1 DEF IsClose
    <3>. QED  BY <1>1, <3>1, <3>2
  <2>3. CASE e = "straggled"
    <3>1. /\ m > 0 /\ n = m + 1 /\ d[m] = -1 /\ d[n] = m
          /\ \A k \in 1..(m - 1) : d[k] = k
      BY <2>3 DEF Heard, FailedClose
    <3>2. events = 1..(m - 1) \cup {n}
      BY <1>1, <3>1 DEF IsClose
    <3>3. 1..m = 1..(m - 1) \cup {m}
      BY <3>1
    <3>. QED  BY <1>1, <3>1, <3>2, <3>3
  <2>. QED  BY <2>1, <2>2, <2>3 DEF Heard
<1>3. Sent(d) = m
  <2>. HIDE DEF n, events, values
  <2>1. \A i \in 0..n : values = 1..i => i = m
    BY <1>1, <1>2, SameInterval
  <2>2. (CHOOSE i \in 0..n : values = 1..i) = m
    BY <1>2, <2>1
  <2>3. Sent(d) = CHOOSE i \in 0..n : values = 1..i
    BY <1>2 DEF Sent, n, events, values
  <2>. QED  BY <2>2, <2>3
<1>4. End(d) = e
  <2>1. CASE e = "none"
    <3>1. n = m /\ (\A k \in 1..m : d[k] = k)
      BY <2>1 DEF Heard
    <3>2. closes = {}
      BY <1>1, <3>1 DEF IsClose
    <3>. QED  BY <2>1, <3>2 DEF End
  <2>2. CASE e = "clean"
    <3>1. n = m + 1 /\ d[n] = 0 /\ (\A k \in 1..m : d[k] = k)
      BY <2>2 DEF Heard, CleanClose
    <3>2. closes = {n} /\ closes # {}
      BY <1>1, <3>1 DEF IsClose
    <3>3. d[n] = CleanClose /\ d[n] # FailedClose /\ closes # {n - 1}
      BY <1>1, <3>1, <3>2 DEF CleanClose, FailedClose
    <3>. QED  BY <2>2, <3>2, <3>3 DEF End
  <2>3. CASE e = "failed"
    <3>1. n = m + 1 /\ d[n] = -1 /\ (\A k \in 1..m : d[k] = k)
      BY <2>3 DEF Heard, FailedClose
    <3>2. closes = {n} /\ closes # {}
      BY <1>1, <3>1 DEF IsClose
    <3>. QED  BY <2>3, <3>1, <3>2 DEF End, CleanClose, FailedClose
  <2>4. CASE e = "straggled"
    <3>1. /\ m > 0 /\ n = m + 1 /\ d[m] = -1 /\ d[n] = m
          /\ \A k \in 1..(m - 1) : d[k] = k
      BY <2>4 DEF Heard, FailedClose
    <3>2. closes = {n - 1} /\ closes # {} /\ closes # {n}
      BY <1>1, <3>1 DEF IsClose
    <3>. QED  BY <2>4, <3>1, <3>2 DEF End, CleanClose, FailedClose
  <2>. QED  BY <2>1, <2>2, <2>3, <2>4 DEF Heard
<1>. QED  BY <1>3, <1>4

\* The next event or close after what was heard.
LEMMA HeardGrows ==
  ASSUME NEW d \in Seq(Items), NEW m \in Nat
  PROVE  /\ Heard(d, m, "none") =>
              /\ Heard(Append(d, m + 1), m + 1, "none")
              /\ Heard(Append(d, CleanClose), m, "clean")
              /\ Heard(Append(d, FailedClose), m, "failed")
         /\ Heard(d, m, "failed") => Heard(Append(d, m + 1), m + 1, "straggled")
<1>1. Len(d) \in Nat
  OBVIOUS
<1>2. \A x : /\ Len(Append(d, x)) = Len(d) + 1
             /\ Append(d, x)[Len(d) + 1] = x
             /\ \A k \in 1..Len(d) : Append(d, x)[k] = d[k]
  OBVIOUS
<1>3. ASSUME Heard(d, m, "none")
      PROVE  /\ Heard(Append(d, m + 1), m + 1, "none")
             /\ Heard(Append(d, CleanClose), m, "clean")
             /\ Heard(Append(d, FailedClose), m, "failed")
  <2>1. Len(d) = m /\ \A k \in 1..m : d[k] = k
    BY <1>3 DEF Heard
  <2>. QED  BY <1>1, <1>2, <2>1 DEF Heard
<1>4. ASSUME Heard(d, m, "failed")
      PROVE  Heard(Append(d, m + 1), m + 1, "straggled")
  <2>1. Len(d) = m + 1 /\ d[m + 1] = FailedClose /\ \A k \in 1..m : d[k] = k
    BY <1>4 DEF Heard
  <2>. QED  BY <1>1, <1>2, <2>1 DEF Heard
<1>. QED  BY <1>3, <1>4
-----------------------------------------------------------------------------
(* Every step keeps the contract.                                          *)

Sim == Control /\ Delivery
ContractStep == [Contract!Next]_(Contract!vars)

\* What the client of the contract does not see.
LEMMA Stutters ==
  ASSUME UNCHANGED <<req.produced, req.down, req.convDone, req.ended>>
  PROVE  ContractStep
BY DEF ContractStep, Contract!vars

\* Steps that tell the client nothing leave what it has heard as it is.
LEMMA NothingTold ==
  ASSUME UNCHANGED req.down
  PROVE  Delivered' = Delivered /\ Ended' = Ended
BY DEF Delivered, Ended

LEMMA Produces ==
  ASSUME Ended = "none", Delivered = req.produced, req'.produced \in Nat,
         req'.produced >= req.produced, UNCHANGED req.down,
         req.convDone \/ req.ended => req'.convDone \/ req'.ended
  PROVE  ContractStep
<1>1. Sent(req'.down) = Sent(req.down) /\ End(req'.down) = End(req.down)
  OBVIOUS
<1>2. CASE req'.convDone \/ req'.ended
  <2>1. (req.convDone \/ req.ended)' = TRUE
    BY <1>2
  <2>2. Contract!Produce
    BY <1>1, <2>1 DEF Contract!Produce, Delivered, Ended
  <2>. QED  BY <2>2 DEF ContractStep, Contract!Next
<1>3. CASE ~(req'.convDone \/ req'.ended)
  <2>1. (req.convDone \/ req.ended)' = (req.convDone \/ req.ended)
    BY <1>3
  <2>2. Contract!Produce
    BY <1>1, <2>1 DEF Contract!Produce, Delivered, Ended
  <2>. QED  BY <2>2 DEF ContractStep, Contract!Next
<1>. QED  BY <1>2, <1>3

LEMMA EndIsOne ==
  ASSUME Delivery
  PROVE  Ended \in {"none", "clean", "failed", "straggled"}
BY DEF Delivery, Heard

\* The handler thread: nothing has been made or sent.
LEMMA HandlerDelivers ==
  ASSUME Sim,
         Execute \/ OpenFails \/ OpenRejected \/ ErrorBodyRead \/ ErrorClosed \/ OpenSucceeds
  PROVE  Delivery' /\ ContractStep
<1>1. /\ UNCHANGED <<req.produced, req.down, req.convDone, req.ended, req.orphan, req.pending>>
      /\ req.pc \in Early /\ req'.pc \in Early
  <2>. USE DEF Sim, Control, Requests, Becomes, Early, Handler
  <2>1. CASE Execute
    BY <2>1 DEF Execute
  <2>2. CASE OpenFails
    BY <2>2 DEF OpenFails
  <2>3. CASE OpenRejected
    BY <2>3 DEF OpenRejected
  <2>4. CASE ErrorBodyRead
    BY <2>4 DEF ErrorBodyRead
  <2>5. CASE ErrorClosed
    BY <2>5 DEF ErrorClosed
  <2>6. CASE OpenSucceeds
    BY <2>6 DEF OpenSucceeds
  <2>. QED  BY <2>1, <2>2, <2>3, <2>4, <2>5, <2>6
<1>2. "emitting" \notin Early
  BY DEF Early, Handler
<1>. QED  BY <1>1, <1>2, Stutters DEF Sim, Delivery, Delivered, Ended

\* The watchdog: it cuts the upstream and tells the client nothing.
LEMMA WatchdogDelivers ==
  ASSUME Sim, WatchdogFires \/ WatchdogFlags \/ WatchdogCalls \/ WatchdogClosed
  PROVE  Delivery' /\ ContractStep
<1>1. UNCHANGED <<req.produced, req.down, req.convDone, req.ended, req.orphan, req.pending,
                  req.pc, req.call, req.label>>
  BY DEF Sim, Control, Requests, Becomes, WatchdogFires, WatchdogFlags, WatchdogCalls,
         WatchdogClosed
<1>. QED  BY <1>1, Stutters DEF Sim, Delivery, BatchIsRest, CloseIsDue, Delivered, Ended

LEMMA LoopDelivers ==
  ASSUME Sim,
         \/ ReadReturns \/ Decide \/ EmitNext \/ HostAcceptsEvent \/ EmitReturns
         \/ EmitFails \/ NextRead \/ FlushConverter \/ LeaveLoop
  PROVE  Delivery' /\ ContractStep
<1>. DEFINE m == Delivered
<1>0. /\ req \in Requests /\ req.produced \in Nat /\ req.down \in Seq(Items)
      /\ req.pending \in Seq(1..MaxEvents) /\ Len(req.pending) \in Nat
      /\ m \in Nat /\ Heard(req.down, m, Ended)
  <2>1. req \in Requests /\ m \in Nat /\ Heard(req.down, m, Ended)
    BY DEF Sim, Control, Delivery
  <2>. HIDE DEF m
  <2>2. /\ req.produced \in 0..MaxEvents /\ req.down \in Seq(Items)
        /\ req.pending \in Seq(1..MaxEvents)
    BY <2>1 DEF Requests
  <2>. QED  BY <2>1, <2>2, PumpAssumption DEF PumpAssumption
<1>00. /\ "emitting" \notin Early /\ "closingUp" \notin Early /\ "stopping" \notin Early
       /\ "reading" \in Early /\ "deciding" \in Early
  BY DEF Early, Handler
<1>1. CASE ReadReturns
  <2>1. /\ UNCHANGED <<req.produced, req.down, req.convDone, req.orphan, req.pending>>
        /\ req.pc = "reading" /\ req'.pc = "deciding" /\ req'.ended \in BOOLEAN
    BY <1>0, <1>1 DEF ReadReturns, Becomes, Requests
  <2>2. ~req.ended /\ ~req.convDone
    BY <1>00, <2>1 DEF Sim, Control, EndKnown
  <2>3. m = req.produced /\ Ended = "none"
    BY <1>00, <2>1 DEF Sim, Delivery
  <2>4. ContractStep
    BY <1>0, <2>1, <2>2, <2>3, Produces
  <2>5. Delivery'
    BY <1>00, <2>1 DEF Sim, Delivery, Delivered, Ended
  <2>. QED  BY <2>4, <2>5
<1>2. CASE Decide
  <2>0. /\ req.pc = "deciding" /\ req.call = "none" /\ ~req.convDone
        /\ m = req.produced /\ Ended = "none" /\ req.orphan = {}
    BY <1>2, <1>00, DecideCases DEF Sim, Delivery, Control, CallsPlaced, EndKnown
  <2>1. ASSUME NEW l \in {"timeout", "upstream", "limit", "convert"}, Becomes(Failing(req, l))
        PROVE  Delivery' /\ ContractStep
    <3>1. /\ UNCHANGED <<req.produced, req.down, req.convDone, req.ended, req.orphan>>
          /\ req'.pc = "closingUp" /\ req'.label = l /\ l # ""
      BY <1>0, <2>1 DEF Failing, Becomes, Requests
    <3>2. /\ Delivered' = m /\ Ended' = "none" /\ req'.orphan = {}
          /\ req'.produced = m /\ req'.label # ""
      BY <2>0, <3>1, NothingTold
    <3>3. req'.orphan \cap Closes = {}
      BY <3>2
    <3>4. CloseIsDue'
      <4>. HIDE DEF m
      <4>1. m \in Nat /\ m <= m
        BY <1>0
      <4>. QED  BY <3>2, <3>3, <4>1 DEF CloseIsDue
    <3>. QED  BY <1>0, <1>00, <3>1, <3>4, Stutters DEF Delivery, Delivered, Ended
  <2>2. ASSUME NEW n \in 0..(MaxEvents - req.produced), NEW fin \in BOOLEAN, Becomes(Fed(n, fin))
        PROVE  Delivery' /\ ContractStep
    <3>1. /\ UNCHANGED <<req.down, req.ended, req.orphan, req.call>>
          /\ req'.pc = "emitting" /\ req'.convDone = fin
          /\ req'.pending = Batch(n) /\ req'.produced = req.produced + n
      BY <1>0, <2>2 DEF Fed, Becomes, Requests
    <3>2. n \in Nat /\ Len(Batch(n)) = n /\ \A k \in 1..n : Batch(n)[k] = req.produced + k
      BY <1>0, PumpAssumption DEF PumpAssumption, Batch
    <3>3. BatchIsRest'
      BY <1>0, <2>0, <3>1, <3>2 DEF BatchIsRest, Delivered, One
    <3>4. ContractStep
      BY <1>0, <2>0, <3>1, <3>2, Produces
    <3>5. Delivery'
      BY <1>0, <1>00, <2>0, <3>1, <3>3 DEF Delivery, Delivered, Ended
    <3>. QED  BY <3>4, <3>5
  <2>. QED  BY <1>2, <2>1, <2>2, DecideCases
<1>3. CASE EmitNext
  <2>1. /\ UNCHANGED <<req.produced, req.down, req.convDone, req.ended, req.orphan, req.pending, req.pc>>
        /\ req.pc = "emitting" /\ req.call = "none" /\ req'.call = "inHost"
    BY <1>0, <1>3 DEF EmitNext, Becomes, Requests
  <2>2. BatchIsRest'
    BY <1>00, <2>1 DEF Sim, Delivery, BatchIsRest, Delivered, One
  <2>. QED  BY <1>0, <1>00, <2>1, <2>2, Stutters DEF Sim, Delivery, Delivered, Ended
<1>4. CASE HostAcceptsEvent
  <2>1. /\ UNCHANGED <<req.produced, req.convDone, req.ended, req.orphan, req.pending, req.pc>>
        /\ req.pc = "emitting" /\ req.call = "inHost" /\ req'.call = "accepted"
        /\ req'.down = Append(req.down, Head(req.pending))
    BY <1>0, <1>4 DEF HostAcceptsEvent, Becomes, Requests
  <2>2. /\ req.pending # <<>> /\ BatchIsRest /\ Ended = "none" /\ req.orphan = {}
    BY <1>00, <2>1 DEF Sim, Control, CallsPlaced, Delivery
  <2>3. Head(req.pending) = m + 1 /\ m < req.produced
    BY <1>0, <2>1, <2>2 DEF BatchIsRest, One
  <2>4. Append(req.down, m + 1) \in Seq(Items) /\ m + 1 \in Nat
    BY <1>0, <2>2, <2>3, NextEvent, DownGrows
  <2>5. Delivered' = m + 1 /\ Ended' = "none" /\ Heard(req'.down, m + 1, "none")
    <3>1. Heard(req.down, m, "none")
      BY <1>0, <2>2
    <3>. HIDE DEF m
    <3>2. Heard(Append(req.down, m + 1), m + 1, "none")
      BY <1>0, <3>1, HeardGrows
    <3>3. req'.down = Append(req.down, m + 1)
      BY <2>1, <2>3
    <3>4. Sent(req'.down) = m + 1 /\ End(req'.down) = "none"
      BY <2>4, <3>2, <3>3, HeardIsSent
    <3>. QED  BY <3>2, <3>3, <3>4 DEF Delivered, Ended
  <2>. HIDE DEF m
  <2>6. BatchIsRest'
    BY <1>0, <2>1, <2>2, <2>5 DEF BatchIsRest, One, m
  <2>7. Contract!Deliver
    BY <2>1, <2>2, <2>3, <2>5 DEF Contract!Deliver, Delivered, Ended, m
  <2>8. Delivery'
    BY <1>00, <2>1, <2>2, <2>4, <2>5, <2>6 DEF Delivery
  <2>. QED  BY <2>7, <2>8 DEF ContractStep, Contract!Next
<1>5. CASE EmitReturns
  <2>1. /\ UNCHANGED <<req.produced, req.down, req.convDone, req.ended, req.orphan, req.pc>>
        /\ req.pc = "emitting" /\ req.call = "accepted" /\ req'.call = "none"
        /\ req'.pending = Tail(req.pending)
    BY <1>0, <1>5 DEF EmitReturns, Becomes, Requests
  <2>2. req.pending # <<>> /\ BatchIsRest
    BY <1>00, <2>1 DEF Sim, Control, CallsPlaced, Delivery
  <2>3. /\ Len(Tail(req.pending)) = Len(req.pending) - 1
        /\ \A k \in 1..(Len(req.pending) - 1) : Tail(req.pending)[k] = req.pending[k + 1]
    BY <1>0, <2>2, HeadTailProperties
  <2>4. /\ m = (req.produced - Len(req.pending)) + 1
        /\ \A k \in 1..Len(req.pending) :
             req.pending[k] = (req.produced - Len(req.pending)) + k
    BY <2>1, <2>2 DEF BatchIsRest, One
  <2>5. Len(req.pending) > 0 /\ Delivered' = m
    BY <1>0, <2>1, <2>2, NothingTold
  <2>. HIDE DEF m
  <2>6. \A k \in 1..(Len(req.pending) - 1) :
          Tail(req.pending)[k] = (req.produced - (Len(req.pending) - 1)) + k
    <3>. TAKE k \in 1..(Len(req.pending) - 1)
    <3>1. k + 1 \in 1..Len(req.pending)
      BY <1>0
    <3>2. Tail(req.pending)[k] = req.pending[k + 1]
      BY <2>3
    <3>3. req.pending[k + 1] = (req.produced - Len(req.pending)) + (k + 1)
      BY <2>4, <3>1
    <3>4. req.produced \in Int /\ Len(req.pending) \in Int /\ k \in Int
      BY <1>0
    <3>5. (req.produced - Len(req.pending)) + (k + 1) = (req.produced - (Len(req.pending) - 1)) + k
      BY <3>4
    <3>. QED  BY <3>2, <3>3, <3>5
  <2>7. BatchIsRest'
    BY <1>0, <2>1, <2>3, <2>4, <2>5, <2>6 DEF BatchIsRest, One
  <2>. QED  BY <1>0, <1>00, <2>1, <2>7, Stutters DEF Sim, Delivery, Delivered, Ended
<1>6. CASE EmitFails
  <2>. DEFINE failed == Failing([req EXCEPT !.call = "none"], "emit")
  <2>1. /\ req.pc = "emitting" /\ req.pending # <<>> /\ BatchIsRest
        /\ Ended = "none" /\ req.orphan = {}
    BY <1>6, <1>00 DEF EmitFails, Sim, Control, CallsPlaced, Delivery
  <2>2. /\ UNCHANGED <<req.produced, req.down, req.convDone, req.ended>>
        /\ req'.pc = "closingUp" /\ req'.label = "emit" /\ req'.call = "none"
        /\ \/ req'.orphan = {}
           \/ req.call = "inHost" /\ req'.orphan = {Head(req.pending)}
    <3>1. CASE Becomes(failed)
      BY <1>0, <2>1, <3>1 DEF Failing, Becomes, Requests
    <3>2. CASE req.call = "inHost" /\ Becomes([failed EXCEPT !.orphan = @ \cup {Head(req.pending)}])
      BY <1>0, <2>1, <3>2 DEF Failing, Becomes, Requests
    <3>. HIDE DEF failed
    <3>. QED  BY <1>6, <3>1, <3>2 DEF EmitFails, failed
  <2>3. /\ m = (req.produced - Len(req.pending)) + One(req.call = "accepted")
        /\ req.pending[1] = (req.produced - Len(req.pending)) + 1
        /\ Head(req.pending) = req.pending[1] /\ Len(req.pending) > 0
    BY <1>0, <2>1 DEF BatchIsRest
  <2>4. /\ m <= req.produced
        /\ req.call = "inHost" => Head(req.pending) = m + 1 /\ m < req.produced
    BY <1>0, <2>3 DEF One
  <2>5. /\ Delivered' = m /\ Ended' = "none" /\ req'.produced = req.produced
    BY <2>1, <2>2, NothingTold
  <2>6. req'.orphan = {} \/ (req'.orphan = {m + 1} /\ m < req.produced)
    BY <2>2, <2>4
  <2>. HIDE DEF m
  <2>7. req'.orphan \subseteq {m + 1} /\ req'.orphan \cap Closes = {}
    BY <1>0, <2>6 DEF Closes, CleanClose, FailedClose
  <2>8. CloseIsDue'
    BY <1>0, <2>2, <2>4, <2>5, <2>6, <2>7 DEF CloseIsDue
  <2>. QED  BY <1>0, <1>00, <2>2, <2>5, <2>8, Stutters DEF Delivery, Delivered, Ended, m
<1>7. CASE NextRead
  <2>1. /\ UNCHANGED <<req.produced, req.down, req.convDone, req.ended, req.orphan, req.pending>>
        /\ req.pc = "emitting" /\ req.call = "none" /\ req'.pc = "reading" /\ req.pending = <<>>
    BY <1>0, <1>7 DEF NextRead, BatchOut, Becomes, Requests
  <2>2. m = req.produced /\ Ended = "none" /\ req.orphan = {}
    BY <1>0, <1>00, <2>1 DEF Sim, Delivery, BatchIsRest, One
  <2>. QED  BY <1>0, <1>00, <2>1, <2>2, Stutters DEF Delivery, Delivered, Ended
<1>8. CASE FlushConverter
  <2>1. PICK n \in 0..(MaxEvents - req.produced) :
          Becomes([req EXCEPT !.flushed = TRUE, !.pending = Batch(n), !.produced = @ + n])
    BY <1>8 DEF FlushConverter
  <2>2. /\ UNCHANGED <<req.down, req.ended, req.convDone, req.orphan, req.call, req.pc>>
        /\ req'.pending = Batch(n) /\ req'.produced = req.produced + n
    BY <1>0, <2>1 DEF Becomes, Requests
  <2>3. req.pc = "emitting" /\ req.call = "none" /\ req.pending = <<>>
    BY <1>8 DEF FlushConverter, BatchOut
  <2>4. m = req.produced /\ Ended = "none" /\ req.orphan = {}
    BY <1>0, <1>00, <2>3 DEF Sim, Delivery, BatchIsRest, One
  <2>5. n \in Nat /\ Len(Batch(n)) = n /\ \A k \in 1..n : Batch(n)[k] = req.produced + k
    BY <1>0, PumpAssumption DEF PumpAssumption, Batch
  <2>6. BatchIsRest'
    BY <1>0, <2>2, <2>3, <2>4, <2>5 DEF BatchIsRest, Delivered, One
  <2>7. ContractStep
    BY <1>0, <2>2, <2>4, <2>5, Produces
  <2>8. Delivery'
    BY <1>0, <1>00, <2>2, <2>3, <2>4, <2>6 DEF Delivery, Delivered, Ended
  <2>. QED  BY <2>7, <2>8
<1>9. CASE LeaveLoop
  <2>1. /\ UNCHANGED <<req.produced, req.down, req.convDone, req.ended, req.orphan, req.label>>
        /\ req.pc = "emitting" /\ req.call = "none" /\ req'.pc = "stopping" /\ req.pending = <<>>
        /\ req.convDone \/ req.last.closed
    BY <1>0, <1>9 DEF LeaveLoop, BatchOut, Becomes, Requests
  <2>2. m = req.produced /\ Ended = "none" /\ req.orphan = {}
    BY <1>0, <1>00, <2>1 DEF Sim, Delivery, BatchIsRest, One
  <2>3. req.label = "" /\ (req.convDone \/ req.ended)
    BY <1>00, <2>1 DEF Sim, Control, Labelled, EndKnown
  <2>4. /\ Delivered' = m /\ Ended' = "none" /\ req'.orphan = {}
        /\ req'.produced = m /\ (req'.convDone \/ req'.ended) /\ req'.label = ""
    BY <2>1, <2>2, <2>3, NothingTold
  <2>5. req'.orphan \cap Closes = {}
    BY <2>4
  <2>6. CloseIsDue'
    <3>. HIDE DEF m
    <3>1. m \in Nat /\ m <= m
      BY <1>0
    <3>. QED  BY <2>4, <2>5, <3>1 DEF CloseIsDue
  <2>. QED  BY <1>0, <1>00, <2>1, <2>2, <2>6, Stutters DEF Delivery, Delivered, Ended
<1>. QED  BY <1>1, <1>2, <1>3, <1>4, <1>5, <1>6, <1>7, <1>8, <1>9

\* Past the loop, what is due of a close is known.
LEMMA PastTheLoop ==
  ASSUME Sim, req.pc \notin Early \cup {"emitting"}
  PROVE  /\ CloseIsDue /\ req \in Requests
         /\ Delivered \in Nat /\ Heard(req.down, Delivered, Ended)
         /\ req.down \in Seq(Items) /\ req.orphan \subseteq Items /\ req.produced \in Nat
         /\ Ended \in {"none", "clean", "failed", "straggled"}
<1>1. req \in Requests /\ Delivery
  BY DEF Sim, Control
<1>2. /\ req.down \in Seq(Items) /\ req.orphan \subseteq Items
      /\ req.produced \in 0..MaxEvents
  BY <1>1 DEF Requests
<1>3. req.produced \in Nat
  BY <1>2, PumpAssumption DEF PumpAssumption
<1>. QED  BY <1>1, <1>2, <1>3, EndIsOne DEF Delivery

\* What is left to show when a step stays there.
LEMMA StaysPast ==
  ASSUME req'.pc \notin Early \cup {"emitting"}, CloseIsDue', Delivered' \in Nat,
         Heard(req'.down, Delivered', Ended')
  PROVE  Delivery'
BY DEF Delivery

\* The close of the stream arrives: the contract's Finish or Fail.
LEMMA CloseArrives ==
  ASSUME Sim, req.pc \notin Early \cup {"emitting"}, Ended = "none",
         UNCHANGED <<req.produced, req.convDone, req.ended>>,
         req'.down = Append(req.down, CloseItem)
  PROVE  /\ Delivered' = Delivered
         /\ Ended' = IF req.label = "" THEN "clean" ELSE "failed"
         /\ Heard(req'.down, Delivered', Ended')
         /\ ContractStep
<1>. DEFINE m == Delivered
            e == IF req.label = "" THEN "clean" ELSE "failed"
<1>1. CloseIsDue /\ m \in Nat /\ Heard(req.down, m, "none") /\ req.down \in Seq(Items)
  BY PastTheLoop
<1>2. CloseItem \in Items
  BY EventsAreItems DEF CloseItem
<1>3. Append(req.down, CloseItem) \in Seq(Items)
  BY <1>1, <1>2
<1>. HIDE DEF m
<1>4. Heard(Append(req.down, CloseItem), m, e)
  <2>1. CASE req.label = ""
    BY <1>1, <2>1, HeardGrows DEF CloseItem
  <2>2. CASE req.label # ""
    BY <1>1, <2>2, HeardGrows DEF CloseItem
  <2>. QED  BY <2>1, <2>2
<1>. HIDE DEF e
<1>5. Sent(req'.down) = m /\ End(req'.down) = e
  BY <1>1, <1>3, <1>4, HeardIsSent
<1>6. Delivered' = m /\ Ended' = e /\ Heard(req'.down, m, e)
  BY <1>4, <1>5 DEF Delivered, Ended
<1>7. CASE req.label = ""
  <2>1. e = "clean" /\ m = req.produced /\ (req.convDone \/ req.ended)
    BY <1>1, <1>7 DEF CloseIsDue, m, e
  <2>2. (req.convDone \/ req.ended)' = (req.convDone \/ req.ended)
    OBVIOUS
  <2>3. Contract!Finish
    BY <1>5, <2>1, <2>2 DEF Contract!Finish, Delivered, Ended, m
  <2>. QED  BY <1>6, <2>3 DEF ContractStep, Contract!Next, e, m
<1>8. CASE req.label # ""
  <2>1. e = "failed"
    BY <1>8 DEF e
  <2>2. (req.convDone \/ req.ended)' = (req.convDone \/ req.ended)
    OBVIOUS
  <2>3. Contract!Fail
    BY <1>5, <2>1, <2>2 DEF Contract!Fail, Delivered, Ended, m
  <2>. QED  BY <1>6, <2>3 DEF ContractStep, Contract!Next, e, m
<1>. QED  BY <1>7, <1>8

LEMMA OneMore ==
  ASSUME NEW d \in Seq(Items), NEW m \in Nat, NEW p \in Nat, m + 1 \in Items, m < p
  PROVE  Append(d, m + 1) \in Seq(Items) /\ m + 1 \in Nat /\ m + 1 <= p
OBVIOUS

\* The event that timed out arrives: Deliver before the close, Straggle after it.
LEMMA EventArrives ==
  ASSUME Sim, req.pc \notin Early \cup {"emitting"}, Delivered + 1 \in req.orphan,
         req.label # "",
         UNCHANGED <<req.produced, req.convDone, req.ended>>,
         req'.down = Append(req.down, Delivered + 1)
  PROVE  /\ Delivered' = Delivered + 1 /\ Delivered + 1 <= req.produced
         /\ Ended' = IF Ended = "none" THEN "none" ELSE "straggled"
         /\ Heard(req'.down, Delivered', Ended')
         /\ ContractStep
<1>. DEFINE m == Delivered
<1>1. /\ CloseIsDue /\ m \in Nat /\ Heard(req.down, m, Ended) /\ req.down \in Seq(Items)
      /\ req.orphan \subseteq Items /\ Ended \in {"none", "clean", "failed", "straggled"}
      /\ req.produced \in Nat
  BY PastTheLoop
<1>2. m < req.produced /\ Ended \in {"none", "failed"}
  BY <1>1 DEF CloseIsDue
<1>3. Append(req.down, m + 1) \in Seq(Items) /\ m + 1 \in Nat /\ m + 1 <= req.produced
  <2>1. m + 1 \in Items
    BY <1>1
  <2>. QED  BY <1>1, <1>2, <2>1, OneMore
<1>4. (req.convDone \/ req.ended)' = (req.convDone \/ req.ended)
  OBVIOUS
<1>. HIDE DEF m
<1>5. CASE Ended = "none"
  <2>1. Heard(Append(req.down, m + 1), m + 1, "none")
    BY <1>1, <1>5, HeardGrows
  <2>2. Sent(req'.down) = m + 1 /\ End(req'.down) = "none"
    BY <1>3, <2>1, HeardIsSent DEF m
  <2>3. Contract!Deliver
    BY <1>2, <1>4, <1>5, <2>2 DEF Contract!Deliver, Delivered, Ended, m
  <2>4. ContractStep
    BY <2>3 DEF ContractStep, Contract!Next
  <2>5. Delivered' = m + 1 /\ Ended' = "none"
    BY <2>2 DEF Delivered, Ended
  <2>. QED  BY <1>3, <1>5, <2>1, <2>4, <2>5 DEF m
<1>6. CASE Ended = "failed"
  <2>1. Heard(Append(req.down, m + 1), m + 1, "straggled")
    BY <1>1, <1>6, HeardGrows
  <2>2. Sent(req'.down) = m + 1 /\ End(req'.down) = "straggled"
    BY <1>3, <2>1, HeardIsSent DEF m
  <2>3. Contract!Straggle
    BY <1>2, <1>4, <1>6, <2>2 DEF Contract!Straggle, Delivered, Ended, m
  <2>4. ContractStep
    BY <2>3 DEF ContractStep, Contract!Next
  <2>5. Delivered' = m + 1 /\ Ended' = "straggled"
    BY <2>2 DEF Delivered, Ended
  <2>. QED  BY <1>3, <1>6, <2>1, <2>4, <2>5 DEF m
<1>. QED  BY <1>2, <1>5, <1>6

LEMMA ClosingDelivers ==
  ASSUME Sim,
         \/ UpstreamClosed \/ HostClosesDownstream \/ DownstreamClosed
         \/ StopWatchdog \/ PumpExits
  PROVE  Delivery' /\ ContractStep
<1>0. /\ req \in Requests /\ req.orphan \subseteq Items
      /\ req.pc \in {"closingUp", "closingDown", "stopping", "returning"}
  BY DEF Sim, Control, Requests, UpstreamClosed, HostClosesDownstream, DownstreamClosed,
         StopWatchdog, PumpExits
<1>1. /\ CloseIsDue /\ Delivered \in Nat /\ Heard(req.down, Delivered, Ended)
      /\ Ended \in {"none", "clean", "failed", "straggled"}
  BY <1>0, PastTheLoop DEF Early, Handler
<1>2. \A pc \in {"closingUp", "closingDown", "stopping", "returning", "gone"} :
        pc \notin Early \cup {"emitting"}
  BY DEF Early, Handler
<1>3. CASE UpstreamClosed
  <2>1. /\ UNCHANGED <<req.produced, req.down, req.convDone, req.ended, req.orphan, req.label>>
        /\ req.pc = "closingUp" /\ req'.pc = "closingDown"
    BY <1>0, <1>3 DEF UpstreamClosed, Becomes, Requests
  <2>2. Delivered' = Delivered /\ Ended' = Ended
    BY <2>1, NothingTold
  <2>3. CloseIsDue'
    BY <1>1, <2>1, <2>2 DEF CloseIsDue
  <2>. QED  BY <1>1, <1>2, <2>1, <2>2, <2>3, Stutters, StaysPast
<1>4. CASE HostClosesDownstream
  <2>1. /\ UNCHANGED <<req.produced, req.convDone, req.ended, req.orphan, req.label, req.pc>>
        /\ req.pc = "closingDown" /\ req.call = "inHost" /\ req'.call = "accepted"
        /\ req'.down = Append(req.down, CloseItem)
    BY <1>0, <1>4 DEF HostClosesDownstream, Becomes, Requests
  <2>2. Ended = "none" /\ req.orphan \cap Closes = {}
    BY <1>1, <2>1 DEF CloseIsDue
  <2>3. /\ Delivered' = Delivered /\ Heard(req'.down, Delivered', Ended') /\ ContractStep
        /\ Ended' = IF req.label = "" THEN "clean" ELSE "failed"
    BY <1>2, <2>1, <2>2, CloseArrives
  <2>4. CloseIsDue'
    BY <1>1, <2>1, <2>2, <2>3 DEF CloseIsDue
  <2>. QED  BY <1>1, <1>2, <2>1, <2>3, <2>4, StaysPast
<1>5. CASE DownstreamClosed
  <2>1. /\ UNCHANGED <<req.produced, req.down, req.convDone, req.ended, req.label>>
        /\ req.pc = "closingDown" /\ req'.call = "none"
        /\ req'.pc = IF req.label = "" THEN "returning" ELSE "stopping"
        /\ req'.orphan = IF req.call = "inHost" THEN req.orphan \cup {CloseItem} ELSE req.orphan
    BY <1>0, <1>5 DEF DownstreamClosed, Becomes, Requests
  <2>2. Delivered' = Delivered /\ Ended' = Ended
    BY <2>1, NothingTold
  <2>3. CloseIsDue'
    <3>1. CASE req.call = "inHost"
      <4>1. Ended = "none" /\ req'.orphan = req.orphan \cup {CloseItem}
        BY <1>1, <2>1, <3>1 DEF CloseIsDue
      <4>2. CloseItem # Delivered + 1
        <5>1. CleanClose # Delivered + 1 /\ FailedClose # Delivered + 1
          BY <1>1 DEF CleanClose, FailedClose
        <5>. QED  BY <5>1 DEF CloseItem
      <4>. QED  BY <1>1, <2>1, <2>2, <4>1, <4>2 DEF CloseIsDue, CloseItem
    <3>2. CASE req.call # "inHost"
      BY <1>1, <2>1, <2>2, <3>2 DEF CloseIsDue
    <3>. QED  BY <3>1, <3>2
  <2>. QED  BY <1>1, <1>2, <2>1, <2>2, <2>3, Stutters, StaysPast
<1>6. CASE StopWatchdog
  <2>1. /\ UNCHANGED <<req.produced, req.down, req.convDone, req.ended, req.orphan, req.label, req.call>>
        /\ req.pc = "stopping" /\ req'.pc = IF req.once THEN "returning" ELSE "closingUp"
    BY <1>0, <1>6 DEF StopWatchdog, Becomes, Requests
  <2>2. req.once <=> req.label # ""
    BY <2>1 DEF Sim, Control, Labelled
  <2>3. Delivered' = Delivered /\ Ended' = Ended
    BY <2>1, NothingTold
  <2>4. CloseIsDue'
    BY <1>1, <2>1, <2>2, <2>3 DEF CloseIsDue
  <2>. QED  BY <1>1, <1>2, <2>1, <2>3, <2>4, Stutters, StaysPast
<1>7. CASE PumpExits
  <2>1. /\ UNCHANGED <<req.produced, req.down, req.convDone, req.ended, req.orphan, req.label>>
        /\ req'.pc = "gone"
    BY <1>0, <1>7 DEF PumpExits, Becomes, Requests
  <2>2. Delivered' = Delivered /\ Ended' = Ended
    BY <2>1, NothingTold
  <2>3. CloseIsDue'
    BY <1>1, <2>1, <2>2 DEF CloseIsDue
  <2>. QED  BY <1>1, <1>2, <2>1, <2>2, <2>3, Stutters, StaysPast
<1>. QED  BY <1>3, <1>4, <1>5, <1>6, <1>7

LEMMA OrphanDelivers ==
  ASSUME Sim, OrphanEnds
  PROVE  Delivery' /\ ContractStep
<1>1. PICK o \in req.orphan :
        \/ Becomes([req EXCEPT !.orphan = @ \ {o}, !.down = Append(@, o)])
        \/ o > 0 /\ Becomes([req EXCEPT !.orphan = @ \ {o}])
  BY OrphanCases
<1>2. req.pc \notin Early \cup {"emitting"}
  BY <1>1 DEF Sim, Delivery
<1>3. /\ CloseIsDue /\ req \in Requests
      /\ Delivered \in Nat /\ Heard(req.down, Delivered, Ended)
      /\ Ended \in {"none", "clean", "failed", "straggled"}
  BY <1>2, PastTheLoop
<1>4. /\ UNCHANGED <<req.produced, req.convDone, req.ended, req.label, req.pc, req.call>>
      /\ req'.orphan = req.orphan \ {o}
      /\ req'.down = Append(req.down, o) \/ (o > 0 /\ req'.down = req.down)
  <2>1. CASE Becomes([req EXCEPT !.orphan = @ \ {o}, !.down = Append(@, o)])
    BY <1>3, <2>1 DEF Becomes, Requests
  <2>2. CASE o > 0 /\ Becomes([req EXCEPT !.orphan = @ \ {o}])
    BY <1>3, <2>2 DEF Becomes, Requests
  <2>. QED  BY <1>1, <2>1, <2>2
<1>5. CASE req'.down = req.down
  <2>1. Delivered' = Delivered /\ Ended' = Ended
    BY <1>5, NothingTold
  <2>2. CloseIsDue'
    BY <1>3, <1>4, <2>1 DEF CloseIsDue
  <2>. QED  BY <1>2, <1>3, <1>4, <1>5, <2>1, <2>2, Stutters, StaysPast
<1>6. CASE req'.down = Append(req.down, o) /\ o = CloseItem
  <2>1. Ended = "none" /\ CloseItem \in Closes
    BY <1>3, <1>6 DEF CloseIsDue, Closes, CloseItem
  <2>2. /\ Delivered' = Delivered /\ Heard(req'.down, Delivered', Ended') /\ ContractStep
        /\ Ended' = IF req.label = "" THEN "clean" ELSE "failed"
    BY <1>2, <1>4, <1>6, <2>1, CloseArrives
  <2>3. req'.orphan \cap Closes = {}
    <3>0. Delivered + 1 \notin Closes
      BY <1>3 DEF Closes, CleanClose, FailedClose
    <3>1. CASE req.label = ""
      <4>1. req.orphan \subseteq {CleanClose} /\ o = CleanClose
        BY <1>3, <1>6, <3>1 DEF CloseIsDue, CloseItem
      <4>. QED  BY <1>4, <4>1
    <3>2. CASE req.label # ""
      <4>1. req.orphan \subseteq {Delivered + 1, FailedClose} /\ o = FailedClose
        BY <1>3, <1>6, <3>2 DEF CloseIsDue, CloseItem
      <4>. QED  BY <1>4, <3>0, <4>1
    <3>. QED  BY <3>1, <3>2
  <2>4. req.pc \notin {"closingUp", "closingDown"} /\ ~(req.pc = "stopping" /\ req.label = "")
    BY <1>1, <1>3, <1>6, <2>1 DEF CloseIsDue
  <2>5. CloseIsDue'
    BY <1>3, <1>4, <2>1, <2>2, <2>3, <2>4 DEF CloseIsDue
  <2>. QED  BY <1>2, <1>3, <1>4, <2>2, <2>5, StaysPast
<1>7. CASE req'.down = Append(req.down, o) /\ o # CloseItem
  <2>1. o = Delivered + 1 /\ req.label # ""
    BY <1>1, <1>3, <1>7 DEF CloseIsDue, CloseItem
  <2>2. /\ Delivered' = Delivered + 1 /\ Delivered + 1 <= req.produced
        /\ Ended' = IF Ended = "none" THEN "none" ELSE "straggled"
        /\ Heard(req'.down, Delivered', Ended')
        /\ ContractStep
    BY <1>1, <1>2, <1>4, <1>7, <2>1, EventArrives
  <2>3. req'.orphan \subseteq {FailedClose} /\ Delivered' + 1 \notin req'.orphan
    <3>1. req.orphan \subseteq {Delivered + 1, FailedClose}
      BY <1>3, <2>1 DEF CloseIsDue
    <3>2. req'.orphan \subseteq {FailedClose}
      BY <1>4, <2>1, <3>1
    <3>3. Delivered' + 1 # FailedClose
      BY <1>3, <2>2 DEF FailedClose
    <3>. QED  BY <3>2, <3>3
  <2>4. CloseIsDue'
    BY <1>3, <1>4, <2>1, <2>2, <2>3 DEF CloseIsDue
  <2>. QED  BY <1>2, <1>3, <1>4, <2>2, <2>4, StaysPast
<1>. QED  BY <1>4, <1>5, <1>6, <1>7

-----------------------------------------------------------------------------
(* The implementation.                                                     *)

LEMMA InitSim == Init => SimInv /\ Contract!Init
<1>. SUFFICES ASSUME Init PROVE SimInv /\ Contract!Init
  OBVIOUS
<1>1. /\ req.pc = "idle" /\ req.watchdog = "off" /\ req.ended = FALSE /\ req.convDone = FALSE
      /\ req.label = "" /\ req.once = FALSE /\ req.orphan = {} /\ req.pending = <<>>
      /\ req.down = <<>> /\ req.produced = 0
  BY DEF Init
<1>2. Heard(<<>>, 0, "none") /\ <<>> \in Seq(Items)
  BY DEF Heard
<1>3. Sent(<<>>) = 0 /\ End(<<>>) = "none"
  BY <1>2, HeardIsSent
<1>4. Watched /\ EndKnown /\ Labelled
  BY <1>1 DEF Watched, EndKnown, Labelled, Pumping, Looping
<1>5. "idle" \in Early
  BY DEF Early
<1>6. Delivery
  <2>1. Delivered = 0 /\ Ended = "none"
    BY <1>1, <1>3 DEF Delivered, Ended
  <2>2. Heard(req.down, 0, "none")
    BY <1>1, <1>2
  <2>. QED  BY <1>1, <1>5, <2>1, <2>2 DEF Delivery, Early, Handler
<1>7. Contract!Init
  BY <1>1, <1>3 DEF Contract!Init
<1>. QED  BY <1>4, <1>6, <1>7, InitIndInv DEF SimInv

LEMMA StepSim == SimInv /\ [Next]_vars => SimInv' /\ ContractStep
<1>. SUFFICES ASSUME SimInv, [Next]_vars PROVE SimInv' /\ ContractStep
  OBVIOUS
<1>1. IndInv'
  BY NextIndInv DEF SimInv
<1>2. Sim
  BY DEF SimInv, Sim, Control, IndInv, TypeOK
<1>3. CASE RequestSteps
  <2>1. (Watched /\ EndKnown /\ Labelled)'
    BY <1>2, <1>3, HandlerControl, LoopControl, ClosingControl DEF RequestSteps, Sim
  <2>2. Delivery' /\ ContractStep
    BY <1>2, <1>3, HandlerDelivers, LoopDelivers, ClosingDelivers, WatchdogDelivers,
       OrphanDelivers DEF RequestSteps
  <2>. QED  BY <1>1, <2>1, <2>2 DEF SimInv
<1>4. CASE UNCHANGED req
  <2>0. Delivered' = Delivered /\ Ended' = Ended
    BY <1>4 DEF Delivered, Ended
  <2>3. (BatchIsRest' <=> BatchIsRest) /\ (CloseIsDue' <=> CloseIsDue)
    BY <1>4, <2>0 DEF BatchIsRest, CloseIsDue
  <2>4. Delivery'
    BY <1>4, <2>0, <2>3 DEF SimInv, Delivery
  <2>1. (Watched /\ EndKnown /\ Labelled /\ Delivery)'
    BY <1>4, <2>4 DEF SimInv, Watched, EndKnown, Labelled
  <2>2. ContractStep
    BY <1>4, Stutters
  <2>. QED  BY <1>1, <2>1, <2>2 DEF SimInv
<1>5. RequestSteps \/ UNCHANGED req
  BY DEF Next, RequestSteps, vars, StartDrain, WaiterRuns, DrainReturns
<1>. QED  BY <1>3, <1>4, <1>5

\* The pump, with its watchdog, its orphans and a shutdown at any time, implements
\* StreamContract: events in order, each once, one close, and no stream that was cut
\* is closed as if it were whole.
THEOREM Implements == Spec => ContractKept
<1>1. SimInv /\ [Next]_vars => SimInv' /\ [Contract!Next]_(Contract!vars)
  BY StepSim DEF ContractStep
<1>. QED  BY <1>1, InitSim, PTL DEF Spec, ContractKept, Contract!Spec
=============================================================================
