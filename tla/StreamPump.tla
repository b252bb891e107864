------------------------------ MODULE StreamPump ------------------------------
(***************************************************************************)
(* internal/plugin/executor.go: one executor.execute_stream request, from  *)
(* do_stream to the end of its pump goroutine, beside its watchdog and     *)
(* beside plugin.shutdown.                                                 *)
(*                                                                         *)
(* A host callback appears by its contract, which HostBridge establishes:  *)
(* it holds one count of the wait group from its first step until its      *)
(* goroutine has left the host; a bounded one may report a timeout while   *)
(* its orphan stays in the host.  The data of the stream is abstracted to  *)
(* the number of bytes of a chunk and to event numbers.                    *)
(***************************************************************************)
EXTENDS Integers, Sequences, FiniteSets

CONSTANTS
  MaxResponseBytes,     \* max-response-bytes of the configuration
  MaxEvents             \* bound: events the converter makes in one stream

ASSUME PumpAssumption ==
  /\ MaxResponseBytes \in Nat
  /\ MaxEvents \in Nat

\* Host-side order of the downstream stream: event numbers and closes.
CleanClose  == 0
FailedClose == -1

\* What one stream_read returns: the size of the payload, whether the stream is
\* done, and whether it reports a failure (of the call or of the upstream).
Reads == [size : 0..(MaxResponseBytes + 1), closed : BOOLEAN, failed : BOOLEAN]
NoRead == [size |-> 0, closed |-> FALSE, failed |-> FALSE]

VARIABLES
  req,         \* the request: handler thread, pump goroutine, watchdog, streams
  waiter,      \* goroutine of WaitForInFlight
  shutdown     \* progress of plugin.shutdown

vars == <<req, waiter, shutdown>>

Handler == {"opening", "errorRead", "errorClose"}
Pumping == {"reading", "deciding", "emitting", "closingUp", "closingDown",
            "stopping", "returning"}
Items   == {FailedClose} \cup (0..MaxEvents)

Requests ==
  [pc       : {"idle", "failed", "gone"} \cup Handler \cup Pumping,
   up       : {"none", "open", "closed"},      \* the upstream stream in the host
   last     : Reads,                           \* latest stream_read, not acted on
   total    : 0..MaxResponseBytes,             \* bytes read and accepted
   pending  : Seq(1..MaxEvents),               \* converted events not emitted yet
   produced : 0..MaxEvents,                    \* events converted so far
   convDone : BOOLEAN,                         \* the converter saw the end
   ended    : BOOLEAN,                         \* the upstream ended by itself
   flushed  : BOOLEAN,                         \* Flush has run, or there is no Flush
   label    : {"", "timeout", "upstream", "limit", "convert", "emit"},
   once     : BOOLEAN,                         \* closeOnce has been used
   call     : {"none", "inHost", "accepted"},  \* the pump's bounded downstream call
   orphan   : SUBSET Items,                    \* timed-out calls still in the host
   down     : Seq(Items),                      \* what the host did downstream
   aborted  : BOOLEAN,                         \* the watchdog's flag
   watchdog : {"off", "armed", "fired", "flagged", "closing", "ended", "stopped"}]

TypeOK ==
  /\ req \in Requests
  /\ waiter \in {"none", "waiting", "woken", "passed", "crashed"}
  /\ shutdown \in {"serving", "draining", "drained", "gaveUp"}

Init ==
  /\ req = [pc |-> "idle", up |-> "none", last |-> NoRead, total |-> 0,
            pending |-> <<>>, produced |-> 0, convDone |-> FALSE, ended |-> FALSE,
            flushed |-> FALSE, label |-> "", once |-> FALSE, call |-> "none",
            orphan |-> {}, down |-> <<>>, aborted |-> FALSE, watchdog |-> "off"]
  /\ waiter = "none"
  /\ shutdown = "serving"

-----------------------------------------------------------------------------
(* Accounting.                                                             *)

Crashed == waiter = "crashed"

One(b) == IF b THEN 1 ELSE 0

\* Fault: the pump goroutine has no count of its own between its callbacks.
CountOfCallbacks(r) ==
  One(r.pc \in Handler \cup {"reading", "closingUp"} \/ r.call # "none")
  + One(r.watchdog = "closing")
  + Cardinality(r.orphan)

\* The wait group: the pump's own count, the callback the request is in, the
\* watchdog's callback and the orphans.
CountOf(r) ==
  One(r.pc \in Pumping)
  + One(r.pc \in Handler \cup {"reading", "closingUp"} \/ r.call # "none")
  + One(r.watchdog = "closing")
  + Cardinality(r.orphan)
Count == CountOf(req)

\* One step of the request; at zero a parked waiter is woken.
Becomes(r) ==
  /\ ~Crashed
  /\ req' = r
  /\ waiter' = IF waiter = "waiting" /\ CountOf(r) = 0 THEN "woken" ELSE waiter
  /\ UNCHANGED shutdown

-----------------------------------------------------------------------------
(* The handler thread: executeStream.                                      *)

\* A routable request with a valid body starts do_stream.
Execute ==
  /\ req.pc = "idle" /\ shutdown = "serving"
  /\ Becomes([req EXCEPT !.pc = "opening"])

\* do_stream fails, times out (HostBridge closes its late stream) or reports a
\* status of 400 and above without a stream: an error envelope, no pump.
OpenFails ==
  /\ req.pc = "opening"
  /\ Becomes([req EXCEPT !.pc = "failed"])

\* Fault: the error body is read without a watchdog.
OpenRejectedUnwatched ==
  /\ req.pc = "opening"
  /\ Becomes([req EXCEPT !.pc = "errorRead", !.up = "open"])

\* An error status with a stream: its body is read under a watchdog of its own.
OpenRejected ==
  /\ req.pc = "opening"
  /\ Becomes([req EXCEPT !.pc = "errorRead", !.up = "open", !.watchdog = "armed"])

\* Status below 400: the pump goroutine gets its count and the handler returns.
\* The pump arms the watchdog and starts its first read.
OpenSucceeds ==
  /\ req.pc = "opening"
  /\ \E hasFlush \in BOOLEAN :
       Becomes([req EXCEPT !.pc = "reading", !.up = "open", !.watchdog = "armed",
                           !.flushed = ~hasFlush])

\* Timer.Stop: no effect on a watchdog that has fired, and no waiting for it.
Stopped(w) == IF w = "armed" THEN "stopped" ELSE w

\* The body is there, or the watchdog closed the stream; the watchdog is stopped.
ErrorBodyRead ==
  /\ req.pc = "errorRead"
  /\ Becomes([req EXCEPT !.pc = "errorClose", !.watchdog = Stopped(@)])

\* Fault: the rejected stream is left open.
ErrorLeftOpen ==
  /\ req.pc = "errorClose"
  /\ Becomes([req EXCEPT !.pc = "failed"])

\* The rejected stream is closed and the error envelope returned.
ErrorClosed ==
  /\ req.pc = "errorClose"
  /\ Becomes([req EXCEPT !.pc = "failed", !.up = "closed"])

-----------------------------------------------------------------------------
(* The pump loop.                                                          *)

\* stream_read returns.  Nothing but a close of ours ends the read of an open
\* stream on which the upstream is silent; a closed stream has no more payload.
ReadReturns ==
  /\ req.pc = "reading"
  /\ \E r \in Reads :
       /\ req.up = "closed" => r.size = 0 /\ (r.closed \/ r.failed)
       /\ Becomes([req EXCEPT !.pc = "deciding", !.last = r,
                              !.ended = req.up = "open" /\ r.closed])

\* closeStreams with an error label, from the middle of the loop.
Failing(r, l) == [r EXCEPT !.pc = "closingUp", !.label = l, !.once = TRUE]

\* The numbers of the n events the converter makes next.
Batch(n) == [k \in 1..n |-> req.produced + k]

\* The converter accepts the payload: events, and perhaps the end of the response.
Fed(n, fin) ==
  [req EXCEPT !.pc = "emitting", !.total = @ + req.last.size, !.convDone = fin,
              !.pending = Batch(n), !.produced = @ + n]

\* Fault: the limit is compared before the chunk is added.
OverLimitBefore == req.total > MaxResponseBytes

\* The chunk would take the response past max-response-bytes.
OverLimit == req.total + req.last.size > MaxResponseBytes

\* The decisions after a read, in the order of the code: the watchdog's flag, the
\* failures, the size limit, and only then the converter.
Decide ==
  /\ req.pc = "deciding"
  /\ \/ req.aborted /\ Becomes(Failing(req, "timeout"))
     \/ ~req.aborted /\ req.last.failed /\ Becomes(Failing(req, "upstream"))
     \/ /\ ~req.aborted /\ ~req.last.failed /\ OverLimit
        /\ Becomes(Failing(req, "limit"))
     \/ /\ ~req.aborted /\ ~req.last.failed /\ ~OverLimit
        /\ \/ Becomes(Failing(req, "convert"))
           \/ \E n \in 0..(MaxEvents - req.produced), fin \in BOOLEAN :
                Becomes(Fed(n, fin))

\* The next event of the batch goes to the host.
EmitNext ==
  /\ req.pc = "emitting" /\ req.call = "none" /\ req.pending # <<>>
  /\ Becomes([req EXCEPT !.call = "inHost"])

\* The host accepts the event of the current emit.
HostAcceptsEvent ==
  /\ req.pc = "emitting" /\ req.call = "inHost"
  /\ Becomes([req EXCEPT !.call = "accepted",
                         !.down = Append(@, Head(req.pending))])

\* The emit returns without error.
EmitReturns ==
  /\ req.pc = "emitting" /\ req.call = "accepted"
  /\ Becomes([req EXCEPT !.call = "none", !.pending = Tail(@)])

\* The emit reports an error: the host refused the event, or the deadline passed
\* and the callback is orphaned, its event possibly accepted already.
EmitFails ==
  /\ req.pc = "emitting" /\ req.call # "none"
  /\ LET failed == Failing([req EXCEPT !.call = "none"], "emit") IN
     \/ Becomes(failed)
     \/ /\ req.call = "inHost"
        /\ Becomes([failed EXCEPT !.orphan = @ \cup {Head(req.pending)}])

BatchOut == req.pc = "emitting" /\ req.call = "none" /\ req.pending = <<>>

\* The batch is out: read on.
NextRead ==
  /\ BatchOut /\ ~req.convDone /\ ~req.last.closed
  /\ Becomes([req EXCEPT !.pc = "reading"])

\* After the loop, an upstream that ended before the converter did is flushed.
MustFlush == ~req.flushed /\ ~req.convDone
FlushConverter ==
  /\ BatchOut /\ req.last.closed /\ MustFlush
  /\ \E n \in 0..(MaxEvents - req.produced) :
       Becomes([req EXCEPT !.flushed = TRUE, !.pending = Batch(n),
                           !.produced = @ + n])

\* The pump returns; its deferred calls are still to come.
LeaveLoop ==
  /\ BatchOut /\ (req.convDone \/ req.last.closed) /\ ~MustFlush
  /\ Becomes([req EXCEPT !.pc = "stopping"])

-----------------------------------------------------------------------------
(* Closing: closeStreams, once, and the deferred calls of pumpStream.      *)

\* The upstream close returns; the downstream close is asked for.
UpstreamClosed ==
  /\ req.pc = "closingUp"
  /\ Becomes([req EXCEPT !.pc = "closingDown", !.up = "closed", !.call = "inHost"])

CloseItem == IF req.label = "" THEN CleanClose ELSE FailedClose

\* The host closes the downstream stream.
HostClosesDownstream ==
  /\ req.pc = "closingDown" /\ req.call = "inHost"
  /\ Becomes([req EXCEPT !.call = "accepted", !.down = Append(@, CloseItem)])

\* The downstream close returns, or its deadline passes and it is orphaned.  After
\* a failure the deferred calls are still to come.
DownstreamClosed ==
  /\ req.pc = "closingDown"
  /\ Becomes([req EXCEPT
       !.pc = IF req.label = "" THEN "returning" ELSE "stopping",
       !.call = "none",
       !.orphan = IF req.call = "inHost" THEN @ \cup {CloseItem} ELSE @])

\* Fault: a pump that leaves its loop normally does not close.
StopWithoutClose ==
  /\ req.pc = "stopping"
  /\ Becomes([req EXCEPT !.pc = "returning", !.once = TRUE, !.watchdog = Stopped(@)])

\* watchdog.Stop, then the deferred closeStreams(""), a no-op when the streams
\* are closed already.
StopWatchdog ==
  /\ req.pc = "stopping"
  /\ Becomes([req EXCEPT !.pc = IF req.once THEN "returning" ELSE "closingUp",
                         !.once = TRUE, !.watchdog = Stopped(@)])

\* The pump goroutine ends and releases its count.
PumpExits ==
  /\ req.pc = "returning"
  /\ Becomes([req EXCEPT !.pc = "gone"])

-----------------------------------------------------------------------------
(* The watchdog goroutine and the orphans.                                 *)

\* request-timeout passes with the timer armed: its goroutine starts.
WatchdogFires ==
  /\ req.watchdog = "armed"
  /\ Becomes([req EXCEPT !.watchdog = "fired"])

\* Fault: the watchdog closes the stream without raising the flag.
WatchdogSilent ==
  /\ req.watchdog = "fired"
  /\ Becomes([req EXCEPT !.watchdog = "flagged"])

\* It raises the flag before it touches the stream (the watchdog of the error
\* path has no flag to raise).
WatchdogFlags ==
  /\ req.watchdog = "fired"
  /\ Becomes([req EXCEPT !.watchdog = "flagged",
                         !.aborted = req.pc \notin Handler \cup {"failed"}])

\* Fault: the watchdog only raises the flag.
WatchdogOnlyFlags ==
  /\ req.watchdog = "flagged"
  /\ Becomes([req EXCEPT !.watchdog = "ended"])

\* It asks the host to close the upstream stream.
WatchdogCalls ==
  /\ req.watchdog = "flagged"
  /\ Becomes([req EXCEPT !.watchdog = "closing"])

\* The host has closed it.
WatchdogClosed ==
  /\ req.watchdog = "closing"
  /\ Becomes([req EXCEPT !.watchdog = "ended", !.up = "closed"])

\* The host gets to an orphaned emit or close; an event it may refuse.
OrphanEnds ==
  \E o \in req.orphan :
    LET left == [req EXCEPT !.orphan = @ \ {o}] IN
    \/ Becomes([left EXCEPT !.down = Append(@, o)])
    \/ o > 0 /\ Becomes(left)

-----------------------------------------------------------------------------
(* plugin.shutdown, as in HostBridge.  The host asks for it when none of   *)
(* its calls of this request is running.                                   *)

StartDrain ==
  /\ ~Crashed
  /\ shutdown = "serving" /\ req.pc \notin Handler
  /\ shutdown' = "draining"
  /\ waiter' = IF Count = 0 THEN "passed" ELSE "waiting"
  /\ UNCHANGED req

\* Wait panics when the counter left zero again before its waiter ran.
WaiterRuns ==
  /\ waiter = "woken"
  /\ waiter' = IF Count = 0 THEN "passed" ELSE "crashed"
  /\ UNCHANGED <<req, shutdown>>

DrainReturns ==
  /\ ~Crashed
  /\ shutdown = "draining"
  /\ \/ waiter = "passed" /\ shutdown' = "drained"
     \/ shutdown' = "gaveUp"
  /\ UNCHANGED <<req, waiter>>

-----------------------------------------------------------------------------
Next ==
  \/ Execute \/ OpenFails \/ OpenRejected \/ ErrorBodyRead \/ ErrorClosed
  \/ OpenSucceeds
  \/ ReadReturns \/ Decide
  \/ EmitNext \/ HostAcceptsEvent \/ EmitReturns \/ EmitFails
  \/ NextRead \/ FlushConverter \/ LeaveLoop
  \/ UpstreamClosed \/ HostClosesDownstream \/ DownstreamClosed
  \/ StopWatchdog \/ PumpExits
  \/ WatchdogFires \/ WatchdogFlags \/ WatchdogCalls \/ WatchdogClosed
  \/ OrphanEnds
  \/ StartDrain \/ WaiterRuns \/ DrainReturns

Spec == Init /\ [][Next]_vars

\* Goroutines that can run do, timers fire, do_stream returns (HostBridge), and
\* the host answers a stream_close and ends the read of a stream it has closed.
\* Nothing is assumed of an upstream that stays silent nor of a client that stops
\* reading: no fairness on reads of an open stream, nor on accepted events.
Fairness ==
  /\ WF_vars(OpenFails \/ OpenRejected \/ OpenSucceeds)
  /\ WF_vars(req.up = "closed" /\ (ErrorBodyRead \/ ReadReturns))
  /\ WF_vars(ErrorClosed) /\ WF_vars(UpstreamClosed) /\ WF_vars(WatchdogClosed)
  /\ WF_vars(Decide) /\ WF_vars(EmitNext) /\ WF_vars(EmitReturns) /\ WF_vars(EmitFails)
  /\ WF_vars(NextRead) /\ WF_vars(FlushConverter) /\ WF_vars(LeaveLoop)
  /\ WF_vars(DownstreamClosed) /\ WF_vars(StopWatchdog) /\ WF_vars(PumpExits)
  /\ WF_vars(WatchdogFires) /\ WF_vars(WatchdogFlags) /\ WF_vars(WatchdogCalls)
  /\ WF_vars(OrphanEnds)
  /\ WF_vars(WaiterRuns) /\ WF_vars(DrainReturns)

FairSpec == Spec /\ Fairness

-----------------------------------------------------------------------------
(* Properties.                                                             *)

\* The stream as its client sees it: events accepted in the order they were made,
\* and how it ended.  Anything else the host could have seen maps outside the
\* values the contract allows.
IsClose(x) == x <= 0
Sent(down) ==
  LET n == Len(down)
      events == {k \in 1..n : ~IsClose(down[k])}
      AreFirst(m) == {down[k] : k \in events} = 1..m IN
  IF /\ \A j, k \in events : j < k => down[j] < down[k]
     /\ \E m \in 0..n : AreFirst(m)
  THEN CHOOSE m \in 0..n : AreFirst(m)
  ELSE -1
End(down) ==
  LET n == Len(down)
      closes == {k \in 1..n : IsClose(down[k])} IN
  CASE closes = {} -> "none"
    [] closes = {n} /\ down[n] = CleanClose -> "clean"
    [] closes = {n} /\ down[n] = FailedClose -> "failed"
    [] closes = {n - 1} /\ down[n - 1] = FailedClose -> "straggled"
    [] OTHER -> "broken"

\* The pump, its watchdog and their orphans keep the contract with the client of
\* the stream.  In particular a stream cut by the watchdog, by the size limit or
\* by a failure is never closed as if it were whole.
Contract == INSTANCE StreamContract
              WITH produced <- req.produced, sent <- Sent(req.down),
                   complete <- req.convDone \/ req.ended, end <- End(req.down)
ContractKept == Contract!Spec

\* No way out of executeStream or pumpStream leaves the upstream stream open.
UpstreamReleased == req.pc \in {"gone", "failed"} => req.up # "open"

\* When the drain has reported success, the pump is gone and none of its emits or
\* closes is inside the host.
DrainCoversPump ==
  shutdown = "drained" => req.pc \notin Handler \cup Pumping /\ req.orphan = {}

\* The pump ends even if the upstream is silent for ever or the client stops
\* reading: the watchdog unparks the read, the emit deadline the emit.
PumpEnds == (req.pc = "reading") ~> (req.pc = "gone" \/ Crashed)

\* The client of every stream is told that it is over.
ClientReleased ==
  (req.pc = "reading") ~> ((\E k \in 1..Len(req.down) : IsClose(req.down[k])) \/ Crashed)

\* A handler whose upstream sends an error status and then stays silent returns.
HandlerReturns == (req.pc \in Handler) ~> (req.pc \notin Handler \/ Crashed)

\* "so the export does not return while our goroutines may still call into host
\* memory": once the drain has reported success nobody calls the host.
DrainedMeansQuiet == shutdown = "drained" => Count = 0
=============================================================================
