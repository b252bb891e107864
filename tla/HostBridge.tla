------------------------------ MODULE HostBridge ------------------------------
(***************************************************************************)
(* internal/plugin/hostbridge.go: how one host callback is run under a     *)
(* deadline, and how plugin.shutdown waits for the callbacks still alive.  *)
(*                                                                         *)
(* callWithTimeoutResult splits an invocation over up to three goroutines: *)
(*                                                                         *)
(*   caller    the goroutine that wants the answer; it selects on the      *)
(*             answer, on its deadline and, for host.http.do_stream, on a  *)
(*             grace timer after the deadline;                             *)
(*   callback  the goroutine that is inside the host; it posts the answer  *)
(*             to a one-place buffered channel and only then exits;        *)
(*   janitor   the goroutine left behind by a do_stream that missed the    *)
(*             grace window; it waits for the answer and closes the        *)
(*             upstream stream the answer names.                           *)
(*                                                                         *)
(* The three share one count of the wait group inFlight.  Closing a late   *)
(* stream is itself an invocation (host.http.stream_close, no deadline),   *)
(* so every call has a second invocation that may be made on its behalf.   *)
(***************************************************************************)
EXTENDS Naturals, FiniteSets

CONSTANT Calls          \* host callbacks the plugin may ask for, each once

ASSUME CallsAssumption == IsFiniteSet(Calls)

\* An invocation is a call itself or the late stream_close made for it.
Invocations == Calls \X {"call", "close"}
CallOf(c)   == <<c, "call">>
CloseOf(c)  == <<c, "close">>

\* What is asked of the host.  "bounded" has a deadline and no cleanup (http.do,
\* log, emit, downstream close, auth); "open" is do_stream: deadline, grace and
\* abandon function; "forever" has no deadline (stream_read, stream_close).
Kinds    == {"bounded", "open", "forever"}
Deadline == {"bounded", "open"}

VARIABLES
  kind,       \* kind[c]: what call c asks of the host, "unused" before it is made
  caller,     \* caller[i]: where the goroutine that wants the answer of i is
  verdict,    \* verdict[c]: what call c reported to its caller
  callback,   \* callback[i]: where the goroutine inside the host is
  done,       \* done[i]: content of the buffered channel
  janitor,    \* janitor[c]: the abandon goroutine of c
  drained,    \* drained[i]: the post-work of i is settled
  letGo,      \* letGo[i]: the count of i has been released
  expired,    \* expired[c]: the context of c is done
  stream,     \* stream[c]: the upstream stream the host registered for c
  inFlight,   \* counter of the wait group
  waiter,     \* the goroutine of WaitForInFlight that waits on the wait group
  shutdown    \* progress of WaitForInFlight for its caller, handleShutdown

vars == <<kind, caller, verdict, callback, done, janitor, drained, letGo,
          expired, stream, inFlight, waiter, shutdown>>

Held(i)  == callback[i] # "none" /\ ~letGo[i]
Holders  == {i \in Invocations : Held(i)}
Crashed  == waiter = "crashed"

TypeOK ==
  /\ kind \in [Calls -> Kinds \cup {"unused"}]
  /\ caller \in [Invocations -> {"idle", "select", "grace", "salvage", "returned"}]
  /\ verdict \in [Calls -> {"none", "answer", "timeout"}]
  /\ callback \in [Invocations -> {"none", "inHost", "answered", "gone"}]
  /\ done \in [Invocations -> {"empty", "stream", "other"}]
  /\ janitor \in [Calls -> {"none", "waiting", "closing", "gone"}]
  /\ drained \in [Invocations -> BOOLEAN]
  /\ letGo \in [Invocations -> BOOLEAN]
  /\ expired \in [Calls -> BOOLEAN]
  /\ stream \in [Calls -> {"none", "open", "closed"}]
  /\ inFlight \in Nat
  /\ waiter \in {"none", "waiting", "woken", "passed", "crashed"}
  /\ shutdown \in {"serving", "draining", "drained", "gaveUp"}

Init ==
  /\ kind = [c \in Calls |-> "unused"]
  /\ caller = [i \in Invocations |-> "idle"]
  /\ verdict = [c \in Calls |-> "none"]
  /\ callback = [i \in Invocations |-> "none"]
  /\ done = [i \in Invocations |-> "empty"]
  /\ janitor = [c \in Calls |-> "none"]
  /\ drained = [i \in Invocations |-> FALSE]
  /\ letGo = [i \in Invocations |-> FALSE]
  /\ expired = [c \in Calls |-> FALSE]
  /\ stream = [c \in Calls |-> "none"]
  /\ inFlight = 0
  /\ waiter = "none"
  /\ shutdown = "serving"

-----------------------------------------------------------------------------
(* The wait group and the hand-shake that releases one count.              *)

\* sync.WaitGroup.Done: the counter goes down; at zero a goroutine parked in
\* Wait is made runnable, to look at the counter once more when it runs.
Done ==
  /\ inFlight' = inFlight - 1
  /\ waiter' = IF inFlight = 1 /\ waiter = "waiting" THEN "woken" ELSE waiter

\* Fault: either condition alone releases the count.
MaybeReleaseOnEither(i, hasExited, hasDrained) ==
  IF hasExited \/ hasDrained
  THEN letGo' = [letGo EXCEPT ![i] = TRUE] /\ Done
  ELSE UNCHANGED <<letGo, inFlight, waiter>>

\* maybeRelease: the count of i goes when its callback goroutine has exited and
\* its post-work is settled, once.
MaybeRelease(i, hasExited, hasDrained) ==
  IF hasExited /\ hasDrained /\ ~letGo[i]
  THEN letGo' = [letGo EXCEPT ![i] = TRUE] /\ Done
  ELSE UNCHANGED <<letGo, inFlight, waiter>>

\* Fault: settling releases the count although the callback is still in the host.
SettleAndRelease(i) ==
  /\ drained' = [drained EXCEPT ![i] = TRUE]
  /\ MaybeRelease(i, TRUE, TRUE)

\* settle: the post-work of i is done.
Settle(i) ==
  /\ drained' = [drained EXCEPT ![i] = TRUE]
  /\ MaybeRelease(i, callback[i] = "gone", TRUE)

\* Fault: the goroutine is started without a count.
EnterUncounted(i) ==
  /\ caller[i] = "idle"
  /\ caller' = [caller EXCEPT ![i] = "select"]
  /\ callback' = [callback EXCEPT ![i] = "inHost"]
  /\ UNCHANGED <<verdict, done, janitor, drained, letGo, expired, stream,
                 inFlight, waiter, shutdown>>

\* The entry of callWithTimeoutResult: one count, one callback goroutine.
Enter(i) ==
  /\ caller[i] = "idle"
  /\ inFlight' = inFlight + 1
  /\ caller' = [caller EXCEPT ![i] = "select"]
  /\ callback' = [callback EXCEPT ![i] = "inHost"]
  /\ UNCHANGED <<verdict, done, janitor, drained, letGo, expired, stream,
                 waiter, shutdown>>

\* A goroutine of the plugin makes call c.  Entry points run and loops tick
\* only until the host asks for shutdown.
Begin(c) ==
  /\ ~Crashed
  /\ shutdown = "serving"
  /\ \E k \in Kinds : kind' = [kind EXCEPT ![c] = k]
  /\ Enter(CallOf(c))

-----------------------------------------------------------------------------
(* The host and the clock.                                                 *)

\* The host answers call c, or its callback panics and the goroutine recovers:
\* either way one result is posted.  A do_stream may have registered a stream.
HostAnswers(c) ==
  LET i == CallOf(c) IN
  /\ ~Crashed
  /\ callback[i] = "inHost"
  /\ callback' = [callback EXCEPT ![i] = "answered"]
  /\ \/ /\ done' = [done EXCEPT ![i] = "other"]
        /\ UNCHANGED stream
     \/ /\ kind[c] = "open"
        /\ done' = [done EXCEPT ![i] = "stream"]
        /\ stream' = [stream EXCEPT ![c] = "open"]
  /\ UNCHANGED <<kind, caller, verdict, janitor, drained, letGo, expired,
                 inFlight, waiter, shutdown>>

\* The host has closed the late stream of c.
HostCloses(c) ==
  LET i == CloseOf(c) IN
  /\ ~Crashed
  /\ callback[i] = "inHost"
  /\ callback' = [callback EXCEPT ![i] = "answered"]
  /\ done' = [done EXCEPT ![i] = "other"]
  /\ stream' = [stream EXCEPT ![c] = "closed"]
  /\ UNCHANGED <<kind, caller, verdict, janitor, drained, letGo, expired,
                 inFlight, waiter, shutdown>>

\* The deferred function of the callback goroutine.
CallbackExits(i) ==
  /\ ~Crashed
  /\ callback[i] = "answered"
  /\ callback' = [callback EXCEPT ![i] = "gone"]
  /\ MaybeRelease(i, TRUE, drained[i])
  /\ UNCHANGED <<kind, caller, verdict, done, janitor, drained, expired, stream,
                 shutdown>>

\* The deadline of call c passes (or its context is cancelled).
Expire(c) ==
  /\ ~Crashed
  /\ kind[c] \in Deadline
  /\ caller[CallOf(c)] = "select"
  /\ ~expired[c]
  /\ expired' = [expired EXCEPT ![c] = TRUE]
  /\ UNCHANGED <<kind, caller, verdict, callback, done, janitor, drained, letGo,
                 stream, inFlight, waiter, shutdown>>

-----------------------------------------------------------------------------
(* The caller.                                                             *)

\* The answer is selected, even if the deadline passed meanwhile: with both
\* ready the select statement picks either.
TakeAnswer(c) ==
  LET i == CallOf(c) IN
  /\ ~Crashed
  /\ caller[i] = "select"
  /\ done[i] # "empty"
  /\ done' = [done EXCEPT ![i] = "empty"]
  /\ caller' = [caller EXCEPT ![i] = "returned"]
  /\ verdict' = [verdict EXCEPT ![c] = "answer"]
  /\ Settle(i)
  /\ UNCHANGED <<kind, callback, janitor, expired, stream, shutdown>>

\* Fault: after the deadline the caller still waits for its callback to exit.
GiveUpAfterCallback(c) ==
  LET i == CallOf(c) IN
  /\ ~Crashed
  /\ caller[i] = "select"
  /\ expired[c] /\ callback[i] = "gone"
  /\ caller' = [caller EXCEPT ![i] = "returned"]
  /\ verdict' = [verdict EXCEPT ![c] = "timeout"]
  /\ Settle(i)
  /\ UNCHANGED <<kind, callback, done, janitor, expired, stream, shutdown>>

\* The deadline is selected.  do_stream stays for the grace window; every other
\* call settles and returns the timeout at once.
GiveUp(c) ==
  LET i == CallOf(c) IN
  /\ ~Crashed
  /\ caller[i] = "select"
  /\ expired[c]
  /\ \/ /\ kind[c] = "open"
        /\ caller' = [caller EXCEPT ![i] = "grace"]
        /\ UNCHANGED <<verdict, drained, letGo, inFlight, waiter>>
     \/ /\ kind[c] = "bounded"
        /\ caller' = [caller EXCEPT ![i] = "returned"]
        /\ verdict' = [verdict EXCEPT ![c] = "timeout"]
        /\ Settle(i)
  /\ UNCHANGED <<kind, callback, done, janitor, expired, stream, shutdown>>

\* Fault: the late flag is lost, the caller gets the stream that is being closed.
TakeLateAnswerAsAnswer(c) ==
  LET i == CallOf(c) IN
  /\ ~Crashed
  /\ caller[i] = "grace"
  /\ done[i] # "empty"
  /\ done' = [done EXCEPT ![i] = "empty"]
  /\ caller' = [caller EXCEPT ![i] = IF done[i] = "stream" THEN "salvage" ELSE "returned"]
  /\ verdict' = [verdict EXCEPT ![c] = "answer"]
  /\ Settle(i)
  /\ UNCHANGED <<kind, callback, janitor, expired, stream, shutdown>>

\* The answer arrives within the grace window: the count is settled, then
\* DoStream closes the stream the answer names, if any, before it reports the
\* timeout.
TakeLateAnswer(c) ==
  LET i == CallOf(c) IN
  /\ ~Crashed
  /\ caller[i] = "grace"
  /\ done[i] # "empty"
  /\ done' = [done EXCEPT ![i] = "empty"]
  /\ IF done[i] = "stream"
     THEN /\ caller' = [caller EXCEPT ![i] = "salvage"]
          /\ UNCHANGED verdict
     ELSE /\ caller' = [caller EXCEPT ![i] = "returned"]
          /\ verdict' = [verdict EXCEPT ![c] = "timeout"]
  /\ Settle(i)
  /\ UNCHANGED <<kind, callback, janitor, expired, stream, shutdown>>

\* The grace window lapses: the janitor takes over and the caller returns.
HandToJanitor(c) ==
  LET i == CallOf(c) IN
  /\ ~Crashed
  /\ caller[i] = "grace"
  /\ caller' = [caller EXCEPT ![i] = "returned"]
  /\ verdict' = [verdict EXCEPT ![c] = "timeout"]
  /\ janitor' = [janitor EXCEPT ![c] = "waiting"]
  /\ UNCHANGED <<kind, callback, done, drained, letGo, expired, stream,
                 inFlight, waiter, shutdown>>

\* The caller of the late close, or the janitor, gets the answer of stream_close.
CloseAnswered(c) ==
  LET i == CloseOf(c) IN
  /\ ~Crashed
  /\ caller[i] = "select"
  /\ done[i] # "empty"
  /\ done' = [done EXCEPT ![i] = "empty"]
  /\ caller' = [caller EXCEPT ![i] = "returned"]
  /\ Settle(i)
  /\ UNCHANGED <<kind, verdict, callback, janitor, expired, stream, shutdown>>

\* closeLateStream asks the host to close the stream of c: in the caller after a
\* late answer, in the janitor otherwise.
CloseLate(c) ==
  /\ ~Crashed
  /\ caller[CallOf(c)] = "salvage" \/ janitor[c] = "closing"
  /\ Enter(CloseOf(c))
  /\ UNCHANGED kind

\* DoStream returns the timeout once its late stream is closed.
Salvaged(c) ==
  /\ ~Crashed
  /\ caller[CallOf(c)] = "salvage"
  /\ caller[CloseOf(c)] = "returned"
  /\ caller' = [caller EXCEPT ![CallOf(c)] = "returned"]
  /\ verdict' = [verdict EXCEPT ![c] = "timeout"]
  /\ UNCHANGED <<kind, callback, done, janitor, drained, letGo, expired, stream,
                 inFlight, waiter, shutdown>>

-----------------------------------------------------------------------------
(* The janitor.                                                            *)

\* Fault: the orphaned answer is thrown away.
JanitorDropsAnswer(c) ==
  /\ ~Crashed
  /\ janitor[c] = "waiting"
  /\ done[CallOf(c)] # "empty"
  /\ done' = [done EXCEPT ![CallOf(c)] = "empty"]
  /\ janitor' = [janitor EXCEPT ![c] = "gone"]
  /\ Settle(CallOf(c))
  /\ UNCHANGED <<kind, caller, verdict, callback, expired, stream, shutdown>>

\* The orphaned answer is there.  Without a stream there is nothing to close.
JanitorTakes(c) ==
  LET i == CallOf(c) IN
  /\ ~Crashed
  /\ janitor[c] = "waiting"
  /\ done[i] # "empty"
  /\ done' = [done EXCEPT ![i] = "empty"]
  /\ IF done[i] = "stream"
     THEN /\ janitor' = [janitor EXCEPT ![c] = "closing"]
          /\ UNCHANGED <<drained, letGo, inFlight, waiter>>
     ELSE /\ janitor' = [janitor EXCEPT ![c] = "gone"]
          /\ Settle(i)
  /\ UNCHANGED <<kind, caller, verdict, callback, expired, stream, shutdown>>

\* The late stream is closed; only now is the original invocation settled.
JanitorDone(c) ==
  /\ ~Crashed
  /\ janitor[c] = "closing"
  /\ caller[CloseOf(c)] = "returned"
  /\ janitor' = [janitor EXCEPT ![c] = "gone"]
  /\ Settle(CallOf(c))
  /\ UNCHANGED <<kind, caller, verdict, callback, done, expired, stream, shutdown>>

-----------------------------------------------------------------------------
(* plugin.shutdown: WaitForInFlight.                                       *)

\* The wait starts: a goroutine calls Wait, which returns at once on zero.
StartDrain ==
  /\ ~Crashed
  /\ shutdown = "serving"
  /\ shutdown' = "draining"
  /\ waiter' = IF inFlight = 0 THEN "passed" ELSE "waiting"
  /\ UNCHANGED <<kind, caller, verdict, callback, done, janitor, drained, letGo,
                 expired, stream, inFlight>>

\* The woken goroutine runs.  sync.WaitGroup panics when the counter left zero
\* again before its waiter ran, and nothing recovers a panic there.
WaiterRuns ==
  /\ waiter = "woken"
  /\ waiter' = IF inFlight = 0 THEN "passed" ELSE "crashed"
  /\ UNCHANGED <<kind, caller, verdict, callback, done, janitor, drained, letGo,
                 expired, stream, inFlight, shutdown>>

\* Fault: the wait for the drain has no timer.
DrainReturnsUntimed ==
  /\ ~Crashed
  /\ shutdown = "draining"
  /\ waiter = "passed"
  /\ shutdown' = "drained"
  /\ UNCHANGED <<kind, caller, verdict, callback, done, janitor, drained, letGo,
                 expired, stream, inFlight, waiter>>

\* WaitForInFlight returns: true after the waiter passed, false on its timer.
DrainReturns ==
  /\ ~Crashed
  /\ shutdown = "draining"
  /\ \/ waiter = "passed" /\ shutdown' = "drained"
     \/ shutdown' = "gaveUp"
  /\ UNCHANGED <<kind, caller, verdict, callback, done, janitor, drained, letGo,
                 expired, stream, inFlight, waiter>>

-----------------------------------------------------------------------------
Next ==
  \/ \E c \in Calls :
       \/ Begin(c) \/ HostAnswers(c) \/ HostCloses(c) \/ Expire(c)
       \/ TakeAnswer(c) \/ GiveUp(c) \/ TakeLateAnswer(c) \/ HandToJanitor(c)
       \/ CloseLate(c) \/ CloseAnswered(c) \/ Salvaged(c)
       \/ JanitorTakes(c) \/ JanitorDone(c)
  \/ \E i \in Invocations : CallbackExits(i)
  \/ StartDrain \/ WaiterRuns \/ DrainReturns

Spec == Init /\ [][Next]_vars

\* Runnable goroutines run and timers fire.  Nothing is assumed of the host: a
\* callback may stay inside it for ever.
Fairness ==
  /\ \A c \in Calls :
       /\ WF_vars(Expire(c))
       /\ WF_vars(TakeAnswer(c)) /\ WF_vars(GiveUp(c))
       /\ WF_vars(TakeLateAnswer(c)) /\ WF_vars(HandToJanitor(c))
       /\ WF_vars(CloseLate(c)) /\ WF_vars(CloseAnswered(c)) /\ WF_vars(Salvaged(c))
       /\ WF_vars(JanitorTakes(c)) /\ WF_vars(JanitorDone(c))
  /\ \A i \in Invocations : WF_vars(CallbackExits(i))
  /\ WF_vars(WaiterRuns) /\ WF_vars(DrainReturns)

FairSpec == Spec /\ Fairness

\* The host also answers, sooner or later, a stream_close.
CloseFairSpec == FairSpec /\ \A c \in Calls : WF_vars(HostCloses(c))

-----------------------------------------------------------------------------
(* Properties.                                                             *)

\* The counter of the wait group is the number of invocations that have not let
\* go of their count: no path through the three goroutines of
\* callWithTimeoutResult releases a count twice or never.
CountExact == inFlight = Cardinality(Holders)

\* When WaitForInFlight has reported that all is drained, no goroutine is inside
\* the host any more, orphans and janitors included.  The exception is the inline
\* close of DoStream, whose count is released before the close starts.
SalvageClose(i) ==
  \E c \in Calls : i = CloseOf(c) /\ caller[CallOf(c)] = "salvage"
DrainedMeansQuiet ==
  shutdown = "drained" =>
    \A i \in Invocations : callback[i] = "inHost" => SalvageClose(i)

\* A stream whose id DoStream returned to executeStream is never closed behind its
\* back by the late-result cleanup, whichever of answer, deadline and grace won.
HandedOverNotClosed ==
  \A c \in Calls : verdict[c] = "answer" =>
    /\ stream[c] # "closed"
    /\ callback[CloseOf(c)] = "none"
    /\ janitor[c] = "none"

\* A caller with a deadline gets its answer or its timeout even if the host never
\* answers the call.
DeadlineHonoured ==
  \A c \in Calls :
    (kind[c] \in Deadline) ~> (verdict[c] # "none" \/ Crashed)

\* plugin.shutdown leaves WaitForInFlight even if a callback is parked for ever.
ShutdownReturns ==
  (shutdown = "draining") ~> (shutdown \in {"drained", "gaveUp"} \/ Crashed)

\* A stream registered for a do_stream that reported a timeout is closed in the
\* end, however late the host's answer was.
LateStreamClosed ==
  \A c \in Calls :
    (verdict[c] = "timeout" /\ stream[c] = "open") ~> (stream[c] = "closed" \/ Crashed)

\* "the count drops only after the orphan returns AND its late-drain cleanup (the
\* salvage stream_close) has fully run": a do_stream that found its stream late
\* keeps its count until the stream is closed.
CountCoversSalvage ==
  \A c \in Calls :
    caller[CallOf(c)] = "salvage" /\ stream[c] = "open" => ~letGo[CallOf(c)]
=============================================================================
