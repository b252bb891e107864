--------------------------- MODULE HostBridgeProofs ---------------------------
(***************************************************************************)
(* Proofs, for any number of calls, of the safety properties of HostBridge *)
(* that its safety run checks for three.                                   *)
(***************************************************************************)
EXTENDS HostBridge, FiniteSetTheorems, TLAPS

\* Where the three goroutines of one invocation can be at the same time.
Shape ==
  /\ \A i \in Invocations :
       /\ callback[i] = "none" <=> caller[i] = "idle"
       /\ letGo[i] => drained[i] /\ callback[i] = "gone"
       /\ done[i] # "empty" => callback[i] \in {"answered", "gone"}
       /\ caller[i] \in {"idle", "select", "grace"} => ~drained[i]
  /\ \A c \in Calls :
       /\ caller[CallOf(c)] \in {"idle", "select", "grace"} =>
            verdict[c] # "answer" /\ janitor[c] = "none" /\ callback[CloseOf(c)] = "none"
       /\ janitor[c] \in {"waiting", "closing"} =>
            caller[CallOf(c)] = "returned" /\ ~drained[CallOf(c)]
       /\ caller[CloseOf(c)] \in {"idle", "select", "returned"}
       /\ caller[CloseOf(c)] = "returned" =>
            drained[CloseOf(c)] /\ callback[CloseOf(c)] # "inHost"

\* A stream handed to its caller has no cleanup of any kind, and only a late
\* stream_close closes a stream.
Ownership ==
  \A c \in Calls :
    /\ verdict[c] = "answer" =>
         /\ caller[CallOf(c)] = "returned"
         /\ janitor[c] = "none"
         /\ callback[CloseOf(c)] = "none"
    /\ stream[c] = "closed" => callback[CloseOf(c)] # "none"

\* The invocations that may still hold a count after the waiter has seen zero:
\* late closes made inline by DoStream, running or on their way out.
Residue(i) ==
  \E c \in Calls :
    /\ i = CloseOf(c)
    /\ caller[CallOf(c)] = "salvage" \/ (drained[i] /\ callback[i] # "inHost")

Drain ==
  /\ waiter # "none" => shutdown # "serving"
  /\ shutdown = "drained" => waiter \in {"passed"}
  /\ waiter \in {"woken", "passed"} => \A i \in Invocations : Held(i) => Residue(i)

IndInv == TypeOK /\ CountExact /\ Shape /\ Ownership /\ Drain

-----------------------------------------------------------------------------
(* Identifiers and finiteness.                                             *)

\* A call and the late close made for it are different invocations, and each
\* names its call.
LEMMA Identifiers ==
  /\ \A c \in Calls : CallOf(c) \in Invocations /\ CloseOf(c) \in Invocations
  /\ \A c, d \in Calls : CallOf(c) # CloseOf(d)
  /\ \A c, d \in Calls : CallOf(c) = CallOf(d) => c = d
  /\ \A c, d \in Calls : CloseOf(c) = CloseOf(d) => c = d
  /\ \A i \in Invocations : \E c \in Calls : i = CallOf(c) \/ i = CloseOf(c)
BY DEF Invocations, CallOf, CloseOf

\* There are finitely many invocations, so finitely many hold a count.
LEMMA HoldersFinite == IsFiniteSet(Holders)
<1>1. IsFiniteSet({"call", "close"})
  <2>1. IsFiniteSet({"call"})
    BY FS_Singleton
  <2>2. IsFiniteSet({"call"} \cup {"close"})
    BY <2>1, FS_AddElement
  <2>3. {"call"} \cup {"close"} = {"call", "close"}
    OBVIOUS
  <2>4. QED
    BY <2>2, <2>3
<1>2. IsFiniteSet(Invocations)
  BY <1>1, CallsAssumption, FS_Product DEF Invocations
<1>3. Holders \subseteq Invocations
  BY DEF Holders
<1>4. QED
  BY <1>2, <1>3, FS_Subset

-----------------------------------------------------------------------------
(* The count.                                                              *)

\* What maybeRelease does to the count: it releases the count of i exactly when
\* both conditions hold, and a waiter is woken only when nobody holds a count.
LEMMA ReleaseCounts ==
  ASSUME TypeOK, CountExact, Shape,
         NEW i \in Invocations, NEW e \in BOOLEAN, NEW d \in BOOLEAN,
         callback[i] # "none",
         \A j \in Invocations : callback'[j] = "none" <=> callback[j] = "none",
         MaybeRelease(i, e, d)
  PROVE  /\ inFlight' \in Nat
         /\ CountExact'
         /\ letGo' = IF e /\ d THEN [letGo EXCEPT ![i] = TRUE] ELSE letGo
         /\ \/ waiter' = waiter
            \/ waiter = "waiting" /\ waiter' = "woken" /\ Holders' = {}
<1>1. Holders' = {j \in Invocations : callback'[j] # "none" /\ ~letGo'[j]}
  BY DEF Holders, Held
<1>2. CASE e /\ d /\ ~letGo[i]
  <2>1. letGo' = [letGo EXCEPT ![i] = TRUE] /\ Done
    BY <1>2 DEF MaybeRelease
  <2>2. i \in Holders
    BY <1>2 DEF Holders, Held
  <2>3. Holders' = Holders \ {i}
    BY <1>1, <2>1 DEF Holders, Held, TypeOK
  <2>4. Cardinality(Holders') = Cardinality(Holders) - 1 /\ Cardinality(Holders) \in Nat
    BY <2>2, <2>3, HoldersFinite, FS_RemoveElement, FS_CardinalityType
  <2>5. IsFiniteSet(Holders')
    BY <2>3, HoldersFinite, FS_RemoveElement
  <2>6. Cardinality(Holders') \in Nat
    BY <2>5, FS_CardinalityType
  <2>7. inFlight' = Cardinality(Holders')
    BY <2>1, <2>4 DEF CountExact, Done
  <2>8. inFlight = 1 => Holders' = {}
    BY <2>1, <2>5, <2>7, FS_EmptySet DEF Done
  <2>9. QED
    BY <1>2, <2>1, <2>6, <2>7, <2>8 DEF Done, CountExact
<1>3. CASE ~(e /\ d /\ ~letGo[i])
  <2>1. UNCHANGED <<letGo, inFlight, waiter>>
    BY <1>3 DEF MaybeRelease
  <2>2. Holders' = Holders
    BY <1>1, <2>1 DEF Holders, Held
  <2>3. letGo' = IF e /\ d THEN [letGo EXCEPT ![i] = TRUE] ELSE letGo
    BY <1>3, <2>1 DEF TypeOK
  <2>4. QED
    BY <2>1, <2>2, <2>3 DEF CountExact, TypeOK
<1>4. QED
  BY <1>2, <1>3

\* Entering callWithTimeoutResult adds the invocation and its count.
LEMMA EnterCounts ==
  ASSUME TypeOK, CountExact, Shape, NEW i \in Invocations, Enter(i)
  PROVE  /\ inFlight' \in Nat
         /\ CountExact'
         /\ Holders' = Holders \cup {i}
<1>1. i \notin Holders /\ ~letGo[i]
  BY DEF Enter, Shape, Holders, Held, TypeOK
<1>2. Holders' = Holders \cup {i}
  BY <1>1 DEF Holders, Held, Enter, TypeOK
<1>3. Cardinality(Holders') = Cardinality(Holders) + 1
  BY <1>1, <1>2, HoldersFinite, FS_AddElement
<1>4. QED
  BY <1>2, <1>3 DEF CountExact, Enter, TypeOK

-----------------------------------------------------------------------------
(* Every step keeps the inductive invariant.                               *)

\* Settling keeps the count exact and changes nothing else of the hand-shake.
LEMMA SettleCounts ==
  ASSUME TypeOK, CountExact, Shape, NEW i \in Invocations, callback[i] # "none",
         UNCHANGED callback, Settle(i)
  PROVE  /\ inFlight' \in Nat
         /\ CountExact'
         /\ drained' = [drained EXCEPT ![i] = TRUE]
         /\ letGo' = IF callback[i] = "gone" THEN [letGo EXCEPT ![i] = TRUE] ELSE letGo
         /\ \/ waiter' = waiter
            \/ waiter = "waiting" /\ waiter' = "woken" /\ Holders' = {}
<1>1. MaybeRelease(i, callback[i] = "gone", TRUE)
  BY DEF Settle
<1>2. QED
  BY <1>1, ReleaseCounts DEF Settle

\* A step that leaves the hand-shake and the callbacks alone leaves the count exact.
LEMMA QuietCounts ==
  ASSUME TypeOK, CountExact, UNCHANGED <<letGo, inFlight>>,
         \A j \in Invocations : callback'[j] = "none" <=> callback[j] = "none"
  PROVE  inFlight' \in Nat /\ CountExact' /\ Holders' = Holders
<1>1. Holders' = Holders
  BY DEF Holders, Held
<1>2. QED
  BY <1>1 DEF CountExact, TypeOK

\* A new call starts with its own count, and only before the drain.
LEMMA BeginKeeps == ASSUME IndInv, NEW c \in Calls, Begin(c) PROVE IndInv'
<1>1. inFlight' \in Nat /\ CountExact' /\ Holders' = Holders \cup {CallOf(c)}
  BY EnterCounts, Identifiers DEF IndInv, Begin
<1>2. TypeOK'
  BY <1>1, Identifiers DEF IndInv, TypeOK, Begin, Enter
<1>3. Shape'
  BY <1>1, Identifiers DEF IndInv, TypeOK, Shape, Begin, Enter
<1>4. Ownership'
  BY <1>1, Identifiers DEF IndInv, TypeOK, Shape, Ownership, Begin, Enter
<1>5. Drain'
  BY <1>1, Identifiers DEF IndInv, TypeOK, Shape, Drain, Residue, Holders, Held, Begin, Enter
<1>6. QED
  BY <1>1, <1>2, <1>3, <1>4, <1>5 DEF IndInv

\* An answer of the host is posted.
LEMMA HostAnswersKeeps == ASSUME IndInv, NEW c \in Calls, HostAnswers(c) PROVE IndInv'
<1>1. inFlight' \in Nat /\ CountExact' /\ Holders' = Holders
  <2>1. UNCHANGED <<letGo, inFlight>>
    BY DEF HostAnswers
  <2>2. callback' = [callback EXCEPT ![CallOf(c)] = "answered"] /\ callback[CallOf(c)] = "inHost"
    BY DEF HostAnswers
  <2>3. \A j \in Invocations : callback'[j] = "none" <=> callback[j] = "none"
    BY <2>2, Identifiers DEF IndInv, TypeOK
  <2>4. QED
    BY <2>1, <2>3, QuietCounts DEF IndInv
<1>2. TypeOK'
  <2>1. callback' = [callback EXCEPT ![CallOf(c)] = "answered"]
    BY DEF HostAnswers
  <2>2. \/ done' = [done EXCEPT ![CallOf(c)] = "other"] /\ stream' = stream
        \/ /\ done' = [done EXCEPT ![CallOf(c)] = "stream"]
           /\ stream' = [stream EXCEPT ![c] = "open"]
    BY DEF HostAnswers
  <2>3. UNCHANGED <<kind, caller, verdict, janitor, drained, letGo, expired,
                    inFlight, waiter, shutdown>>
    BY DEF HostAnswers
  <2>4. done' \in [Invocations -> {"empty", "stream", "other"}]
    BY <2>2, Identifiers DEF IndInv, TypeOK
  <2>5. stream' \in [Calls -> {"none", "open", "closed"}]
    BY <2>2, Identifiers DEF IndInv, TypeOK
  <2>6. callback' \in [Invocations -> {"none", "inHost", "answered", "gone"}]
    BY <2>1, Identifiers DEF IndInv, TypeOK
  <2>7. QED
    BY <1>1, <2>3, <2>4, <2>5, <2>6 DEF IndInv, TypeOK
<1>3. Shape'
  BY <1>1, Identifiers DEF IndInv, TypeOK, Shape, HostAnswers
<1>4. Ownership'
  BY <1>1, Identifiers DEF IndInv, TypeOK, Shape, Ownership, HostAnswers
<1>5. Drain'
  BY <1>1, Identifiers DEF IndInv, TypeOK, Shape, Drain, Residue, Holders, Held, HostAnswers
<1>6. QED
  BY <1>1, <1>2, <1>3, <1>4, <1>5 DEF IndInv

\* The host closes a stream only inside a late close.
LEMMA HostClosesKeeps == ASSUME IndInv, NEW c \in Calls, HostCloses(c) PROVE IndInv'
<1>1. inFlight' \in Nat /\ CountExact' /\ Holders' = Holders
  BY QuietCounts, Identifiers DEF IndInv, TypeOK, HostCloses
<1>2. TypeOK'
  BY <1>1, Identifiers DEF IndInv, TypeOK, HostCloses
<1>3. Shape'
  BY <1>1, Identifiers DEF IndInv, TypeOK, Shape, HostCloses
<1>4. Ownership'
  BY <1>1, Identifiers DEF IndInv, TypeOK, Shape, Ownership, HostCloses
<1>5. Drain'
  BY <1>1, Identifiers DEF IndInv, TypeOK, Shape, Drain, Residue, Holders, Held, HostCloses
<1>6. QED
  BY <1>1, <1>2, <1>3, <1>4, <1>5 DEF IndInv

\* A deadline passes.
LEMMA ExpireKeeps == ASSUME IndInv, NEW c \in Calls, Expire(c) PROVE IndInv'
<1>1. inFlight' \in Nat /\ CountExact' /\ Holders' = Holders
  BY QuietCounts, Identifiers DEF IndInv, TypeOK, Expire
<1>2. TypeOK'
  BY <1>1, Identifiers DEF IndInv, TypeOK, Expire
<1>3. Shape'
  BY <1>1, Identifiers DEF IndInv, TypeOK, Shape, Expire
<1>4. Ownership'
  BY <1>1, Identifiers DEF IndInv, TypeOK, Shape, Ownership, Expire
<1>5. Drain'
  BY <1>1, Identifiers DEF IndInv, TypeOK, Shape, Drain, Residue, Holders, Held, Expire
<1>6. QED
  BY <1>1, <1>2, <1>3, <1>4, <1>5 DEF IndInv

\* The caller takes its answer.
LEMMA TakeAnswerKeeps == ASSUME IndInv, NEW c \in Calls, TakeAnswer(c) PROVE IndInv'
<1>1. /\ inFlight' \in Nat /\ CountExact'
      /\ drained' = [drained EXCEPT ![CallOf(c)] = TRUE]
      /\ letGo' = IF callback[CallOf(c)] = "gone" THEN [letGo EXCEPT ![CallOf(c)] = TRUE] ELSE letGo
      /\ \/ waiter' = waiter
         \/ waiter = "waiting" /\ waiter' = "woken" /\ Holders' = {}
  BY SettleCounts, Identifiers DEF IndInv, Shape, TakeAnswer
<1>2. TypeOK'
  BY <1>1, Identifiers DEF IndInv, TypeOK, TakeAnswer
<1>3. Shape'
  BY <1>1, Identifiers DEF IndInv, TypeOK, Shape, TakeAnswer
<1>4. Ownership'
  BY <1>1, Identifiers DEF IndInv, TypeOK, Shape, Ownership, TakeAnswer
<1>5. Drain'
  BY <1>1, Identifiers DEF IndInv, TypeOK, Shape, Drain, Residue, Holders, Held, TakeAnswer
<1>6. QED
  BY <1>1, <1>2, <1>3, <1>4, <1>5 DEF IndInv

\* A late answer is taken in the grace window.
LEMMA TakeLateAnswerKeeps == ASSUME IndInv, NEW c \in Calls, TakeLateAnswer(c) PROVE IndInv'
<1>1. /\ inFlight' \in Nat /\ CountExact'
      /\ drained' = [drained EXCEPT ![CallOf(c)] = TRUE]
      /\ letGo' = IF callback[CallOf(c)] = "gone" THEN [letGo EXCEPT ![CallOf(c)] = TRUE] ELSE letGo
      /\ \/ waiter' = waiter
         \/ waiter = "waiting" /\ waiter' = "woken" /\ Holders' = {}
  BY SettleCounts, Identifiers DEF IndInv, Shape, TakeLateAnswer
<1>2. TypeOK'
  BY <1>1, Identifiers DEF IndInv, TypeOK, TakeLateAnswer
<1>3. Shape'
  BY <1>1, Identifiers DEF IndInv, TypeOK, Shape, TakeLateAnswer
<1>4. Ownership'
  BY <1>1, Identifiers DEF IndInv, TypeOK, Shape, Ownership, TakeLateAnswer
<1>5. Drain'
  BY <1>1, Identifiers DEF IndInv, TypeOK, Shape, Drain, Residue, Holders, Held, TakeLateAnswer
<1>6. QED
  BY <1>1, <1>2, <1>3, <1>4, <1>5 DEF IndInv

\* The janitor takes over an unsettled invocation.
LEMMA HandToJanitorKeeps == ASSUME IndInv, NEW c \in Calls, HandToJanitor(c) PROVE IndInv'
<1>1. inFlight' \in Nat /\ CountExact' /\ Holders' = Holders
  BY QuietCounts, Identifiers DEF IndInv, TypeOK, HandToJanitor
<1>2. TypeOK'
  BY <1>1, Identifiers DEF IndInv, TypeOK, HandToJanitor
<1>3. Shape'
  BY <1>1, Identifiers DEF IndInv, TypeOK, Shape, HandToJanitor
<1>4. Ownership'
  BY <1>1, Identifiers DEF IndInv, TypeOK, Shape, Ownership, HandToJanitor
<1>5. Drain'
  BY <1>1, Identifiers DEF IndInv, TypeOK, Shape, Drain, Residue, Holders, Held, HandToJanitor
<1>6. QED
  BY <1>1, <1>2, <1>3, <1>4, <1>5 DEF IndInv

\* A late close starts in the salvaging caller or under the count of its janitor.
LEMMA CloseLateKeeps == ASSUME IndInv, NEW c \in Calls, CloseLate(c) PROVE IndInv'
<1>1. inFlight' \in Nat /\ CountExact' /\ Holders' = Holders \cup {CloseOf(c)}
  BY EnterCounts, Identifiers DEF IndInv, CloseLate
<1>2. TypeOK'
  BY <1>1, Identifiers DEF IndInv, TypeOK, CloseLate, Enter
<1>3. Shape'
  BY <1>1, Identifiers DEF IndInv, TypeOK, Shape, CloseLate, Enter
<1>4. Ownership'
  BY <1>1, Identifiers DEF IndInv, TypeOK, Shape, Ownership, CloseLate, Enter
<1>5. Drain'
  BY <1>1, Identifiers DEF IndInv, TypeOK, Shape, Drain, Residue, Holders, Held, CloseLate, Enter
<1>6. QED
  BY <1>1, <1>2, <1>3, <1>4, <1>5 DEF IndInv

\* A late close is answered.
LEMMA CloseAnsweredKeeps == ASSUME IndInv, NEW c \in Calls, CloseAnswered(c) PROVE IndInv'
<1>1. /\ inFlight' \in Nat /\ CountExact'
      /\ drained' = [drained EXCEPT ![CloseOf(c)] = TRUE]
      /\ letGo' = IF callback[CloseOf(c)] = "gone" THEN [letGo EXCEPT ![CloseOf(c)] = TRUE] ELSE letGo
      /\ \/ waiter' = waiter
         \/ waiter = "waiting" /\ waiter' = "woken" /\ Holders' = {}
  BY SettleCounts, Identifiers DEF IndInv, Shape, CloseAnswered
<1>2. TypeOK'
  BY <1>1, Identifiers DEF IndInv, TypeOK, CloseAnswered
<1>3. Shape'
  BY <1>1, Identifiers DEF IndInv, TypeOK, Shape, CloseAnswered
<1>4. Ownership'
  BY <1>1, Identifiers DEF IndInv, TypeOK, Shape, Ownership, CloseAnswered
<1>5. Drain'
  BY <1>1, Identifiers DEF IndInv, TypeOK, Shape, Drain, Residue, Holders, Held, CloseAnswered
<1>6. QED
  BY <1>1, <1>2, <1>3, <1>4, <1>5 DEF IndInv

\* DoStream returns after its inline close.
LEMMA SalvagedKeeps == ASSUME IndInv, NEW c \in Calls, Salvaged(c) PROVE IndInv'
<1>1. inFlight' \in Nat /\ CountExact' /\ Holders' = Holders
  BY QuietCounts, Identifiers DEF IndInv, TypeOK, Salvaged
<1>2. TypeOK'
  BY <1>1, Identifiers DEF IndInv, TypeOK, Salvaged
<1>3. Shape'
  BY <1>1, Identifiers DEF IndInv, TypeOK, Shape, Salvaged
<1>4. Ownership'
  BY <1>1, Identifiers DEF IndInv, TypeOK, Shape, Ownership, Salvaged
<1>5. Drain'
  BY <1>1, Identifiers DEF IndInv, TypeOK, Shape, Drain, Residue, Holders, Held, Salvaged
<1>6. QED
  BY <1>1, <1>2, <1>3, <1>4, <1>5 DEF IndInv

\* The janitor settles after its close.
LEMMA JanitorDoneKeeps == ASSUME IndInv, NEW c \in Calls, JanitorDone(c) PROVE IndInv'
<1>1. /\ inFlight' \in Nat /\ CountExact'
      /\ drained' = [drained EXCEPT ![CallOf(c)] = TRUE]
      /\ letGo' = IF callback[CallOf(c)] = "gone" THEN [letGo EXCEPT ![CallOf(c)] = TRUE] ELSE letGo
      /\ \/ waiter' = waiter
         \/ waiter = "waiting" /\ waiter' = "woken" /\ Holders' = {}
  BY SettleCounts, Identifiers DEF IndInv, Shape, JanitorDone
<1>2. TypeOK'
  BY <1>1, Identifiers DEF IndInv, TypeOK, JanitorDone
<1>3. Shape'
  BY <1>1, Identifiers DEF IndInv, TypeOK, Shape, JanitorDone
<1>4. Ownership'
  BY <1>1, Identifiers DEF IndInv, TypeOK, Shape, Ownership, JanitorDone
<1>5. Drain'
  BY <1>1, Identifiers DEF IndInv, TypeOK, Shape, Drain, Residue, Holders, Held, JanitorDone
<1>6. QED
  BY <1>1, <1>2, <1>3, <1>4, <1>5 DEF IndInv

\* The deadline is selected: do_stream enters its grace window with nothing
\* settled, any other call settles.
LEMMA GiveUpKeeps == ASSUME IndInv, NEW c \in Calls, GiveUp(c) PROVE IndInv'
<1>1. CASE kind[c] = "open"
  <2>1. /\ caller' = [caller EXCEPT ![CallOf(c)] = "grace"]
        /\ UNCHANGED <<verdict, drained, letGo, inFlight, waiter>>
    BY <1>1 DEF GiveUp
  <2>2. inFlight' \in Nat /\ CountExact' /\ Holders' = Holders
    BY <2>1, QuietCounts DEF IndInv, GiveUp
  <2>3. TypeOK'
    BY <2>1, <2>2, Identifiers DEF IndInv, TypeOK, GiveUp
  <2>4. Shape' /\ Ownership'
    BY <2>1, Identifiers DEF IndInv, TypeOK, Shape, Ownership, GiveUp
  <2>5. Drain'
    BY <2>1, <2>2, Identifiers DEF IndInv, TypeOK, Shape, Drain, Residue, Holders, Held, GiveUp
  <2>6. QED
    BY <2>2, <2>3, <2>4, <2>5 DEF IndInv
<1>2. CASE kind[c] # "open"
  <2>1. /\ caller' = [caller EXCEPT ![CallOf(c)] = "returned"]
        /\ verdict' = [verdict EXCEPT ![c] = "timeout"]
        /\ Settle(CallOf(c))
        /\ UNCHANGED <<kind, callback, done, janitor, expired, stream, shutdown>>
    BY <1>2 DEF GiveUp
  <2>2. /\ inFlight' \in Nat /\ CountExact'
        /\ drained' = [drained EXCEPT ![CallOf(c)] = TRUE]
        /\ letGo' = IF callback[CallOf(c)] = "gone" THEN [letGo EXCEPT ![CallOf(c)] = TRUE] ELSE letGo
        /\ \/ waiter' = waiter
           \/ waiter = "waiting" /\ waiter' = "woken" /\ Holders' = {}
    BY <2>1, SettleCounts, Identifiers DEF IndInv, Shape, GiveUp
  <2>3. TypeOK'
    BY <2>1, <2>2, Identifiers DEF IndInv, TypeOK
  <2>4. Shape' /\ Ownership'
    BY <2>1, <2>2, Identifiers DEF IndInv, TypeOK, Shape, Ownership, GiveUp
  <2>5. Drain'
    BY <2>1, <2>2, Identifiers DEF IndInv, TypeOK, Shape, Drain, Residue, Holders, Held, GiveUp
  <2>6. QED
    BY <2>2, <2>3, <2>4, <2>5 DEF IndInv
<1>3. QED
  BY <1>1, <1>2

\* The janitor gets the orphaned answer: it settles unless it has to close first.
LEMMA JanitorTakesKeeps == ASSUME IndInv, NEW c \in Calls, JanitorTakes(c) PROVE IndInv'
<1>1. CASE done[CallOf(c)] = "stream"
  <2>1. /\ janitor' = [janitor EXCEPT ![c] = "closing"]
        /\ UNCHANGED <<drained, letGo, inFlight, waiter>>
    BY <1>1 DEF JanitorTakes
  <2>2. inFlight' \in Nat /\ CountExact' /\ Holders' = Holders
    BY <2>1, QuietCounts DEF IndInv, JanitorTakes
  <2>3. TypeOK'
    BY <2>1, <2>2, Identifiers DEF IndInv, TypeOK, JanitorTakes
  <2>4. Shape' /\ Ownership'
    BY <2>1, Identifiers DEF IndInv, TypeOK, Shape, Ownership, JanitorTakes
  <2>5. Drain'
    BY <2>1, <2>2, Identifiers DEF IndInv, TypeOK, Shape, Drain, Residue, Holders, Held, JanitorTakes
  <2>6. QED
    BY <2>2, <2>3, <2>4, <2>5 DEF IndInv
<1>2. CASE done[CallOf(c)] # "stream"
  <2>1. janitor' = [janitor EXCEPT ![c] = "gone"] /\ Settle(CallOf(c))
    BY <1>2 DEF JanitorTakes
  <2>2. /\ inFlight' \in Nat /\ CountExact'
        /\ drained' = [drained EXCEPT ![CallOf(c)] = TRUE]
        /\ letGo' = IF callback[CallOf(c)] = "gone" THEN [letGo EXCEPT ![CallOf(c)] = TRUE] ELSE letGo
        /\ \/ waiter' = waiter
           \/ waiter = "waiting" /\ waiter' = "woken" /\ Holders' = {}
    BY <2>1, SettleCounts, Identifiers DEF IndInv, Shape, JanitorTakes
  <2>3. TypeOK'
    BY <2>1, <2>2, Identifiers DEF IndInv, TypeOK, JanitorTakes
  <2>4. Shape' /\ Ownership'
    BY <2>1, <2>2, Identifiers DEF IndInv, TypeOK, Shape, Ownership, JanitorTakes
  <2>5. Drain'
    BY <2>1, <2>2, Identifiers DEF IndInv, TypeOK, Shape, Drain, Residue, Holders, Held, JanitorTakes
  <2>6. QED
    BY <2>2, <2>3, <2>4, <2>5 DEF IndInv
<1>3. QED
  BY <1>1, <1>2

\* The callback goroutine exits, and releases the count if the post-work is settled.
LEMMA CallbackExitsKeeps == ASSUME IndInv, NEW i \in Invocations, CallbackExits(i) PROVE IndInv'
<1>1. callback' = [callback EXCEPT ![i] = "gone"] /\ callback[i] = "answered"
  BY DEF CallbackExits
<1>2. \A j \in Invocations : callback'[j] = "none" <=> callback[j] = "none"
  BY <1>1 DEF IndInv, TypeOK
<1>3. /\ inFlight' \in Nat /\ CountExact'
      /\ letGo' = IF drained[i] THEN [letGo EXCEPT ![i] = TRUE] ELSE letGo
      /\ \/ waiter' = waiter
         \/ waiter = "waiting" /\ waiter' = "woken" /\ Holders' = {}
  <2>1. drained[i] \in BOOLEAN /\ MaybeRelease(i, TRUE, drained[i])
    BY DEF IndInv, TypeOK, CallbackExits
  <2>2. QED
    BY <1>1, <1>2, <2>1, ReleaseCounts DEF IndInv
<1>4. TypeOK'
  BY <1>1, <1>3 DEF IndInv, TypeOK, CallbackExits
<1>5. Shape'
  BY <1>1, <1>3, Identifiers DEF IndInv, TypeOK, Shape, CallbackExits
<1>6. Ownership'
  BY <1>1, <1>3, Identifiers DEF IndInv, TypeOK, Ownership, CallbackExits
<1>7. Drain'
  BY <1>1, <1>3, Identifiers DEF IndInv, TypeOK, Shape, Drain, Residue, Holders, Held, CallbackExits
<1>8. QED
  BY <1>3, <1>4, <1>5, <1>6, <1>7 DEF IndInv

\* The drain starts: a wait that finds zero finds that nobody holds a count.
LEMMA StartDrainKeeps == ASSUME IndInv, StartDrain PROVE IndInv'
<1>1. inFlight' \in Nat /\ CountExact' /\ Holders' = Holders
  BY QuietCounts DEF IndInv, StartDrain
<1>2. inFlight = 0 => Holders = {}
  BY HoldersFinite, FS_EmptySet DEF IndInv, CountExact
<1>3. TypeOK' /\ Shape' /\ Ownership'
  BY <1>1 DEF IndInv, TypeOK, Shape, Ownership, StartDrain
<1>4. Drain'
  BY <1>1, <1>2 DEF IndInv, TypeOK, Drain, Residue, Holders, Held, StartDrain
<1>5. QED
  BY <1>1, <1>3, <1>4 DEF IndInv

\* The woken waiter runs.
LEMMA WaiterRunsKeeps == ASSUME IndInv, WaiterRuns PROVE IndInv'
<1>1. inFlight' \in Nat /\ CountExact' /\ Holders' = Holders
  BY QuietCounts DEF IndInv, WaiterRuns
<1>2. TypeOK' /\ Shape' /\ Ownership'
  BY <1>1 DEF IndInv, TypeOK, Shape, Ownership, WaiterRuns
<1>3. Drain'
  BY <1>1 DEF IndInv, TypeOK, Drain, Residue, Holders, Held, WaiterRuns
<1>4. QED
  BY <1>1, <1>2, <1>3 DEF IndInv

\* WaitForInFlight returns.
LEMMA DrainReturnsKeeps == ASSUME IndInv, DrainReturns PROVE IndInv'
<1>1. inFlight' \in Nat /\ CountExact' /\ Holders' = Holders
  BY QuietCounts DEF IndInv, DrainReturns
<1>2. TypeOK' /\ Shape' /\ Ownership'
  BY <1>1 DEF IndInv, TypeOK, Shape, Ownership, DrainReturns
<1>3. Drain'
  BY <1>1 DEF IndInv, TypeOK, Drain, Residue, Holders, Held, DrainReturns
<1>4. QED
  BY <1>1, <1>2, <1>3 DEF IndInv

-----------------------------------------------------------------------------
(* The theorems.                                                           *)

\* The bridge starts idle.
LEMMA InitIndInv == Init => IndInv
<1>1. SUFFICES ASSUME Init PROVE IndInv
  OBVIOUS
<1>2. Holders = {}
  BY <1>1 DEF Init, Holders, Held
<1>3. CountExact
  BY <1>1, <1>2, FS_EmptySet DEF CountExact, Init
<1>4. TypeOK
  BY <1>1 DEF Init, TypeOK
<1>5. Shape /\ Ownership
  BY <1>1, Identifiers DEF Init, Shape, Ownership
<1>6. Drain
  BY <1>1 DEF Init, Drain
<1>7. QED
  BY <1>3, <1>4, <1>5, <1>6 DEF IndInv

\* Every step keeps the invariant.
LEMMA NextIndInv == IndInv /\ [Next]_vars => IndInv'
<1>1. SUFFICES ASSUME IndInv, [Next]_vars PROVE IndInv'
  OBVIOUS
<1>2. ASSUME NEW c \in Calls,
             \/ Begin(c) \/ HostAnswers(c) \/ HostCloses(c) \/ Expire(c)
             \/ TakeAnswer(c) \/ GiveUp(c) \/ TakeLateAnswer(c) \/ HandToJanitor(c)
             \/ CloseLate(c) \/ CloseAnswered(c) \/ Salvaged(c)
             \/ JanitorTakes(c) \/ JanitorDone(c)
      PROVE  IndInv'
  BY <1>1, <1>2, BeginKeeps, HostAnswersKeeps, HostClosesKeeps, ExpireKeeps,
     TakeAnswerKeeps, GiveUpKeeps, TakeLateAnswerKeeps, HandToJanitorKeeps,
     CloseLateKeeps, CloseAnsweredKeeps, SalvagedKeeps, JanitorTakesKeeps,
     JanitorDoneKeeps
<1>3. ASSUME NEW i \in Invocations, CallbackExits(i) PROVE IndInv'
  BY <1>1, <1>3, CallbackExitsKeeps
<1>4. CASE StartDrain \/ WaiterRuns \/ DrainReturns
  BY <1>1, <1>4, StartDrainKeeps, WaiterRunsKeeps, DrainReturnsKeeps
<1>5. CASE UNCHANGED vars
  <2>1. CountExact'
    BY <1>1, <1>5, QuietCounts DEF vars, IndInv
  <2>2. TypeOK' /\ Shape' /\ Ownership' /\ Drain'
    BY <1>1, <1>5 DEF vars, IndInv, TypeOK, Shape, Ownership, Drain, Residue, Held
  <2>3. QED
    BY <2>1, <2>2 DEF IndInv
<1>6. QED
  BY <1>1, <1>2, <1>3, <1>4, <1>5 DEF Next

\* The invariant holds in every reachable state.
LEMMA Invariance == Spec => []IndInv
BY InitIndInv, NextIndInv, PTL DEF Spec

\* Every variable keeps its type; in particular the wait-group counter never goes
\* below zero, which would panic.
THEOREM TypeCorrect == Spec => []TypeOK
<1>1. IndInv => TypeOK
  BY DEF IndInv
<1>2. QED
  BY <1>1, Invariance, PTL

\* For any number of concurrent callbacks the wait-group counter is the number of
\* invocations that have not let go of their count.
THEOREM CountIsExact == Spec => []CountExact
<1>1. IndInv => CountExact
  BY DEF IndInv
<1>2. QED
  BY <1>1, Invariance, PTL

\* For any number of concurrent callbacks, when the drain has reported success the
\* only goroutines inside the host are inline closes of DoStream.
THEOREM DrainIsQuiet == Spec => []DrainedMeansQuiet
<1>1. IndInv => DrainedMeansQuiet
  <2>1. SUFFICES ASSUME IndInv, shutdown = "drained",
                        NEW i \in Invocations, callback[i] = "inHost"
                 PROVE  SalvageClose(i)
    BY DEF DrainedMeansQuiet
  <2>2. Held(i)
    BY <2>1 DEF IndInv, Shape, Held
  <2>3. Residue(i)
    BY <2>1, <2>2 DEF IndInv, Drain
  <2>4. QED
    BY <2>1, <2>3 DEF Residue, SalvageClose
<1>2. QED
  BY <1>1, Invariance, PTL

\* For any number of concurrent callbacks, a stream handed to its caller is not
\* closed by the cleanup of late results.
THEOREM HandOverIsSafe == Spec => []HandedOverNotClosed
<1>1. IndInv => HandedOverNotClosed
  BY DEF IndInv, Ownership, HandedOverNotClosed
<1>2. QED
  BY <1>1, Invariance, PTL
=============================================================================
