---------------------------- MODULE StreamContract ----------------------------
(***************************************************************************)
(* What executor.execute_stream promises the client of one stream, whatever *)
(* the upstream, the host and the clock do: events arrive in the order the *)
(* converter made them, the stream is closed once, and it is closed without *)
(* an error label only when nothing is missing.                            *)
(*                                                                         *)
(* One event may still arrive after a close that carries an error label:   *)
(* the one whose stream_emit timed out while it was inside the host.       *)
(***************************************************************************)
EXTENDS Naturals

VARIABLES
  produced,    \* events the converter has made so far
  sent,        \* events the host has accepted, always the first ones
  complete,    \* the upstream response has come to its own end
  end          \* how the host saw the stream closed

vars == <<produced, sent, complete, end>>

TypeOK ==
  /\ produced \in Nat /\ sent \in Nat
  /\ complete \in BOOLEAN
  /\ end \in {"none", "clean", "failed", "straggled"}

Init ==
  /\ produced = 0 /\ sent = 0
  /\ complete = FALSE
  /\ end = "none"

\* The converter makes events, possibly its last ones.
Produce ==
  /\ end = "none" /\ sent = produced
  /\ produced' \in Nat /\ produced' >= produced
  /\ complete' \in {complete, TRUE}
  /\ UNCHANGED <<sent, end>>

Deliver ==
  /\ end = "none" /\ sent < produced
  /\ sent' = sent + 1
  /\ UNCHANGED <<produced, complete, end>>

\* An unlabelled close: the response is whole and all of it was delivered.
Finish ==
  /\ end = "none" /\ complete /\ sent = produced
  /\ end' = "clean"
  /\ UNCHANGED <<produced, sent, complete>>

Fail ==
  /\ end = "none"
  /\ end' = "failed"
  /\ UNCHANGED <<produced, sent, complete>>

\* The timed-out emit lands after the close.
Straggle ==
  /\ end = "failed" /\ sent < produced
  /\ sent' = sent + 1
  /\ end' = "straggled"
  /\ UNCHANGED <<produced, complete>>

Next == Produce \/ Deliver \/ Finish \/ Fail \/ Straggle

Spec == Init /\ [][Next]_vars
=============================================================================
