-------------------------- MODULE ConversionContract --------------------------
(***************************************************************************)
(* What a converted stream promises, whatever the two protocols are: the   *)
(* client hears what the upstream says, text and calls in their order,     *)
(* never ahead of it; it is told that the response is over once, when      *)
(* nothing is missing and the upstream has said so, or has gone away.      *)
(***************************************************************************)
EXTENDS Naturals, SequencesExt

VARIABLES
  spoken,   \* the upstream's response so far: [text, calls, over]
  heard,    \* the client's
  gone      \* the upstream has closed its stream

vars == <<spoken, heard, gone>>

Silence == [text |-> <<>>, calls |-> <<>>, over |-> FALSE]

\* r is a part of s: a prefix of the text, the first calls, each with a
\* prefix of its arguments.
PartOf(r, s) ==
  /\ IsPrefix(r.text, s.text)
  /\ Len(r.calls) <= Len(s.calls)
  /\ \A k \in DOMAIN r.calls : r.calls[k].id = s.calls[k].id
                               /\ IsPrefix(r.calls[k].args, s.calls[k].args)

SameContent(r, s) == r.text = s.text /\ r.calls = s.calls

Init == spoken = Silence /\ heard = Silence /\ gone = FALSE

\* The upstream goes on, and the client follows at some distance.
Speak ==
  /\ ~gone /\ ~heard.over
  /\ PartOf(spoken, spoken') /\ (spoken.over => SameContent(spoken, spoken') /\ spoken'.over)
  /\ PartOf(heard, heard') /\ PartOf(heard', spoken') /\ ~heard'.over
  /\ UNCHANGED gone

\* The client hears the rest, and that it was the rest.
Finish ==
  /\ ~heard.over /\ heard'.over
  /\ PartOf(spoken, spoken')
  /\ SameContent(heard', spoken')
  /\ spoken'.over \/ gone'
  /\ gone' \in {gone, TRUE}

\* The upstream closes its stream; what the client lacks it never gets.
Leave ==
  /\ ~gone
  /\ gone' = TRUE
  /\ UNCHANGED <<spoken, heard>>

Next == Speak \/ Finish \/ Leave

Spec == Init /\ [][Next]_vars
=============================================================================
