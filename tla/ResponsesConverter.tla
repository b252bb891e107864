-------------------------- MODULE ResponsesConverter --------------------------
(***************************************************************************)
(* internal/adapter/responses/stream.go and convert.go: an upstream        *)
(* Responses response to the client's protocol, as a stream and at once.   *)
(* Feed takes one whole SSE frame; shared.SSEFramer is left out.  The      *)
(* converter has no Flush.                                                 *)
(***************************************************************************)
EXTENDS Conversion, SequencesExt

\* calls[key] is the index of the call that a call_id or an item id stands
\* for; delivered holds the calls some of whose arguments went out.
NewStreamConverter(source, names) ==
  [source |-> source, names |-> names, customItems |-> {}, toolCallsSeen |-> FALSE,
   textIndex |-> -1, textOpen |-> FALSE, nextIndex |-> 0, openBlocks |-> <<>>,
   calls |-> <<>>, delivered |-> {}]

Out(sc, events, done) == [sc |-> sc, events |-> events, done |-> done, failed |-> FALSE]
Ignored(sc) == Out(sc, <<>>, FALSE)
Failure(sc) == [Ignored(sc) EXCEPT !.failed = TRUE]

-----------------------------------------------------------------------------
(* toolCallTracker.                                                        *)

\* Fault: only the identifier at hand is bound.
StateUnaliased(sc, key, alias) ==
  IF key \in DOMAIN sc.calls
  THEN [sc |-> sc, first |-> FALSE, index |-> sc.calls[key]]
  ELSE [sc |-> [sc EXCEPT !.calls = Put(@, key, sc.nextIndex), !.nextIndex = @ + 1],
        first |-> TRUE, index |-> sc.nextIndex]

\* Known or new, the call is bound to both identifiers.
Bound(sc, ids, found) ==
  LET index == IF found = {} THEN sc.nextIndex ELSE sc.calls[CHOOSE k \in found : TRUE]
  IN  [sc |-> [sc EXCEPT !.calls = [k \in DOMAIN @ \cup ids |-> IF k \in DOMAIN @ \ ids
                                                               THEN @[k] ELSE index],
                         !.nextIndex = IF found = {} THEN @ + 1 ELSE @],
       first |-> found = {}, index |-> index]

\* state: the call that key stands for, or alias, or a new one; whichever
\* identifiers are present are bound to it.
State(sc, key, alias) ==
  LET ids   == {key, alias} \ {NoId}
      found == ids \cap DOMAIN sc.calls
  IN  Bound(sc, ids, IF key \in found THEN {key} ELSE found)

Delivering(st, deliver) ==
  [sc |-> IF deliver THEN [st.sc EXCEPT !.delivered = @ \cup {st.index}] ELSE st.sc,
   first |-> st.first, index |-> st.index, deliver |-> deliver]

\* Fault: a done item replays arguments that were streamed.
ObserveReplays(sc, callId, itemId, argsComplete) ==
  Delivering(State(sc, callId, itemId), argsComplete)

\* Observe: an item event; complete arguments are due if none went out.
Observe(sc, callId, itemId, argsComplete) ==
  LET due(st) == Delivering(st, argsComplete /\ st.index \notin sc.delivered)
  IN  due(State(sc, callId, itemId))

\* StreamArgs: a fragment counts as delivered.
StreamArgs(sc, itemId) ==
  Delivering(State(sc, itemId, NoId), TRUE)

-----------------------------------------------------------------------------
(* Messages blocks.                                                        *)

CloseOpenBlocks(sc) ==
  [sc |-> IF sc.openBlocks = <<>> THEN sc
          ELSE [sc EXCEPT !.openBlocks = <<>>, !.textOpen = FALSE],
   events |-> [k \in DOMAIN sc.openBlocks |-> ContentBlockStop(sc.openBlocks[k])]]

\* Fault: a block opens without closing the others.
OpenBlockOnly(sc, index, kind, id, name) ==
  [sc |-> [sc EXCEPT !.openBlocks = Append(@, index)],
   events |-> <<ContentBlockStart(index, kind, id, name)>>]

\* A new block, after closing the others.
OpenBlock(sc, index, kind, id, name) ==
  LET closed == CloseOpenBlocks(sc)
  IN  [sc |-> [closed.sc EXCEPT !.openBlocks = Append(@, index)],
       events |-> Append(closed.events, ContentBlockStart(index, kind, id, name))]

JSONDelta(index, piece) == ContentBlockDelta(index, "input_json_delta", piece)

\* A call's block, opened when the call is new, and what is known of its
\* arguments.
BlockAndDelta(seen, id, name, delta) ==
  LET opening == IF seen.first THEN OpenBlock(seen.sc, seen.index, "tool_use", id, name)
                 ELSE [sc |-> seen.sc, events |-> <<>>]
  IN  Out(opening.sc, opening.events \o delta, FALSE)

-----------------------------------------------------------------------------
(* The handlers.                                                           *)

OnTextDelta(sc, piece) ==
  LET index  == IF sc.textOpen THEN sc.textIndex ELSE sc.nextIndex
      delta  == <<ContentBlockDelta(index, "text_delta", piece)>>
      opened == OpenBlock([sc EXCEPT !.nextIndex = @ + 1], index, "text", NoId, <<>>)
  IN  IF sc.source = "openai" THEN Out(sc, <<TextChunk(piece)>>, FALSE)
      ELSE IF sc.textOpen THEN Out(sc, delta, FALSE)
      ELSE Out([opened.sc EXCEPT !.textIndex = index, !.textOpen = TRUE],
               opened.events \o delta, FALSE)

\* outputItem, for an added and for a done item alike.
ItemToChat(seen, item) ==
  Out(seen.sc,
      IF seen.first
      THEN <<CallChunk(CCToolCallOpeningEntry(seen.index, item.callId, item.name,
                         IF seen.deliver THEN item.content ELSE <<>>))>>
      ELSE IF seen.deliver THEN <<CallChunk(Continuation(seen.index, item.content))>>
      ELSE <<>>, FALSE)

ItemToClaude(seen, item) ==
  BlockAndDelta(seen, item.callId, item.name,
                IF seen.deliver THEN <<JSONDelta(seen.index, item.content)>> ELSE <<>>)

OutputItem(sc, item) ==
  LET convert(seen) == IF sc.source = "openai" THEN ItemToChat(seen, item)
                       ELSE ItemToClaude(seen, item)
  IN  IF item.type # "function_call" THEN Ignored(sc)
      ELSE convert(Observe([sc EXCEPT !.toolCallsSeen = TRUE], item.callId, item.id,
                           item.content # <<>>))

\* argsFragment opens the call when nothing announced it.
ArgsFragment(sc, itemId, piece) ==
  LET toChat(seen) ==
        Out([seen.sc EXCEPT !.toolCallsSeen = TRUE],
            <<CallChunk(IF seen.first
                        THEN CCToolCallOpeningEntry(seen.index, itemId, <<>>, piece)
                        ELSE Continuation(seen.index, piece))>>, FALSE)
      toClaude(seen) == BlockAndDelta(seen, itemId, <<>>, <<JSONDelta(seen.index, piece)>>)
  IN  IF sc.source = "openai" THEN toChat(StreamArgs(sc, itemId))
      ELSE toClaude(StreamArgs(sc, itemId))

\* Fault: an incomplete response stops like a complete one.
TerminalForgetsIncomplete(sc, ev) ==
  LET usage == CHOOSE u \in ev.usage : TRUE
  IN  IF sc.source = "openai"
      THEN Out(sc, <<Finish(TerminalReason(sc.toolCallsSeen, "tool_calls", "stop"),
                            {CCUsageFrom(usage.input, usage.output, usage.cached)})>>, TRUE)
      ELSE Out([sc EXCEPT !.openBlocks = <<>>],
               CloseOpenBlocks(sc).events
               \o <<MessageDelta(TerminalReason(sc.toolCallsSeen, "tool_use", "end_turn"),
                      {ClaudeUsage(ClampSubtract(usage.input, usage.cached, usage.written),
                                   usage.output, usage.cached, usage.written)}),
                    MessageStop>>, TRUE)

\* completed and incomplete: calls outrank the status.
Terminal(sc, ev) ==
  LET usage  == CHOOSE u \in ev.usage : TRUE
      finish == TerminalReason(sc.toolCallsSeen, "tool_calls",
                               CCFinishFromResponseStatus(ev.status))
      stop   == TerminalReason(sc.toolCallsSeen, "tool_use",
                               ClaudeStopFromResponseStatus(ev.status))
  IN  IF sc.source = "openai"
      THEN Out(sc, <<Finish(finish, {CCUsageFrom(usage.input, usage.output, usage.cached)})>>,
               TRUE)
      ELSE Out([sc EXCEPT !.openBlocks = <<>>],
               CloseOpenBlocks(sc).events
               \o <<MessageDelta(stop,
                      {ClaudeUsage(ClampSubtract(usage.input, usage.cached, usage.written),
                                   usage.output, usage.cached, usage.written)}),
                    MessageStop>>, TRUE)

ConvertEvent(sc, ev) ==
  CASE ev.type = "response.created" ->
         Out(sc, <<IF sc.source = "openai" THEN RoleChunk ELSE MessageStart({NoUsage})>>, FALSE)
    [] ev.type = "response.output_text.delta" -> OnTextDelta(sc, ev.content)
    [] ev.type \in {"response.output_item.added", "response.output_item.done"} ->
         OutputItem(sc, ev.item)
    [] ev.type = "response.function_call_arguments.delta" ->
         ArgsFragment(sc, ev.id, ev.content)
    [] ev.type = "response.completed" -> Terminal(sc, ev)
    [] ev.type = "error" -> Failure(sc)
    [] OTHER -> Ignored(sc)

-----------------------------------------------------------------------------
(* Passthrough, with flattened and custom calls restored.                  *)

\* restoreOutput.
RestoreOutput(names, output) == [k \in DOMAIN output |-> RestoreCall(names, output[k])]

RestoreItem(sc, ev) ==
  LET item   == RestoreCall(sc.names, ev.item)
      custom == item.type = "custom_tool_call" /\ ev.item.type = "function_call"
  IN  Out(IF custom
          THEN [sc EXCEPT !.customItems = @ \cup ({item.id, item.callId} \ {NoId})] ELSE sc,
          <<[ev EXCEPT !.item = item]>>, FALSE)

\* Fault: fragments of a custom call pass.
RestoreArgsLeaks(sc, ev) == Out(sc, <<ev>>, FALSE)

\* The wrapped fragments of a custom call are withheld.
RestoreArgs(sc, ev) ==
  IF ev.id \notin sc.customItems THEN Out(sc, <<ev>>, FALSE)
  ELSE IF ev.type = "response.function_call_arguments.delta" THEN Ignored(sc)
  ELSE Out(sc, <<InputDone(ev.id, ev.index, UnwrapCustomToolInput(ev.content))>>, FALSE)

PassthroughEvent(sc, ev) ==
  CASE ev.type \in {"response.output_item.added", "response.output_item.done"} ->
         RestoreItem(sc, ev)
    [] ev.type \in {"response.function_call_arguments.delta",
                    "response.function_call_arguments.done"} -> RestoreArgs(sc, ev)
    [] ev.type = "response.completed" ->
         Out(sc, <<[ev EXCEPT !.output = RestoreOutput(sc.names, @)]>>, TRUE)
    [] ev.type = "error" -> Failure(sc)
    [] OTHER -> Out(sc, <<ev>>, FALSE)

Feed(sc, ev) ==
  IF sc.source = "openai-response" THEN PassthroughEvent(sc, ev) ELSE ConvertEvent(sc, ev)

-----------------------------------------------------------------------------
(* The whole response at once.  An upstream response is its output items,  *)
(* its status and its usage.                                               *)

TextOf(output) ==
  LET texts == SelectSeq(output, LAMBDA i : i.type = "message")
  IN  FlattenSeq([k \in DOMAIN texts |-> texts[k].content])
CallsOf(output) ==
  LET calls == SelectSeq(output, LAMBDA i : i.type = "function_call")
  IN  [k \in DOMAIN calls |-> [id |-> calls[k].callId, name |-> calls[k].name,
                               args |-> DefaultArgs(calls[k].content)]]

ResponsesToChat(response) ==
  LET calls == CallsOf(response.output)
  IN  [text |-> TextOf(response.output), calls |-> calls,
       reason |-> TerminalReason(calls # <<>>, "tool_calls",
                                 CCFinishFromResponseStatus(response.status)),
       usage |-> CCUsageFrom(response.usage.input, response.usage.output, response.usage.cached)]

\* Arguments are decoded, and an empty text makes no block.
ResponsesToClaude(response) ==
  LET calls == CallsOf(response.output)
      usage == response.usage
  IN  [text |-> TextOf(response.output), calls |-> calls,
       reason |-> TerminalReason(calls # <<>>, "tool_use",
                                 ClaudeStopFromResponseStatus(response.status)),
       usage |-> ClaudeUsage(ClampSubtract(usage.input, usage.cached, usage.written),
                             usage.output, usage.cached, usage.written)]
=============================================================================
