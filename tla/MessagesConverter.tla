-------------------------- MODULE MessagesConverter --------------------------
(***************************************************************************)
(* internal/adapter/messages/stream.go and convert.go: an upstream         *)
(* Messages response to the client's protocol, as a stream and at once.    *)
(* Feed takes one whole SSE frame; shared.SSEFramer is left out.           *)
(***************************************************************************)
EXTENDS Conversion, SequencesExt

NewStreamConverter(source, names) ==
  [source |-> source, names |-> names, blocks |-> <<>>, toolOrdinal |-> 0,
   promptTokens |-> 0, completionTokens |-> 0, cacheRead |-> {}, cacheCreation |-> {},
   stopReason |-> NoReason, toolsSeen |-> FALSE, roleSent |-> FALSE, msgIdx |-> -1,
   outCount |-> 0, emitted |-> FALSE, flushed |-> FALSE]

NewBlock(ev) ==
  [kind |-> ev.kind, id |-> ev.id, name |-> ev.name, ordinal |-> 0, outIdx |-> 0,
   emitted |-> FALSE, text |-> <<>>, args |-> <<>>, inputEmitted |-> 0]

\* The results of dispatch: nothing, events, the end, an error.
Out(sc, events, done) == [sc |-> sc, events |-> events, done |-> done, failed |-> FALSE]
Ignored(sc)  == Out(sc, <<>>, FALSE)
Failure(sc)  == [Ignored(sc) EXCEPT !.failed = TRUE]

\* captureCache, and the tokens of a message_start or message_delta.
CaptureCache(sc, usage) ==
  [sc EXCEPT !.cacheRead = IF usage.cached = {} THEN @ ELSE usage.cached,
             !.cacheCreation = IF usage.written = {} THEN @ ELSE usage.written]
Started(sc, usage) == CaptureCache([sc EXCEPT !.promptTokens = usage.input], usage)

\* Fault: a message_delta without input tokens resets them.
CountedResets(sc, usage) ==
  CaptureCache([sc EXCEPT !.promptTokens = usage.input, !.completionTokens = usage.output], usage)

Counted(sc, usage) ==
  CaptureCache([sc EXCEPT !.promptTokens = IF usage.input = 0 THEN @ ELSE usage.input,
                          !.completionTokens = usage.output], usage)

AllInput(sc) == sc.promptTokens + ValueOrZero(sc.cacheRead) + ValueOrZero(sc.cacheCreation)

IsCall(sc, index) == index \in DOMAIN sc.blocks /\ sc.blocks[index].kind = "tool_use"
UsageOf(ev) == CHOOSE u \in ev.usage : TRUE

-----------------------------------------------------------------------------
(* To Chat Completions.                                                    *)

\* emitRole, then a chunk.
WithRole(sc, chunk) ==
  Out([sc EXCEPT !.roleSent = TRUE],
      (IF sc.roleSent THEN <<>> ELSE <<RoleChunk>>) \o <<chunk>>, FALSE)

OpenAIBlockStart(sc, ev) ==
  LET call == ev.kind = "tool_use"
      bs   == [NewBlock(ev) EXCEPT !.ordinal = IF call THEN sc.toolOrdinal ELSE 0]
  IN  Ignored([sc EXCEPT !.toolOrdinal = IF call THEN @ + 1 ELSE @,
                         !.toolsSeen = @ \/ call,
                         !.blocks = Put(@, ev.index, bs)])

\* Fault: every fragment opens its call.
OpenAIDeltaReopens(sc, ev) ==
  IF ev.delta = "text_delta" THEN WithRole(sc, TextChunk(ev.piece))
  ELSE IF ev.delta # "input_json_delta" THEN Ignored(sc)
  ELSE LET bs == sc.blocks[ev.index]
       IN  WithRole(sc, CallChunk(CCToolCallOpeningEntry(bs.ordinal, bs.id, bs.name, ev.piece)))

\* A call is opened by its first fragment.  Thinking is omitted.
OpenAIDelta(sc, ev) ==
  CASE ev.delta = "text_delta" -> WithRole(sc, TextChunk(ev.piece))
    [] ev.delta = "input_json_delta" ->
         IF ~IsCall(sc, ev.index) THEN Failure(sc)
         ELSE LET bs == sc.blocks[ev.index]
              IN  WithRole([sc EXCEPT !.blocks[ev.index].emitted = TRUE],
                    CallChunk(IF bs.emitted THEN Continuation(bs.ordinal, ev.piece)
                              ELSE CCToolCallOpeningEntry(bs.ordinal, bs.id, bs.name, ev.piece)))
    [] OTHER -> Ignored(sc)

\* The finish chunk, with usage; calls outrank the stop reason.
OpenAIMessageDelta(sc, ev) ==
  LET counted == Counted(sc, UsageOf(ev))
  IN  Out(counted,
          <<Finish(TerminalReason(sc.toolsSeen, "tool_calls", ClaudeStopToFinish(ev.reason)),
                   {CCUsageFrom(AllInput(counted), counted.completionTokens,
                                counted.cacheRead)})>>, FALSE)

DispatchOpenAI(sc, ev) ==
  CASE ev.type = "message_start" ->
         Out([Started(sc, UsageOf(ev)) EXCEPT !.roleSent = TRUE],
             IF sc.roleSent THEN <<>> ELSE <<RoleChunk>>, FALSE)
    [] ev.type = "content_block_start" -> OpenAIBlockStart(sc, ev)
    [] ev.type = "content_block_delta" -> OpenAIDelta(sc, ev)
    [] ev.type = "message_delta" -> OpenAIMessageDelta(sc, ev)
    [] ev.type = "message_stop" -> Out(sc, <<>>, TRUE)
    [] ev.type = "error" -> Failure(sc)
    [] OTHER -> Ignored(sc)

-----------------------------------------------------------------------------
(* To Responses.                                                           *)

\* Fault: an item takes the upstream index of its block.
ResponsesBlockStartRaw(sc, ev) ==
  LET known == [sc EXCEPT !.blocks = Put(@, ev.index, [NewBlock(ev) EXCEPT !.outIdx = ev.index])]
  IN  IF ev.kind = "text" /\ sc.msgIdx < 0
      THEN Out([known EXCEPT !.msgIdx = ev.index],
               <<ItemAdded(sc.names, ev.index, Message(<<>>))>>, FALSE)
      ELSE IF ev.kind = "tool_use"
      THEN Out([known EXCEPT !.toolsSeen = TRUE],
               <<ItemAdded(sc.names, ev.index, FunctionCall(ev.id, ev.name, <<>>))>>, FALSE)
      ELSE Ignored(known)

\* One message item for all text blocks and one item for each call take the
\* next output index; other blocks take none.
ResponsesBlockStart(sc, ev) ==
  LET bs    == [NewBlock(ev) EXCEPT !.outIdx = IF ev.kind = "tool_use" THEN sc.outCount ELSE 0]
      known == [sc EXCEPT !.blocks = Put(@, ev.index, bs)]
  IN  IF ev.kind = "text" /\ sc.msgIdx < 0
      THEN Out([known EXCEPT !.msgIdx = sc.outCount, !.outCount = @ + 1],
               <<ItemAdded(sc.names, sc.outCount, Message(<<>>))>>, FALSE)
      ELSE IF ev.kind = "tool_use"
      THEN Out([known EXCEPT !.toolsSeen = TRUE, !.outCount = @ + 1],
               <<ItemAdded(sc.names, sc.outCount, FunctionCall(ev.id, ev.name, <<>>))>>, FALSE)
      ELSE Ignored(known)

ResponsesTextDelta(sc, ev) ==
  Out(IF ev.index \in DOMAIN sc.blocks
      THEN [sc EXCEPT !.blocks[ev.index].text = @ \o ev.piece] ELSE sc,
      <<TextDelta(MessageId, IF sc.msgIdx >= 0 THEN sc.msgIdx ELSE ev.index, ev.piece)>>, FALSE)

ResponsesArgsDelta(sc, ev) ==
  LET bs    == sc.blocks[ev.index]
      args  == bs.args \o ev.piece
      delta == ToolDelta(sc.names, bs.id, bs.outIdx, bs.name, ev.piece, args, bs.inputEmitted)
  IN  IF ~IsCall(sc, ev.index) THEN Failure(sc)
      ELSE Out([sc EXCEPT !.blocks[ev.index].args = args,
                          !.blocks[ev.index].inputEmitted = delta.emitted],
               delta.events, FALSE)

\* outputItems: the blocks in upstream index order.
OutputItems(sc) ==
  LET add(bs, oa) ==
        CASE bs.kind = "text"     -> AddText(ReserveTextSlot(oa), bs.text)
          [] bs.kind = "tool_use" -> AppendFunctionCall(oa, bs.id, bs.name, DefaultArgs(bs.args))
          [] OTHER                -> oa
  IN  Render(MapThenFoldSet(add, NewOutputAssembler(sc.names), LAMBDA i : sc.blocks[i],
                            Max, DOMAIN sc.blocks))

ResponsesCompleted(sc) ==
  LET items == OutputItems(sc)
  IN  ItemsDone(items)
      \o <<Completed(ResponseStatusFromClaudeStop(sc.stopReason),
             NewResponsesUsageFrom(AllInput(sc), sc.completionTokens,
                                   sc.cacheRead, sc.cacheCreation), items)>>

DispatchResponses(sc, ev) ==
  CASE ev.type = "message_start" -> Out(Started(sc, UsageOf(ev)), <<Created>>, FALSE)
    [] ev.type = "content_block_start" -> ResponsesBlockStart(sc, ev)
    [] ev.type = "content_block_delta" /\ ev.delta = "text_delta" -> ResponsesTextDelta(sc, ev)
    [] ev.type = "content_block_delta" /\ ev.delta = "input_json_delta" ->
         ResponsesArgsDelta(sc, ev)
    [] ev.type = "message_delta" ->
         Ignored([Counted(sc, UsageOf(ev)) EXCEPT !.stopReason = ev.reason])
    [] ev.type = "message_stop" -> Out(sc, ResponsesCompleted(sc), TRUE)
    [] ev.type = "error" -> Failure(sc)
    [] OTHER -> Ignored(sc)

-----------------------------------------------------------------------------
(* One frame, and the end of the upstream stream.                          *)

\* To the Messages protocol frames pass verbatim, but for errors.
DispatchClaude(sc, ev) ==
  IF ev.type = "error" THEN Failure(sc)
  ELSE Out(sc, <<ev>>, ev.type = "message_stop")

Feed(sc, ev) ==
  LET out == CASE sc.source = "claude" -> DispatchClaude(sc, ev)
               [] sc.source = "openai" -> DispatchOpenAI(sc, ev)
               [] OTHER                -> DispatchResponses(sc, ev)
  IN  [out EXCEPT !.sc.emitted = @ \/ out.events # <<>>]

\* Fault: a cut stream is left as it is.
FlushNothing(sc) == Ignored([sc EXCEPT !.flushed = TRUE])

\* The upstream closed before message_stop: Responses clients get the
\* terminal event, the others nothing more.
Flush(sc) ==
  Out([sc EXCEPT !.flushed = TRUE],
      IF ~sc.flushed /\ sc.emitted /\ sc.source = "openai-response"
      THEN ResponsesCompleted(sc) ELSE <<>>, FALSE)

-----------------------------------------------------------------------------
(* The whole response at once.  An upstream response has blocks [kind, id, *)
(* name, content], a stop reason and usage.                                *)

ClaudeInput(usage) == usage.input + ValueOrZero(usage.cached) + ValueOrZero(usage.written)

ClaudeToChat(response) ==
  LET calls == SelectSeq(response.blocks, LAMBDA b : b.kind = "tool_use")
      texts == SelectSeq(response.blocks, LAMBDA b : b.kind = "text")
  IN  [text |-> FlattenSeq([k \in DOMAIN texts |-> texts[k].content]),
       calls |-> [k \in DOMAIN calls |-> [id |-> calls[k].id, name |-> calls[k].name,
                                          args |-> DefaultArgs(calls[k].content)]],
       reason |-> TerminalReason(calls # <<>>, "tool_calls", ClaudeStopToFinish(response.finish)),
       usage |-> CCUsageFrom(ClaudeInput(response.usage), response.usage.output,
                             response.usage.cached)]

\* Fault: the message is not pinned to the slot of its first block.
ClaudeToResponsesUnpinned(names, response) ==
  LET add(oa, b) ==
        CASE b.kind = "text"     -> AddText(oa, b.content)
          [] b.kind = "tool_use" -> AppendFunctionCall(oa, b.id, b.name, DefaultArgs(b.content))
          [] OTHER               -> oa
  IN  [status |-> ResponseStatusFromClaudeStop(response.finish),
       output |-> Render(FoldLeft(add, NewOutputAssembler(names), response.blocks)),
       usage |-> NewResponsesUsageFrom(ClaudeInput(response.usage), response.usage.output,
                                       response.usage.cached, response.usage.written)]

ClaudeToResponses(names, response) ==
  LET add(oa, b) ==
        CASE b.kind = "text"     -> AddText(ReserveTextSlot(oa), b.content)
          [] b.kind = "tool_use" -> AppendFunctionCall(oa, b.id, b.name, DefaultArgs(b.content))
          [] OTHER               -> oa
  IN  [status |-> ResponseStatusFromClaudeStop(response.finish),
       output |-> Render(FoldLeft(add, NewOutputAssembler(names), response.blocks)),
       usage |-> NewResponsesUsageFrom(ClaudeInput(response.usage), response.usage.output,
                                       response.usage.cached, response.usage.written)]
=============================================================================
