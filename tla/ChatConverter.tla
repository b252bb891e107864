---------------------------- MODULE ChatConverter ----------------------------
(***************************************************************************)
(* internal/adapter/chatcompletions/stream.go and convert.go: an upstream  *)
(* Chat Completions response to the client's protocol, as a stream and at  *)
(* once.  Feed takes one data line; the framing of lines is left out.      *)
(***************************************************************************)
EXTENDS Conversion, SequencesExt

NewStreamConverter(source, names) ==
  [source |-> source, names |-> names, done |-> FALSE, started |-> FALSE,
   textOpen |-> FALSE, textIndex |-> 0, nextIndex |-> 0, msgIndex |-> -1,
   tools |-> <<>>, toolOrder |-> <<>>, usage |-> {},
   finished |-> FALSE, heldFinish |-> NoReason, terminalSent |-> FALSE,
   flushed |-> FALSE, respText |-> <<>>]

NewTool(index, call) ==
  [blockIndex |-> index, id |-> call.id, name |-> call.name, args |-> <<>>,
   stopped |-> FALSE, inputEmitted |-> 0]

\* What a step of the converter leaves behind: its state and its events.
Quiet(sc) == [sc |-> sc, events |-> <<>>]
Then(out, Step(_)) ==
  LET after(next) == [sc |-> next.sc, events |-> out.events \o next.events]
  IN  after(Step(out.sc))

ToolsSeen(sc) == sc.toolOrder # <<>>
UsageSeen(sc) == IF sc.usage = {} THEN NoUsage ELSE CHOOSE u \in sc.usage : TRUE

-----------------------------------------------------------------------------
(* To Messages.                                                            *)

\* stopBlocks closes the text block and every open tool_use block.
StopBlocks(sc) ==
  LET text == IF sc.textOpen THEN <<ContentBlockStop(sc.textIndex)>> ELSE <<>>
      stop(events, i) == IF sc.tools[i].stopped THEN events
                         ELSE Append(events, ContentBlockStop(sc.tools[i].blockIndex))
  IN  [sc |-> [sc EXCEPT !.textOpen = FALSE,
                         !.tools = [i \in DOMAIN @ |-> [@[i] EXCEPT !.stopped = TRUE]]],
       events |-> FoldLeft(stop, text, sc.toolOrder)]

\* Fault: the terminal event goes out with the finish reason, without
\* waiting for the usage trailer.
ClaudeTerminalNoUsage(sc) ==
  IF sc.heldFinish = NoReason THEN Quiet(sc)
  ELSE [sc |-> [sc EXCEPT !.heldFinish = NoReason, !.terminalSent = TRUE],
        events |-> <<MessageDelta(TerminalReason(ToolsSeen(sc), "tool_use",
                                    FinishToClaudeStop(sc.heldFinish)), {NoUsage})>>]

\* The held message_delta, once, with the usage seen by then.
ClaudeTerminal(sc) ==
  LET usage  == UsageSeen(sc)
      reason == TerminalReason(ToolsSeen(sc), "tool_use", FinishToClaudeStop(sc.heldFinish))
  IN  IF sc.heldFinish = NoReason THEN Quiet(sc)
      ELSE [sc |-> [sc EXCEPT !.heldFinish = NoReason, !.terminalSent = TRUE],
            events |-> <<MessageDelta(reason,
              {ClaudeUsage(ClampSubtract(usage.input, usage.cached, {}),
                           usage.output, usage.cached, {})})>>]

\* Fault: a text block opens beside the blocks that are open.
ClaudeTextOverlaps(sc, text) ==
  IF text = <<>> THEN Quiet(sc)
  ELSE IF sc.textOpen THEN
    [sc |-> sc, events |-> <<ContentBlockDelta(sc.textIndex, "text_delta", text)>>]
  ELSE [sc |-> [sc EXCEPT !.textOpen = TRUE, !.textIndex = sc.nextIndex, !.nextIndex = @ + 1],
        events |-> <<ContentBlockStart(sc.nextIndex, "text", NoId, <<>>),
                     ContentBlockDelta(sc.nextIndex, "text_delta", text)>>]

\* Content opens a text block when none is open, after closing the others.
ClaudeText(sc, text) ==
  LET stopped == StopBlocks(sc)
      index   == IF sc.textOpen THEN sc.textIndex ELSE sc.nextIndex
      delta   == <<ContentBlockDelta(index, "text_delta", text)>>
  IN  IF text = <<>> THEN Quiet(sc)
      ELSE IF sc.textOpen THEN [sc |-> sc, events |-> delta]
      ELSE [sc |-> [stopped.sc EXCEPT !.textOpen = TRUE, !.textIndex = index,
                                      !.nextIndex = index + 1],
            events |-> stopped.events
                       \o <<ContentBlockStart(index, "text", NoId, <<>>)>> \o delta]

\* The first entry of a call opens its block, after closing the others; a
\* fragment goes to the block of its call, whether it is still open or not.
ClaudeCall(sc, call) ==
  LET isNew   == call.index \notin DOMAIN sc.tools
      stopped == IF isNew THEN StopBlocks(sc) ELSE Quiet(sc)
      tool    == IF isNew THEN NewTool(sc.nextIndex, call) ELSE sc.tools[call.index]
      start   == <<ContentBlockStart(tool.blockIndex, "tool_use", tool.id, tool.name)>>
      opened  == [stopped.sc EXCEPT !.nextIndex = @ + 1,
                                    !.tools = Put(@, call.index, tool),
                                    !.toolOrder = Append(@, call.index)]
  IN  [sc |-> IF isNew THEN opened ELSE sc,
       events |-> stopped.events
                  \o (IF isNew THEN start ELSE <<>>)
                  \o (IF call.args = <<>> THEN <<>>
                      ELSE <<ContentBlockDelta(tool.blockIndex, "input_json_delta", call.args)>>)]

\* A finish reason closes the blocks and is held for the terminal event.
ClaudeFinish(sc, finish) ==
  IF finish = NoReason \/ sc.finished THEN Quiet(sc)
  ELSE StopBlocks([sc EXCEPT !.finished = TRUE, !.heldFinish = finish])

ClaudeStart(sc, chunk) ==
  LET usage == IF chunk.usage = {} THEN NoUsage ELSE UsageSeen(sc)
  IN  IF sc.started \/ ~chunk.choices THEN Quiet(sc)
      ELSE [sc |-> [sc EXCEPT !.started = TRUE],
            events |-> <<MessageStart({[NoUsage EXCEPT !.input = usage.input]})>>]

ClaudeChoice(sc, chunk) ==
  LET text   == ClaudeText(sc, chunk.content)
      called == FoldLeft(LAMBDA out, call : Then(out, LAMBDA s : ClaudeCall(s, call)),
                         text, chunk.calls)
  IN  Then(called, LAMBDA s : ClaudeFinish(s, chunk.finish))

ClaudeChunk(sc, chunk) ==
  LET begun == Then(ClaudeTerminal(sc), LAMBDA s : ClaudeStart(s, chunk))
  IN  IF chunk.choices THEN Then(begun, LAMBDA s : ClaudeChoice(s, chunk)) ELSE begun

ClaudeDone(sc) ==
  LET ended == Then(StopBlocks([sc EXCEPT !.done = TRUE]), ClaudeTerminal)
  IN  [ended EXCEPT !.events = Append(@, MessageStop)]

-----------------------------------------------------------------------------
(* To Responses.                                                           *)

\* Fault: the message is listed first, wherever it was announced.
OutputMessageFirst(sc) ==
  LET add(oa, i) == AppendFunctionCall(oa, sc.tools[i].id, sc.tools[i].name,
                                       DefaultArgs(sc.tools[i].args))
  IN  Render(AddText(FoldLeft(add, NewOutputAssembler(sc.names), sc.toolOrder), sc.respText))

\* The items in the order they were announced.
Output(sc) ==
  LET before(oa, i) == IF sc.msgIndex >= 0 /\ sc.tools[i].blockIndex > sc.msgIndex
                       THEN ReserveTextSlot(oa) ELSE oa
      add(oa, i)    == AppendFunctionCall(before(oa, i), sc.tools[i].id, sc.tools[i].name,
                                          DefaultArgs(sc.tools[i].args))
      calls         == FoldLeft(add, NewOutputAssembler(sc.names), sc.toolOrder)
      placed        == IF sc.msgIndex >= 0 THEN ReserveTextSlot(calls) ELSE calls
  IN  Render(AddText(placed, sc.respText))

\* The held response.completed, once, after the completion of each item.
ResponsesTerminal(sc) ==
  LET usage == UsageSeen(sc)
      events(items) ==
        ItemsDone(items)
          \o <<Completed(ResponseStatusFromCCFinish(sc.heldFinish),
                 NewResponsesUsageFrom(usage.input, usage.output, usage.cached, {}), items)>>
  IN  IF sc.heldFinish = NoReason THEN Quiet(sc)
      ELSE [sc |-> [sc EXCEPT !.heldFinish = NoReason], events |-> events(Output(sc))]

ResponsesText(sc, text) ==
  LET first == sc.msgIndex < 0
      index == IF first THEN sc.nextIndex ELSE sc.msgIndex
  IN  IF text = <<>> THEN Quiet(sc)
      ELSE [sc |-> [sc EXCEPT !.msgIndex = index, !.respText = @ \o text,
                              !.nextIndex = IF first THEN @ + 1 ELSE @],
            events |-> (IF first THEN <<ItemAdded(sc.names, index, Message(<<>>))>> ELSE <<>>)
                       \o <<TextDelta(MessageId, index, text)>>]

ResponsesCall(sc, call) ==
  LET isNew == call.index \notin DOMAIN sc.tools
      tool  == IF isNew THEN NewTool(sc.nextIndex, call) ELSE sc.tools[call.index]
      args  == tool.args \o call.args
      delta == IF call.args = <<>> THEN [events |-> <<>>, emitted |-> tool.inputEmitted]
               ELSE ToolDelta(sc.names, tool.id, tool.blockIndex, tool.name,
                              call.args, args, tool.inputEmitted)
  IN  [sc |-> [sc EXCEPT
         !.nextIndex = IF isNew THEN @ + 1 ELSE @,
         !.toolOrder = IF isNew THEN Append(@, call.index) ELSE @,
         !.tools = Put(@, call.index,
                       [tool EXCEPT !.args = args, !.inputEmitted = delta.emitted])],
       events |-> (IF isNew
                   THEN <<ItemAdded(sc.names, tool.blockIndex,
                                    FunctionCall(tool.id, tool.name, <<>>))>>
                   ELSE <<>>) \o delta.events]

ResponsesFinish(sc, finish) ==
  Quiet(IF finish = NoReason \/ sc.finished THEN sc
        ELSE [sc EXCEPT !.finished = TRUE, !.heldFinish = finish])

ResponsesStart(sc, chunk) ==
  IF sc.started \/ ~chunk.choices THEN Quiet(sc)
  ELSE [sc |-> [sc EXCEPT !.started = TRUE], events |-> <<Created>>]

ResponsesChoice(sc, chunk) ==
  LET text   == ResponsesText(sc, chunk.content)
      called == FoldLeft(LAMBDA out, call : Then(out, LAMBDA s : ResponsesCall(s, call)),
                         text, chunk.calls)
  IN  Then(called, LAMBDA s : ResponsesFinish(s, chunk.finish))

ResponsesChunk(sc, chunk) ==
  LET begun == Then(ResponsesTerminal(sc), LAMBDA s : ResponsesStart(s, chunk))
  IN  IF chunk.choices THEN Then(begun, LAMBDA s : ResponsesChoice(s, chunk)) ELSE begun

-----------------------------------------------------------------------------
(* One line, and the end of the upstream stream.                           *)

\* decodeChunk keeps the usage of any chunk, with or without choices.
Decoded(sc, chunk) == IF chunk.usage = {} THEN sc ELSE [sc EXCEPT !.usage = chunk.usage]

Result(out, failed) == [sc |-> out.sc, events |-> out.events, done |-> out.sc.done,
                        failed |-> failed]

\* To the Chat Completions protocol lines pass verbatim, errors included;
\* [DONE] ends the stream and the host writes the client's.
Feed(sc, line) ==
  CASE line.type = "done" ->
         Result(CASE sc.source = "openai" -> Quiet([sc EXCEPT !.done = TRUE])
                  [] sc.source = "claude" -> ClaudeDone(sc)
                  [] OTHER -> ResponsesTerminal([sc EXCEPT !.done = TRUE]), FALSE)
    [] line.type # "done" /\ sc.source = "openai" ->
         Result([sc |-> sc, events |-> <<line>>], FALSE)
    [] line.type = "error" /\ sc.source # "openai" -> Result(Quiet(sc), TRUE)
    [] OTHER ->
         Result(IF sc.source = "claude" THEN ClaudeChunk(Decoded(sc, line), line)
                ELSE ResponsesChunk(Decoded(sc, line), line), FALSE)

\* Fault: a terminal event that went out with the trailer needs no more.
FlushForgetsStop(sc) ==
  LET ended == ClaudeTerminal([sc EXCEPT !.flushed = TRUE])
  IN  IF sc.flushed \/ sc.source = "openai" THEN Quiet(sc)
      ELSE IF sc.source = "openai-response" THEN ResponsesTerminal([sc EXCEPT !.flushed = TRUE])
      ELSE IF ended.events = <<>> THEN ended
      ELSE [ended EXCEPT !.events = Append(@, MessageStop)]

\* The upstream closed without [DONE]: the held terminal event goes out, and
\* a Messages client gets its message_stop in any case.
Flush(sc) ==
  LET once  == [sc EXCEPT !.flushed = TRUE]
      ended == ClaudeTerminal(once)
  IN  IF sc.flushed \/ sc.source = "openai" THEN Quiet(once)
      ELSE IF sc.source = "openai-response" THEN ResponsesTerminal(once)
      ELSE IF ended.events = <<>> /\ ~sc.terminalSent THEN ended
      ELSE [ended EXCEPT !.events = Append(@, MessageStop)]

-----------------------------------------------------------------------------
(* The whole response at once.  An upstream response has content, calls    *)
(* [id, name, args] in the order of their indexes, a finish reason, usage. *)

ChatToClaude(response) ==
  LET usage == IF response.usage = {} THEN NoUsage ELSE CHOOSE u \in response.usage : TRUE
  IN  [text |-> response.text,
       calls |-> response.calls,
       reason |-> TerminalReason(response.calls # <<>>, "tool_use",
                                 FinishToClaudeStop(response.finish)),
       usage |-> ClaudeUsage(ClampSubtract(usage.input, usage.cached, {}),
                             usage.output, usage.cached, {})]

ChatToResponses(names, response) ==
  LET usage     == IF response.usage = {} THEN NoUsage ELSE CHOOSE u \in response.usage : TRUE
      add(oa, c) == AppendFunctionCall(oa, c.id, c.name, DefaultArgs(c.args))
  IN  [status |-> ResponseStatusFromCCFinish(response.finish),
       output |-> Render(FoldLeft(add, AddText(NewOutputAssembler(names), response.text),
                                  response.calls)),
       usage |-> NewResponsesUsageFrom(usage.input, usage.output, usage.cached, {})]
=============================================================================
