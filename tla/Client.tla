-------------------------------- MODULE Client --------------------------------
(***************************************************************************)
(* The client of one stream: how a reader of each protocol puts a response *)
(* together from its events, and the rules of the protocol it relies on.   *)
(* This is not code of the repository; it is what the converters' events   *)
(* are for, read off the tests that decode them.                           *)
(*                                                                         *)
(* text and calls are the response so far.  blocks are the content blocks  *)
(* or output items in the order of their indexes, open those not stopped,  *)
(* and fault names the first rule that was broken.  stray is set when      *)
(* content arrived for a block that had been stopped.                      *)
(***************************************************************************)
EXTENDS RequestConversion

NewClient ==
  [text |-> <<>>, calls |-> <<>>, blocks |-> <<>>, open |-> {}, done |-> {},
   reason |-> NoReason, usage |-> NoUsage, started |-> FALSE, ended |-> FALSE,
   stray |-> FALSE, fault |-> "none"]

Require(c, ok, rule) == IF ok \/ c.fault # "none" THEN c ELSE [c EXCEPT !.fault = rule]

AddCall(c, id, name, namespace, custom, content) ==
  [c EXCEPT !.calls = Append(@, [id |-> id, name |-> name, namespace |-> namespace,
                                 custom |-> custom, content |-> content])]
ExtendCall(c, k, piece) == [c EXCEPT !.calls[k].content = @ \o piece]

\* A new block or item, the n-th of them; call is its place in calls.
AddBlock(c, index, kind, call) ==
  [Require(c, index = Len(c.blocks), "index") EXCEPT
     !.blocks = Append(@, [kind |-> kind, call |-> call, text |-> <<>>]),
     !.open = @ \cup {index}]

BlockAt(c, index) == c.blocks[index + 1]
Known(c, index, kinds) == index \in 0..Len(c.blocks) - 1 /\ BlockAt(c, index).kind \in kinds

-----------------------------------------------------------------------------
(* Chat Completions.  An error object passes as a line of its own.         *)

ReceiveEntry(c, entry) ==
  IF entry.id # NoId
  THEN AddCall(Require(c, entry.index = Len(c.calls), "index"),
               entry.id, entry.name, NoNamespace, FALSE, entry.args)
  ELSE IF entry.index \in 0..Len(c.calls) - 1 THEN ExtendCall(c, entry.index + 1, entry.args)
  ELSE Require(c, FALSE, "unknown call")

ReceiveChunk(c, e) ==
  LET speaks  == e.content # <<>> \/ e.calls # <<>> \/ e.finish # NoReason
      started == [Require(Require(c, c.started # e.role \/ ~e.choices, "role"),
                          speaks => c.reason = NoReason, "after the end")
                  EXCEPT !.started = @ \/ e.role, !.text = @ \o e.content]
      called  == FoldLeft(ReceiveEntry, started, e.calls)
  IN  [called EXCEPT !.reason = IF e.finish = NoReason THEN @ ELSE e.finish,
                     !.ended = @ \/ e.finish # NoReason,
                     !.usage = IF e.usage = {} THEN @ ELSE CHOOSE u \in e.usage : TRUE]

ReceiveChat(c, e) == IF e.type = "error" THEN c ELSE ReceiveChunk(c, e)

-----------------------------------------------------------------------------
(* Messages.  One block is open at a time; ping is not a rule of its own.  *)

ClaudeKind(delta) == IF delta = "text_delta" THEN "text"
                     ELSE IF delta = "input_json_delta" THEN "tool_use" ELSE "thinking"

ReceiveStart(c, e) ==
  LET isCall == e.kind = "tool_use"
      called == IF isCall THEN AddCall(c, e.id, e.name, NoNamespace, FALSE, <<>>) ELSE c
  IN  AddBlock(Require(called, c.open = {}, "overlap"), e.index, e.kind,
               IF isCall THEN Len(called.calls) ELSE 0)

ReceiveDelta(c, e) ==
  LET kind  == ClaudeKind(e.delta)
      known == [c EXCEPT !.stray = @ \/ e.index \notin c.open]
  IN  CASE ~Known(c, e.index, {kind}) -> Require(c, FALSE, "unknown block")
        [] Known(c, e.index, {"text"}) /\ kind = "text" ->
             [known EXCEPT !.text = @ \o e.piece, !.blocks[e.index + 1].text = @ \o e.piece]
        [] Known(c, e.index, {"tool_use"}) /\ kind = "tool_use" ->
             ExtendCall(known, BlockAt(c, e.index).call, e.piece)
        [] OTHER -> known

\* Usage of message_start and message_delta together.
MergedUsage(first, last) ==
  [input |-> IF last.input = 0 THEN first.input ELSE last.input,
   output |-> last.output,
   cached |-> IF last.cached = {} THEN first.cached ELSE last.cached,
   written |-> IF last.written = {} THEN first.written ELSE last.written]

ReceiveClaude(c, e) ==
  LET begun == Require(Require(c, c.started # (e.type = "message_start"), "start"),
                       ~c.ended, "after the end")
      usage == CHOOSE u \in e.usage : TRUE
  IN  CASE e.type = "message_start" -> [begun EXCEPT !.started = TRUE, !.usage = usage]
        [] e.type = "content_block_start" -> ReceiveStart(begun, e)
        [] e.type = "content_block_delta" -> ReceiveDelta(begun, e)
        [] e.type = "content_block_stop" ->
             [Require(begun, e.index \in c.open, "stop") EXCEPT !.open = @ \ {e.index}]
        [] e.type = "message_delta" ->
             [Require(begun, c.open = {} /\ c.reason = NoReason, "finish") EXCEPT
                !.reason = e.reason, !.usage = MergedUsage(@, usage)]
        [] e.type = "message_stop" ->
             [Require(begun, c.reason # NoReason, "stop before finish") EXCEPT !.ended = TRUE]
        [] OTHER -> Require(begun, FALSE, "unknown event")

-----------------------------------------------------------------------------
(* Responses.  Items may be open together; each is finished with what was  *)
(* streamed for it, and the terminal event lists them all.                 *)

ReceiveItem(c, e) ==
  LET item   == e.item
      isCall == item.type \in {"function_call", "custom_tool_call"}
      called == IF isCall THEN AddCall(c, item.callId, item.name, item.namespace,
                                       item.type = "custom_tool_call", item.content)
                ELSE c
  IN  AddBlock(called, e.index, item.type, IF isCall THEN Len(called.calls) ELSE 0)

ReceiveText(c, e) ==
  IF Known(c, e.index, {"message"}) /\ e.index \in c.open
  THEN [c EXCEPT !.text = @ \o e.content, !.blocks[e.index + 1].text = @ \o e.content]
  ELSE Require(c, FALSE, "unknown item")

ReceivePiece(c, e, kind) ==
  IF Known(c, e.index, {kind}) /\ e.index \in c.open
  THEN ExtendCall(c, BlockAt(c, e.index).call, e.content)
  ELSE Require(c, FALSE, "unknown item")

\* What was streamed for a call, if anything, is what it is finished with.
Streamed(c, index) ==
  IF BlockAt(c, index).call = 0 THEN BlockAt(c, index).text
  ELSE c.calls[BlockAt(c, index).call].content
Agrees(c, index, content) == Streamed(c, index) \in {content, <<>>}

FinishedWith(c, index, content) ==
  LET call == BlockAt(c, index).call
      ok   == Require(c, Agrees(c, index, content), "content")
  IN  IF call = 0 THEN ok ELSE [ok EXCEPT !.calls[call].content = content]

\* An item event is about the item that was announced under its index.
SameItem(c, index, item) ==
  /\ Known(c, index, {item.type})
  /\ BlockAt(c, index).call > 0 =>
       LET call == c.calls[BlockAt(c, index).call]
       IN  call.id = item.callId /\ call.name = item.name /\ call.namespace = item.namespace

ReceiveItemDone(c, e) ==
  IF ~SameItem(c, e.index, e.item) THEN Require(c, FALSE, "another item")
  ELSE [FinishedWith(Require(c, e.index \in c.open, "done twice"), e.index, e.item.content)
        EXCEPT !.open = @ \ {e.index}]

ReceiveCompleted(c, e) ==
  LET listed == /\ Len(e.output) = Len(c.blocks)
                /\ \A k \in DOMAIN e.output :
                     /\ SameItem(c, k - 1, e.output[k])
                     /\ Agrees(c, k - 1, e.output[k].content)
  IN  [Require(Require(c, c.open = {}, "unfinished items"), listed, "output") EXCEPT
         !.ended = TRUE, !.reason = e.status, !.usage = CHOOSE u \in e.usage : TRUE]

DoneKinds(type) ==
  CASE type = "response.function_call_arguments.done" -> {"function_call"}
    [] type = "response.custom_tool_call_input.done"  -> {"custom_tool_call"}
    [] OTHER                                          -> {"message"}

ReceiveResponses(c, e) ==
  LET begun == Require(Require(c, c.started # (e.type = "response.created"), "start"),
                       ~c.ended, "after the end")
  IN  CASE e.type = "response.created" -> [begun EXCEPT !.started = TRUE]
        [] e.type = "response.output_item.added" -> ReceiveItem(begun, e)
        [] e.type = "response.output_text.delta" -> ReceiveText(begun, e)
        [] e.type = "response.function_call_arguments.delta" ->
             ReceivePiece(begun, e, "function_call")
        [] e.type = "response.custom_tool_call_input.delta" ->
             ReceivePiece(begun, e, "custom_tool_call")
        [] e.type \in {"response.output_text.done", "response.content_part.done",
                       "response.function_call_arguments.done",
                       "response.custom_tool_call_input.done"} ->
             IF e.index \in c.open /\ Known(c, e.index, DoneKinds(e.type))
             THEN FinishedWith(begun, e.index, e.content)
             ELSE Require(begun, FALSE, "unknown item")
        [] e.type = "response.output_item.done" -> ReceiveItemDone(begun, e)
        [] e.type = "response.completed" -> ReceiveCompleted(begun, e)
        [] OTHER -> Require(begun, FALSE, "unknown event")

-----------------------------------------------------------------------------

Receive(source, c, e) ==
  CASE source = "openai" -> ReceiveChat(c, e)
    [] source = "claude" -> ReceiveClaude(c, e)
    [] OTHER             -> ReceiveResponses(c, e)

-----------------------------------------------------------------------------
(* The next request: the conversation so far with the response in it, the  *)
(* results of its calls, and what the user says next.                      *)

CallBlock(call) ==
  [kind |-> "tool_use", id |-> call.id, name |-> call.name, namespace |-> call.namespace,
   content |-> call.content]
Result(call, image) ==
  Block("tool_result", call.id, IF image THEN <<"result", "image">> ELSE <<"result">>)

\* A block of the response as the client sends it back.
Returned(c, b) ==
  CASE b.call > 0                     -> CallBlock(c.calls[b.call])
    [] b.kind \in {"text", "message"} -> TextBlock(b.text)
    [] OTHER                          -> Block("thinking", NoId, <<"summary">>)
ReturnedItem(c, b) ==
  Turn(IF b.kind = "message" THEN "assistant" ELSE b.kind, <<Returned(c, b)>>)

\* images: the calls whose result shows one.
NextRequest(source, c, images) ==
  LET system  == TextBlock(<<"system">>)
      asked   == Turn("user", <<TextBlock(<<"question">>)>>)
      next    == TextBlock(<<"next">>)
      blocks  == [k \in DOMAIN c.blocks |-> Returned(c, c.blocks[k])]
      calls   == [k \in DOMAIN c.calls |-> CallBlock(c.calls[k])]
      results == [k \in DOMAIN c.calls |-> Result(c.calls[k], k \in images)]
  IN  CASE source = "openai" ->
             [system |-> <<>>,
              messages |-> <<Turn("developer", <<system>>), asked,
                             Turn("assistant", TextBlocks(c.text) \o calls)>>
                           \o [k \in DOMAIN results |-> Turn("tool", <<results[k]>>)]
                           \o <<Turn("user", <<next>>)>>]
        [] source = "claude" ->
             [system |-> <<system.content>>,
              messages |-> IF blocks = <<>>
                THEN <<Turn("user", asked.blocks \o <<next>>)>>
                ELSE <<asked, Turn("assistant", [k \in DOMAIN blocks |->
                                IF blocks[k].kind = "tool_use" THEN WithArgs(blocks[k])
                                ELSE blocks[k]]),
                       Turn("user", results \o <<next>>)>>]
        [] OTHER ->
             [system |-> <<system.content>>,
              messages |-> <<asked>>
                 \o [k \in DOMAIN c.blocks |-> ReturnedItem(c, c.blocks[k])]
                 \o [k \in DOMAIN results |->
                       Turn(IF c.calls[k].custom THEN "custom_tool_call_output"
                            ELSE "function_call_output", <<results[k]>>)]
                 \o <<Turn("user", <<next>>)>>]
=============================================================================
