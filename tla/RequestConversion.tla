--------------------------- MODULE RequestConversion ---------------------------
(***************************************************************************)
(* The conversation of a request in another protocol: BuildRequest of the  *)
(* adapters chatcompletions, messages and responses (request.go).          *)
(*                                                                         *)
(* A request is [system, messages]; a message is [role, blocks].  Chat     *)
(* Completions has its system text and its tool results in messages of     *)
(* their own; of a Responses item the role is its type.  A tool result may *)
(* show an image.  Sampling, limits and the thinking budget are left out,  *)
(* and so are parts that no target accepts.                                *)
(***************************************************************************)
EXTENDS ResponseTools

Turn(role, blocks) == [role |-> role, blocks |-> blocks]
Block(kind, id, content) ==
  [kind |-> kind, id |-> id, name |-> <<>>, namespace |-> NoNamespace, content |-> content]
TextBlock(text) == Block("text", NoId, text)

TextOnly(content) == SelectSeq(content, LAMBDA piece : piece # "image")
OfKind(blocks, kind) == SelectSeq(blocks, LAMBDA b : b.kind = kind)
JoinTexts(blocks) ==
  LET texts == OfKind(blocks, "text")
  IN  FlattenSeq([k \in DOMAIN texts |-> texts[k].content])
\* DecodeStringOrParts: empty text is dropped.
Parts(blocks) == SelectSeq(blocks, LAMBDA b : b.kind # "text" \/ b.content # <<>>)
TextBlocks(text) == IF text = <<>> THEN <<>> ELSE <<TextBlock(text)>>

WithArgs(block) == [block EXCEPT !.content = DefaultArgs(@)]
CallBlocks(blocks) ==
  LET calls == OfKind(blocks, "tool_use")
  IN  [k \in DOMAIN calls |-> WithArgs(calls[k])]

\* Normalize: a call under the name its tool travels with, custom input as
\* the one property of an object.
WrapInput(input) == IF input = Input THEN Whole ELSE <<"input">> \o input
NormalizedItem(item) ==
  LET block == item.blocks[1]
      call  == QualifiedCall([type |-> item.role, name |-> block.name,
                              namespace |-> block.namespace])
  IN  CASE item.role \in {"function_call", "custom_tool_call"} ->
             Turn(call.type, <<[block EXCEPT !.name = call.name, !.namespace = call.namespace,
                !.content = IF item.role = "custom_tool_call" THEN WrapInput(@) ELSE @]>>)
        [] item.role = "custom_tool_call_output" -> Turn("function_call_output", item.blocks)
        [] OTHER -> item
NormalizedItems(request) == [k \in DOMAIN request.messages |-> NormalizedItem(request.messages[k])]

-----------------------------------------------------------------------------
(* To Chat Completions.  Tool messages carry text only; the images of a    *)
(* run of them follow in a user message, labelled with their call.         *)

ToolMessage(result) == Turn("tool", <<[result EXCEPT !.content = TextOnly(@)]>>)
ToolImageParts(result) ==
  IF Contains(result.content, "image") THEN <<Block("image", result.id, <<>>)>> ELSE <<>>
SystemMessages(texts) == [k \in DOMAIN texts |-> Turn("system", <<TextBlock(texts[k])>>)]

ClaudeUserMessages(blocks) ==
  LET flush(acc) == IF acc.parts = <<>> THEN acc
                    ELSE [acc EXCEPT !.msgs = Append(@, Turn("user", acc.parts)), !.parts = <<>>]
      step(acc, b) ==
        IF b.kind # "tool_result" THEN [acc EXCEPT !.parts = Append(@, b)]
        ELSE [flush(acc) EXCEPT !.msgs = Append(@, ToolMessage(b)),
                                !.images = @ \o ToolImageParts(b)]
      all == FoldLeft(step, [msgs |-> <<>>, parts |-> <<>>, images |-> <<>>], blocks)
  IN  flush([all EXCEPT !.parts = all.images \o @]).msgs

\* Thinking is omitted; an empty turn is none.
ClaudeAssistantMessage(blocks) ==
  LET content == TextBlocks(JoinTexts(blocks)) \o CallBlocks(blocks)
  IN  IF content = <<>> THEN <<>> ELSE <<Turn("assistant", content)>>

ClaudeToChat(request) ==
  [system |-> <<>>,
   messages |-> SystemMessages(request.system) \o
     FlattenSeq([k \in DOMAIN request.messages |->
       LET m == request.messages[k]
       IN  IF m.role = "user" THEN ClaudeUserMessages(m.blocks)
           ELSE ClaudeAssistantMessage(m.blocks)])]

\* Fault: the images of a result follow it at once.
WaitsNever(item) == item.role = "reasoning"

\* Images wait until the run of tool results is over.
Waits(item) == item.role \in {"function_call_output", "reasoning"}

\* Fault: every call has a message of its own.
JoinsNothing(msgs) == FALSE

\* A call joins an assistant message that has no content.
JoinsCall(msgs) ==
  /\ msgs # <<>>
  /\ msgs[Len(msgs)].role = "assistant"
  /\ \A k \in DOMAIN msgs[Len(msgs)].blocks : msgs[Len(msgs)].blocks[k].kind = "tool_use"

ResponsesToChat(request) ==
  LET flush(acc) == IF acc.images = <<>> THEN acc
                    ELSE [msgs |-> Append(acc.msgs, Turn("user", acc.images)), images |-> <<>>]
      add(acc, item) ==
        LET call == CallBlocks(item.blocks)
            parts == Parts(item.blocks)
        IN  CASE item.role = "function_call" ->
                   [acc EXCEPT !.msgs = IF JoinsCall(@)
                                        THEN [@ EXCEPT ![Len(@)].blocks = @ \o call]
                                        ELSE Append(@, Turn("assistant", call))]
              [] item.role = "function_call_output" ->
                   [acc EXCEPT !.msgs = Append(@, ToolMessage(item.blocks[1])),
                               !.images = @ \o ToolImageParts(item.blocks[1])]
              [] item.role = "reasoning" \/ parts = <<>> -> acc
              [] OTHER -> [acc EXCEPT !.msgs = Append(@, Turn(item.role, parts))]
      step(acc, item) == add(IF Waits(item) THEN acc ELSE flush(acc), item)
      all == FoldLeft(step, [msgs |-> SystemMessages(request.system), images |-> <<>>],
                      NormalizedItems(request))
  IN  [system |-> <<>>, messages |-> flush(all).msgs]

\* A request of the same protocol passes; DeepSeek knows no developer.
BuildOpenAIRequest(request) ==
  [request EXCEPT !.messages = [k \in DOMAIN @ |->
     IF @[k].role = "developer" THEN [@[k] EXCEPT !.role = "system"] ELSE @[k]]]

-----------------------------------------------------------------------------
(* To Messages.  Turns alternate: msgBuilder merges what belongs to one.   *)

NewBuilder == [system |-> <<>>, key |-> "", messages |-> <<>>]

\* Fault: tool results and the user's own words are turns of their own.
AddSplit(b, key, role, block) ==
  IF b.key = key
  THEN [b EXCEPT !.messages[Len(b.messages)].blocks = Append(@, block)]
  ELSE [b EXCEPT !.key = key, !.messages = Append(@, Turn(role, <<block>>))]

AddTo(b, key, role, block) ==
  LET n == Len(b.messages)
  IN  IF n > 0 /\ (b.key = key \/ (role = "user" /\ b.messages[n].role = "user"))
      THEN [b EXCEPT !.messages[n].blocks = Append(@, block)]
      ELSE [b EXCEPT !.key = key, !.messages = Append(@, Turn(role, <<block>>))]

AddAll(b, key, role, blocks) ==
  FoldLeft(LAMBDA acc, block : AddTo(acc, key, role, block), b, blocks)
AddSystem(b, blocks) == [b EXCEPT !.system = Append(@, JoinTexts(blocks))]
Built(b) == [system |-> b.system, messages |-> b.messages]

ChatToMessages(request) ==
  LET step(b, m) ==
        CASE m.role \in {"system", "developer"} -> AddSystem(b, m.blocks)
          [] m.role = "assistant" ->
               AddAll(b, "assistant", "assistant",
                      TextBlocks(JoinTexts(m.blocks)) \o CallBlocks(m.blocks))
          [] m.role = "tool" -> AddAll(b, "user:tool", "user", m.blocks)
          [] OTHER           -> AddAll(b, "user", "user", Parts(m.blocks))
  IN  Built(FoldLeft(step, NewBuilder, request.messages))

\* The summary of reasoning becomes thinking.
ResponsesToMessages(request) ==
  LET step(b, item) ==
        CASE item.role = "user" -> AddAll(b, "user", "user", Parts(item.blocks))
          [] item.role = "assistant" ->
               AddAll(b, "assistant", "assistant", TextBlocks(JoinTexts(item.blocks)))
          [] item.role = "function_call" ->
               AddAll(b, "assistant", "assistant", CallBlocks(item.blocks))
          [] item.role = "function_call_output" -> AddAll(b, "user:tool", "user", item.blocks)
          [] OTHER -> AddAll(b, "assistant", "assistant", item.blocks)
  IN  Built(FoldLeft(step, [NewBuilder EXCEPT !.system = request.system],
                        NormalizedItems(request)))

-----------------------------------------------------------------------------
(* To Responses.                                                           *)

MsgItem(role, blocks) == IF blocks = <<>> THEN <<>> ELSE <<Turn(role, blocks)>>
CallItem(block) == Turn("function_call", <<WithArgs(block)>>)

ChatToResponses(request) ==
  LET of(role) == SelectSeq(request.messages, LAMBDA m : m.role \in role)
      system   == of({"system", "developer"})
      items(m) ==
        IF m.role = "tool" THEN <<Turn("function_call_output", m.blocks)>>
        ELSE LET calls == OfKind(m.blocks, "tool_use")
             IN  MsgItem(m.role, Parts(SelectSeq(m.blocks, LAMBDA b : b.kind # "tool_use")))
                 \o [k \in DOMAIN calls |-> CallItem(calls[k])]
      turns == of({"user", "assistant", "tool"})
  IN  [system |-> [k \in DOMAIN system |-> JoinTexts(system[k].blocks)],
       messages |-> FlattenSeq([k \in DOMAIN turns |-> items(turns[k])])]

\* Text is flushed before a call or a result; thinking is omitted.
ClaudeToResponses(request) ==
  LET items(m) ==
        LET flush(acc) == [items |-> acc.items \o MsgItem(m.role, acc.parts), parts |-> <<>>]
            step(acc, b) ==
              CASE b.kind = "tool_use"    -> [flush(acc) EXCEPT !.items = Append(@, CallItem(b))]
                [] b.kind = "tool_result" ->
                     [flush(acc) EXCEPT !.items = Append(@, Turn("function_call_output", <<b>>))]
                [] b.kind = "thinking"    -> acc
                [] OTHER                  -> [acc EXCEPT !.parts = Append(@, b)]
        IN  flush(FoldLeft(step, [items |-> <<>>, parts |-> <<>>], m.blocks)).items
  IN  [system |-> request.system,
       messages |-> FlattenSeq([k \in DOMAIN request.messages |-> items(request.messages[k])])]

\* Reasoning is bound to the account that wrote it, and dropped.
FromResponsesNormalized(request) ==
  LET kept == SelectSeq(NormalizedItems(request), LAMBDA item : item.role # "reasoning")
  IN  [request EXCEPT !.messages = [k \in DOMAIN kept |->
         IF kept[k].role = "function_call" THEN CallItem(kept[k].blocks[1]) ELSE kept[k]]]

-----------------------------------------------------------------------------

BuildRequest(target, source, request) ==
  CASE target = "chat" ->
         CASE source = "openai" -> BuildOpenAIRequest(request)
           [] source = "claude" -> ClaudeToChat(request)
           [] OTHER             -> ResponsesToChat(request)
    [] target = "messages" ->
         CASE source = "openai" -> ChatToMessages(request)
           [] source = "claude" -> request
           [] OTHER             -> ResponsesToMessages(request)
    [] OTHER ->
         CASE source = "openai" -> ChatToResponses(request)
           [] source = "claude" -> ClaudeToResponses(request)
           [] OTHER             -> FromResponsesNormalized(request)
=============================================================================
