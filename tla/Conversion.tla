------------------------------ MODULE Conversion ------------------------------
(***************************************************************************)
(* internal/adapter/shared: what the three stream converters share.  The   *)
(* vocabulary of finish reasons, token usage, the events of the three      *)
(* client protocols, and the assembly of a Responses output array.         *)
(*                                                                         *)
(* Text is a sequence of pieces.  The arguments of a call are a JSON       *)
(* document: whole, cut after its first part, or absent.  Ids of the       *)
(* response and the model are copied by the code and left out; an absent   *)
(* optional field is the empty set.                                        *)
(***************************************************************************)
EXTENDS Integers, SequencesExt

NoReason == ""
NoNamespace == ""
NoId == ""
MessageId == "msg"

Whole == <<"open", "close">>         \* complete arguments
Input == <<"input">>                 \* the value of their "input" property
EmptyObject == <<"{}">>

Put(f, k, v) == [x \in DOMAIN f \cup {k} |-> IF x = k THEN v ELSE f[x]]

\* DefaultArgs: absent arguments are an empty object.
DefaultArgs(args) == IF args = <<>> THEN EmptyObject ELSE args

\* UnwrapCustomToolInput: what does not decode passes verbatim.
UnwrapCustomToolInput(args) == IF args = Whole THEN Input ELSE args

-----------------------------------------------------------------------------
(* Reasons.                                                                *)

ClaudeStopToFinish(stop) ==
  CASE stop = "tool_use"   -> "tool_calls"
    [] stop = "max_tokens" -> "length"
    [] stop = "refusal"    -> "content_filter"
    [] OTHER               -> "stop"

\* Fault: the table lost its last row.
FinishToClaudeStopNoRefusal(finish) ==
  CASE finish = "tool_calls" -> "tool_use"
    [] finish = "length"     -> "max_tokens"
    [] OTHER                 -> "end_turn"

FinishToClaudeStop(finish) ==
  CASE finish = "tool_calls"     -> "tool_use"
    [] finish = "length"         -> "max_tokens"
    [] finish = "content_filter" -> "refusal"
    [] OTHER                     -> "end_turn"

\* Observed calls outrank the reason derived from the status.
TerminalReason(toolCallsSeen, toolReason, statusReason) ==
  IF toolCallsSeen THEN toolReason ELSE statusReason

ResponseStatusFromCCFinish(finish) ==
  IF finish = "length" THEN "incomplete" ELSE "completed"
ResponseStatusFromClaudeStop(stop) ==
  IF stop = "max_tokens" THEN "incomplete" ELSE "completed"
CCFinishFromResponseStatus(status) ==
  IF status = "incomplete" THEN "length" ELSE "stop"
ClaudeStopFromResponseStatus(status) ==
  IF status = "incomplete" THEN "max_tokens" ELSE "end_turn"

-----------------------------------------------------------------------------
(* Usage.  One record serves the three vocabularies; what its input counts *)
(* differs: Chat Completions and Responses include cached tokens in it,    *)
(* Messages does not.                                                      *)

ValueOrZero(opt) == IF opt = {} THEN 0 ELSE Max(opt)

\* Fault: the difference is not clamped.
Subtract(value, read, written) == value - ValueOrZero(read) - ValueOrZero(written)

ClampSubtract(value, read, written) ==
  Max({0, value - ValueOrZero(read) - ValueOrZero(written)})

NoUsage == [input |-> 0, output |-> 0, cached |-> {}, written |-> {}]

ClaudeUsage(input, output, read, written) ==
  [input |-> input, output |-> output, cached |-> read, written |-> written]

NewResponsesUsageFrom(input, output, read, written) ==
  [input |-> input, output |-> output, cached |-> read, written |-> written]

\* Chat Completions has no field for tokens written to a cache.
CCUsageFrom(prompt, completion, read) ==
  [input |-> prompt, output |-> completion, cached |-> read, written |-> {}]

-----------------------------------------------------------------------------
(* Chat Completions chunks.                                                *)

Frame(role, content, calls, finish, usage) ==
  [type |-> "chunk", choices |-> TRUE, role |-> role, content |-> content,
   calls |-> calls, finish |-> finish, usage |-> usage]

RoleChunk            == Frame(TRUE, <<>>, <<>>, NoReason, {})
TextChunk(text)      == Frame(FALSE, text, <<>>, NoReason, {})
CallChunk(entry)     == Frame(FALSE, <<>>, <<entry>>, NoReason, {})
Finish(reason, usage) == Frame(FALSE, <<>>, <<>>, reason, usage)

\* The first entry of a call carries its id and name, the others do not.
CCToolCallOpeningEntry(index, id, name, args) ==
  [index |-> index, id |-> id, name |-> name, args |-> args]
Continuation(index, args) ==
  [index |-> index, id |-> NoId, name |-> <<>>, args |-> args]

-----------------------------------------------------------------------------
(* Messages events.                                                        *)

MessageStart(usage) == [type |-> "message_start", usage |-> usage]
ContentBlockStart(index, kind, id, name) ==
  [type |-> "content_block_start", index |-> index, kind |-> kind,
   id |-> id, name |-> name]
ContentBlockDelta(index, delta, piece) ==
  [type |-> "content_block_delta", index |-> index, delta |-> delta, piece |-> piece]
ContentBlockStop(index) == [type |-> "content_block_stop", index |-> index]
MessageDelta(reason, usage) ==
  [type |-> "message_delta", reason |-> reason, usage |-> usage]
MessageStop == [type |-> "message_stop"]

-----------------------------------------------------------------------------
(* Responses events.  The content of an item is the text of a message, the *)
(* arguments of a function call or the input of a custom call.             *)

Item(type, callId, id, name, content) ==
  [type |-> type, callId |-> callId, id |-> id, name |-> name,
   namespace |-> NoNamespace, content |-> content]

Message(text) == Item("message", NoId, MessageId, <<>>, text)
FunctionCall(callId, name, args) == Item("function_call", callId, NoId, name, args)

About(type, id, index, content) ==
  [type |-> type, id |-> id, index |-> index, content |-> content]

Created == [type |-> "response.created"]
RawItemAdded(index, item) ==
  [type |-> "response.output_item.added", index |-> index, item |-> item]
ItemDone(index, item) ==
  [type |-> "response.output_item.done", index |-> index, item |-> item]
TextDelta(id, index, piece) == About("response.output_text.delta", id, index, piece)
TextDone(id, index, text) == About("response.output_text.done", id, index, text)
ContentPartDone(id, index, text) == About("response.content_part.done", id, index, text)
ArgsDelta(id, index, piece) ==
  About("response.function_call_arguments.delta", id, index, piece)
ArgsDone(id, index, args) ==
  About("response.function_call_arguments.done", id, index, args)
InputDelta(id, index, piece) ==
  About("response.custom_tool_call_input.delta", id, index, piece)
InputDone(id, index, input) ==
  About("response.custom_tool_call_input.done", id, index, input)
Completed(status, usage, output) ==
  [type |-> "response.completed", status |-> status, usage |-> {usage},
   output |-> output]

-----------------------------------------------------------------------------
(* Tool identities of a request, by the name that travels upstream.        *)

Identity(names, name) ==
  IF name \in DOMAIN names THEN names[name]
  ELSE [name |-> name, namespace |-> NoNamespace, custom |-> FALSE]

\* ResponseTools.RestoreCall: an item under its declared name and type.
RestoreCall(names, item) ==
  LET identity == Identity(names, item.name)
  IN  IF item.type # "function_call" THEN item
      ELSE [item EXCEPT
              !.name = identity.name,
              !.namespace = identity.namespace,
              !.type = IF identity.custom THEN "custom_tool_call" ELSE @,
              !.content = IF identity.custom THEN UnwrapCustomToolInput(@) ELSE @]

ItemAdded(names, index, item) == RawItemAdded(index, RestoreCall(names, item))

\* Fault: custom input is sent again with each fragment.
ToolDeltaRepeated(names, id, index, name, fragment, accumulated, emitted) ==
  IF ~Identity(names, name).custom
  THEN [events |-> <<ArgsDelta(id, index, fragment)>>, emitted |-> emitted]
  ELSE [events |-> <<InputDelta(id, index, UnwrapCustomToolInput(accumulated))>>,
        emitted |-> emitted]

\* Fragments of a function call pass; custom input is held back until the
\* arguments decode, then only what was not sent yet goes out.
ToolDelta(names, id, index, name, fragment, accumulated, emitted) ==
  LET input == UnwrapCustomToolInput(accumulated)
  IN  IF ~Identity(names, name).custom
      THEN [events |-> <<ArgsDelta(id, index, fragment)>>, emitted |-> emitted]
      ELSE IF input = accumulated \/ emitted >= Len(input)
      THEN [events |-> <<>>, emitted |-> emitted]
      ELSE [events |-> <<InputDelta(id, index, SubSeq(input, emitted + 1, Len(input)))>>,
            emitted |-> Len(input)]

ToolDone(index, item) ==
  IF item.type = "custom_tool_call"
  THEN <<InputDone(item.callId, index, item.content), ItemDone(index, item)>>
  ELSE <<ArgsDone(item.callId, index, item.content), ItemDone(index, item)>>

MessageDone(index, item) ==
  <<TextDone(item.id, index, item.content), ContentPartDone(item.id, index, item.content),
    ItemDone(index, item)>>

\* Completion events of the items of a finished output array, in its order.
ItemsDone(items) ==
  LET complete(done, k) == done \o (IF items[k].type = "message"
                                    THEN MessageDone(k - 1, items[k])
                                    ELSE ToolDone(k - 1, items[k]))
  IN  FoldLeftDomain(complete, <<>>, items)

-----------------------------------------------------------------------------
(* OutputAssembler: ONE message with all the text, and the calls.          *)

NewOutputAssembler(names) ==
  [names |-> names, items |-> <<>>, textSlot |-> 0, text |-> <<>>]

\* The slot is taken by a placeholder until Render.
ReserveTextSlot(oa) ==
  IF oa.textSlot > 0 THEN oa
  ELSE [oa EXCEPT !.textSlot = Len(oa.items) + 1, !.items = Append(@, Message(<<>>))]

AddText(oa, text) == [oa EXCEPT !.text = @ \o text]

AppendFunctionCall(oa, id, name, args) ==
  [oa EXCEPT !.items = Append(@, RestoreCall(oa.names, FunctionCall(id, name, args)))]

Render(oa) ==
  IF oa.textSlot > 0 THEN [oa.items EXCEPT ![oa.textSlot] = Message(oa.text)]
  ELSE IF oa.text # <<>> THEN <<Message(oa.text)>> \o oa.items
  ELSE oa.items
=============================================================================
