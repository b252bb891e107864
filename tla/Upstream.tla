------------------------------- MODULE Upstream -------------------------------
(***************************************************************************)
(* The upstream of one stream: the three protocols as the upstreams of the *)
(* repository's tests speak them.  This is not code of the repository.     *)
(*                                                                         *)
(* A response is a sequence of items: stretches of text, calls, and others *)
(* (thinking, reasoning).  Each operator gives the lines or frames that    *)
(* tell the next bit of it, as one network chunk.                          *)
(***************************************************************************)
EXTENDS Conversion, SequencesExt

CallIds == <<"call_1", "call_2", "call_3">>
ItemIds == <<"fc_1", "fc_2", "fc_3">>

NewItem(kind, call, name) ==
  [kind |-> kind, call |-> call, name |-> name, content |-> <<>>, closed |-> FALSE]

Silent == [begun |-> FALSE, items |-> <<>>, reason |-> NoReason, usage |-> {},
           stopped |-> FALSE]

CallItems(said) == SelectSeq(said.items, LAMBDA i : i.kind = "call")
HasCalls(said) == \E k \in DOMAIN said.items : said.items[k].kind = "call"
TextOf(said) ==
  FlattenSeq([k \in DOMAIN said.items |->
                IF said.items[k].kind = "text" THEN said.items[k].content ELSE <<>>])

-----------------------------------------------------------------------------
(* Opening.                                                                *)

OpeningUsage(usage) == [usage EXCEPT !.output = 0]

Opening(upstream, usage) ==
  CASE upstream = "chat"     -> <<RoleChunk>>
    [] upstream = "messages" -> <<MessageStart({OpeningUsage(usage)})>>
    [] OTHER                 -> <<Created>>

-----------------------------------------------------------------------------
(* The k-th item.  withIds: Responses items have an id of their own.       *)

ResponseItem(item, withIds) ==
  CASE item.kind = "text" -> Message(item.content)
    [] item.kind = "call" -> Item("function_call", CallIds[item.call],
                                  IF withIds THEN ItemIds[item.call] ELSE NoId,
                                  item.name, item.content)
    [] OTHER -> Item("reasoning", NoId, "rs", <<>>, <<>>)

\* The id by which the events of a Responses item refer to it.
EventId(item, withIds) ==
  IF item.kind # "call" THEN MessageId
  ELSE IF withIds THEN ItemIds[item.call] ELSE CallIds[item.call]

ItemStart(upstream, k, item, withIds) ==
  CASE upstream = "chat" ->
         IF item.kind = "call"
         THEN <<CallChunk(CCToolCallOpeningEntry(item.call - 1, CallIds[item.call],
                                                 item.name, item.content))>>
         ELSE IF item.kind = "text" THEN <<TextChunk(item.content)>> ELSE <<TextChunk(<<>>)>>
    [] upstream = "messages" ->
         <<ContentBlockStart(k - 1,
             CASE item.kind = "call" -> "tool_use" [] item.kind = "text" -> "text"
               [] OTHER -> "thinking",
             IF item.kind = "call" THEN CallIds[item.call] ELSE NoId, item.name)>>
    [] OTHER -> <<RawItemAdded(k - 1, ResponseItem(item, withIds))>>

Piece(upstream, k, item, piece, withIds) ==
  CASE upstream = "chat" ->
         IF item.kind = "call" THEN <<CallChunk(Continuation(item.call - 1, piece))>>
         ELSE <<TextChunk(piece)>>
    [] upstream = "messages" ->
         <<ContentBlockDelta(k - 1,
             CASE item.kind = "call" -> "input_json_delta" [] item.kind = "text" -> "text_delta"
               [] OTHER -> "thinking_delta", piece)>>
    [] OTHER ->
         <<IF item.kind = "call" THEN ArgsDelta(EventId(item, withIds), k - 1, piece)
           ELSE TextDelta(MessageId, k - 1, piece)>>

\* A Messages call without arguments has one empty fragment.
ItemEnd(upstream, k, item, withIds) ==
  CASE upstream = "chat"     -> <<>>
    [] upstream = "messages" ->
         (IF item.kind = "call" /\ item.content = <<>>
          THEN Piece(upstream, k, item, <<>>, withIds) ELSE <<>>)
         \o <<ContentBlockStop(k - 1)>>
    [] OTHER ->
         (CASE item.kind = "call" ->
                 <<ArgsDone(EventId(item, withIds), k - 1, item.content)>>
            [] item.kind = "text" ->
                 <<TextDone(MessageId, k - 1, item.content),
                   ContentPartDone(MessageId, k - 1, item.content)>>
            [] OTHER -> <<>>)
         \o <<ItemDone(k - 1, ResponseItem(item, withIds))>>

-----------------------------------------------------------------------------
(* The end.  Reasons are in the words of the upstream's protocol.          *)

Reasons(upstream, calls) ==
  CASE upstream = "chat"     -> IF calls THEN {"tool_calls", "length"}
                                ELSE {"stop", "length", "content_filter"}
    [] upstream = "messages" -> IF calls THEN {"tool_use", "max_tokens"}
                                ELSE {"end_turn", "max_tokens", "refusal"}
    [] OTHER                 -> {"completed", "incomplete"}

Truncated(reason) == reason \in {"length", "max_tokens", "incomplete"}

\* A Responses stream is over with this event, the others go on.
Ending(upstream, said, reason, usage, withIds) ==
  CASE upstream = "chat"     -> <<Finish(reason, said.usage)>>
    [] upstream = "messages" -> <<MessageDelta(reason, {[usage EXCEPT !.input = 0]})>>
    [] OTHER -> <<Completed(reason, usage,
                    [k \in DOMAIN said.items |-> ResponseItem(said.items[k], withIds)])>>

Trailer(usage) == [Frame(FALSE, <<>>, <<>>, NoReason, {usage}) EXCEPT !.choices = FALSE]

Stopping(upstream) ==
  IF upstream = "chat" THEN <<[type |-> "done"]>> ELSE <<MessageStop>>

Error == <<[type |-> "error"]>>
=============================================================================
