--------------------------- MODULE StreamConversion ---------------------------
(***************************************************************************)
(* One translated response stream: a client of one protocol, an upstream   *)
(* of another, and the adapter between them.  BuildRequest translates the  *)
(* tools of the request; the stream converter is then fed what the         *)
(* upstream sends, chunk by chunk, and flushed when the upstream closes    *)
(* the stream without its own end.  How events travel to the client and    *)
(* who closes the streams is StreamPump; here a chunk's events arrive as   *)
(* one, and none of them when the converter reports an error.              *)
(***************************************************************************)
EXTENDS Upstream, Client

CONSTANTS
  Upstreams,      \* protocols an upstream speaks: "chat", "messages", "responses"
  Sources,        \* protocols a client speaks: "openai", "claude", "openai-response"
  Requests,       \* requests of a Responses client
  Plain,          \* the request of the other clients
  Usages,         \* what an upstream may count
  Interleavings,  \* whether items are told in turns
  MaxItems,       \* items of a response
  MaxCalls,       \* calls among them
  MaxText         \* pieces of text

\* Counts of tokens, of which those of a cache may be absent.
IsUsage(usage) ==
  /\ usage \in [input : Nat, output : Nat, cached : SUBSET Nat, written : SUBSET Nat]
  /\ \A m, n \in usage.cached : m = n
  /\ \A m, n \in usage.written : m = n

ConversionAssumption ==
  /\ Upstreams \subseteq {"chat", "messages", "responses"}
  /\ Sources \subseteq {"openai", "claude", "openai-response"}
  /\ \A request \in Requests : WellFormed(request)
  /\ \A usage \in Usages : IsUsage(usage)
ASSUME ConversionAssumption

VARIABLES
  setting,   \* who talks to whom, and how
  sent,      \* the request as it went upstream
  said,      \* the response as the upstream has told it so far
  conv,      \* the stream converter
  client,    \* the client
  status     \* new, rejected, open, failed, done or closed

vars == <<setting, sent, said, conv, client, status>>

Chat      == INSTANCE ChatConverter
Messages  == INSTANCE MessagesConverter
Responses == INSTANCE ResponsesConverter

Settings ==
  [upstream : Upstreams, source : Sources, request : Requests \cup {Plain},
   strip : BOOLEAN, usage : Usages, interleaved : Interleavings, withIds : BOOLEAN]

\* Only what makes a difference varies; Messages blocks never overlap.
Distinct(s) ==
  /\ (s.request # Plain) = (s.source = "openai-response")
  /\ s.strip => s.source = "openai-response" /\ s.upstream # "responses"
  /\ s.withIds => s.upstream = "responses"
  /\ s.interleaved => s.upstream # "messages"

NewConverter(upstream, source, names) ==
  CASE upstream = "chat"     -> Chat!NewStreamConverter(source, names)
    [] upstream = "messages" -> Messages!NewStreamConverter(source, names)
    [] OTHER                 -> Responses!NewStreamConverter(source, names)

Native == setting.upstream = "responses"
Passthrough == <<setting.upstream, setting.source>> \in
  {<<"chat", "openai">>, <<"messages", "claude">>, <<"responses", "openai-response">>}

Init ==
  /\ setting \in {s \in Settings : Distinct(s)}
  /\ sent = Normalize(Plain, FALSE, FALSE)
  /\ said = Silent
  /\ conv = NewConverter(setting.upstream, setting.source, <<>>)
  /\ client = NewClient
  /\ status = "new"

\* BuildRequest and NewStreamConverter.  Only a Responses request has names
\* to restore; the tools of the others travel as they are.
Translate ==
  /\ status = "new"
  /\ sent' = Normalize(setting.request, setting.strip, Native)
  /\ status' = IF sent'.error THEN "rejected" ELSE "open"
  /\ conv' = NewConverter(setting.upstream, setting.source,
               IF setting.source = "openai-response" THEN sent'.names ELSE <<>>)
  /\ UNCHANGED <<setting, said, client>>

-----------------------------------------------------------------------------
(* What the pump does with a chunk.                                        *)

Feed(sc, line) ==
  CASE setting.upstream = "chat"     -> Chat!Feed(sc, line)
    [] setting.upstream = "messages" -> Messages!Feed(sc, line)
    [] OTHER                         -> Responses!Feed(sc, line)

\* The lines of a chunk, up to the end or an error.
FeedChunk(lines) ==
  FoldLeft(LAMBDA out, line :
             IF out.done \/ out.failed THEN out
             ELSE LET next == Feed(out.sc, line)
                  IN  [next EXCEPT !.events = out.events \o next.events],
           [sc |-> conv, events |-> <<>>, done |-> FALSE, failed |-> FALSE], lines)

Hear(events) == FoldLeft(LAMBDA c, e : Receive(setting.source, c, e), client, events)

\* The upstream says more, and the chunk goes through the converter.
Says(more, lines) ==
  \E out \in {FeedChunk(lines)} :
    /\ said' = more
    /\ conv' = out.sc
    /\ client' = IF out.failed THEN client ELSE Hear(out.events)
    /\ status' = IF out.failed THEN "failed" ELSE IF out.done THEN "done" ELSE status
    /\ UNCHANGED <<setting, sent>>

-----------------------------------------------------------------------------
(* The upstream.                                                           *)

Talking == status = "open" /\ said.begun /\ said.reason = NoReason

Told == Len(said.items)
SpokenText == TextOf(said)

\* The item may be told further: in turns only when items interleave.
Current(k) == ~said.items[k].closed /\ (setting.interleaved \/ k = Told)
Broken(item) == item.kind = "call" /\ item.content = <<"open">>

\* A new item may begin: one at a time unless they interleave, and none
\* after arguments that were cut short.
Ready ==
  /\ Talking /\ Told < MaxItems
  /\ \A k \in 1..Told : Broken(said.items[k]) => setting.interleaved /\ ~said.items[k].closed
  /\ setting.interleaved \/ setting.upstream = "chat" \/ \A k \in 1..Told : said.items[k].closed

Adds(item) ==
  Says([said EXCEPT !.items = Append(@, item)],
       ItemStart(setting.upstream, Told + 1, item, setting.withIds))

Opens ==
  /\ status = "open" /\ ~said.begun
  /\ Says([said EXCEPT !.begun = TRUE], Opening(setting.upstream, setting.usage))

\* A stretch of text.  In Chat Completions it begins with its first piece.
AddsText ==
  LET first == setting.upstream = "chat"
  IN  /\ Ready
      /\ first => Len(SpokenText) < MaxText
      /\ Told > 0 => said.items[Told].kind # "text" \/ setting.upstream = "messages"
      /\ Adds([NewItem("text", 0, <<>>) EXCEPT
                 !.content = IF first THEN <<Len(SpokenText) + 1>> ELSE <<>>])

\* The tools the upstream knows, by the name it knows them under.
Callable == IF setting.source = "openai-response" THEN DOMAIN conv.names
            ELSE {sent.tools[k] : k \in DOMAIN sent.tools}

\* A call, in Chat Completions and Responses with or without its arguments.
AddsCall ==
  \E name \in Callable, args \in {<<>>, Whole} :
    LET call == Len(CallItems(said)) + 1
    IN  /\ Ready /\ call <= MaxCalls
        /\ setting.upstream = "messages" => args = <<>>
        /\ Adds([NewItem("call", call, name) EXCEPT !.content = args])

\* Thinking or reasoning; an item of this kind has no pieces here.
AddsOther ==
  /\ Ready /\ Told = 0
  /\ Adds(NewItem("other", 0, <<>>))

\* The next piece of a text, or the next part of a call's arguments.
NextPiece(item) ==
  CASE item.kind = "text" -> <<Len(SpokenText) + 1>>
    [] item.kind = "call" /\ item.content = <<>>       -> <<"open">>
    [] item.kind = "call" /\ item.content = <<"open">> -> <<"close">>
    [] OTHER -> <<>>

Continues ==
  \E k \in 1..Told :
    LET item  == said.items[k]
        piece == NextPiece(item)
    IN  /\ Talking /\ Current(k) /\ piece # <<>>
        /\ item.kind = "text" => /\ Len(SpokenText) < MaxText
                                 /\ \A j \in k + 1..Told : said.items[j].kind # "text"
        /\ Says([said EXCEPT !.items[k].content = @ \o piece],
                Piece(setting.upstream, k, item, piece, setting.withIds))

\* The end of a block or an item.  A Responses item may bring all of its
\* arguments only now; arguments may be cut short by the limit on tokens.
EndsItem ==
  \E k \in 1..Told, late \in BOOLEAN :
    LET item == said.items[k]
        done == [item EXCEPT !.closed = TRUE, !.content = IF late THEN Whole ELSE @]
    IN  /\ Talking /\ Current(k)
        /\ setting.upstream # "chat"
        /\ late => setting.upstream = "responses" /\ item.kind = "call" /\ item.content = <<>>
        /\ Broken(item) => \A j \in 1..Told \ {k} : said.items[j].closed
        /\ Says([said EXCEPT !.items[k] = done],
                ItemEnd(setting.upstream, k, done, setting.withIds))

\* The reason of the end, with or without usage in Chat Completions.
Ends ==
  \E reason \in Reasons(setting.upstream, HasCalls(said)), counted \in BOOLEAN :
    LET more == [said EXCEPT !.reason = reason,
                             !.usage = IF counted THEN {setting.usage} ELSE {}]
    IN  /\ Talking
        /\ setting.upstream # "chat" =>
             counted /\ \A k \in 1..Told : said.items[k].closed
        /\ ~Truncated(reason) => \A k \in 1..Told : ~Broken(said.items[k])
        /\ Says(more, Ending(setting.upstream, more, reason, setting.usage, setting.withIds))

\* Chat Completions: usage in a chunk of its own.
Counts ==
  /\ status = "open" /\ setting.upstream = "chat"
  /\ said.reason # NoReason /\ said.usage = {} /\ ~said.stopped
  /\ Says([said EXCEPT !.usage = {setting.usage}], <<Trailer(setting.usage)>>)

\* The [DONE] line, or the message_stop event.
Stops ==
  /\ status = "open" /\ setting.upstream # "responses"
  /\ said.reason # NoReason
  /\ Says([said EXCEPT !.stopped = TRUE], Stopping(setting.upstream))

\* An error event in the stream.
Fails ==
  /\ status = "open" /\ ~said.stopped
  /\ Says([said EXCEPT !.stopped = TRUE], Error)

\* The upstream closes its stream before its own end: the converter is
\* flushed, if it can be.
Closes ==
  \E out \in {CASE setting.upstream = "chat"     -> Chat!Flush(conv)
               [] setting.upstream = "messages" -> Messages!Flush(conv)
               [] OTHER -> [sc |-> conv, events |-> <<>>]} :
    /\ status = "open"
    /\ status' = "closed"
    /\ conv' = out.sc
    /\ client' = Hear(out.events)
    /\ UNCHANGED <<setting, sent, said>>

Next ==
  \/ Translate
  \/ Opens \/ AddsText \/ AddsCall \/ AddsOther \/ Continues \/ EndsItem
  \/ Ends \/ Counts \/ Stops \/ Fails \/ Closes

Spec == Init /\ [][Next]_vars

-----------------------------------------------------------------------------
(* Properties.                                                             *)

\* The state has its type; in particular no block or item is open that the
\* client cannot find under its index.
TypeOK ==
  /\ setting \in Settings /\ Distinct(setting)
  /\ status \in {"new", "rejected", "open", "failed", "done", "closed"}
  /\ said.begun \in BOOLEAN /\ said.stopped \in BOOLEAN
  /\ said.usage \in SUBSET Usages
  /\ Told <= MaxItems /\ Len(SpokenText) <= MaxText
  /\ client.open \subseteq 0..Len(client.blocks) - 1
  /\ conv.source = setting.source

\* Every event keeps the rules of the client's protocol: blocks and items
\* are numbered in order, one Messages block is open at a time, deltas go to
\* a block of their kind, items are finished once and as they were streamed,
\* the terminal event lists them all, and nothing follows it.
ClientAccepts == client.fault = "none"

HeardArgs(call) ==
  IF call.custom /\ call.content = Input THEN Whole
  ELSE IF call.content = EmptyObject THEN <<>> ELSE call.content

spoken ==
  LET calls == CallItems(said)
  IN  [text |-> SpokenText,
       calls |-> [k \in DOMAIN calls |-> [id |-> CallIds[k], args |-> calls[k].content]],
       over |-> said.reason # NoReason]
heard ==
  [text |-> client.text,
   calls |-> [k \in DOMAIN client.calls |->
                [id |-> client.calls[k].id, args |-> HeardArgs(client.calls[k])]],
   over |-> client.ended]

Contract == INSTANCE ConversionContract WITH
  spoken <- spoken, heard <- heard, gone <- status \in {"closed", "failed"}

\* The converters implement the contract: no text and no arguments are lost,
\* repeated, reordered or made up, a fragment held back arrives before the
\* end, and the end is told only when nothing is missing.
ContractKept == Contract!Spec

\* What a reason means, in whatever protocol.
Meaning(reason) ==
  CASE Truncated(reason)                      -> "cut short"
    [] reason \in {"tool_calls", "tool_use"}  -> "calls"
    [] reason \in {"content_filter", "refusal"} -> "refused"
    [] OTHER                                  -> "finished"

\* The client of a converted stream learns why the response ended: that it
\* calls tools, was cut short, was refused, or is finished.  A Responses
\* client is told only whether it was cut short; calls outrank the other
\* reasons for the rest.
ReasonHonest ==
  client.ended /\ said.reason # NoReason /\ ~Passthrough =>
    Meaning(client.reason) =
      IF setting.source = "openai-response"
      THEN IF Truncated(said.reason) THEN "cut short" ELSE "finished"
      ELSE IF HasCalls(said) THEN "calls" ELSE Meaning(said.reason)

\* Once the upstream has given its reason, the client gets its terminal
\* event, even if the stream is closed before the upstream's own end.  Only
\* a Messages stream that passes verbatim stays as the upstream cut it.
EndsWithTerminal ==
  said.reason # NoReason /\ status \in {"done", "closed"}
    => client.ended \/ (setting.upstream = "messages" /\ setting.source = "claude")

\* All input tokens, those of a cache included.
TotalInput(messages, usage) ==
  usage.input + IF messages THEN ValueOrZero(usage.cached) + ValueOrZero(usage.written) ELSE 0
Consistent(usage) == usage.input >= ValueOrZero(usage.cached) + ValueOrZero(usage.written)
Reported == IF setting.upstream # "chat" THEN setting.usage
            ELSE IF said.usage = {} THEN NoUsage ELSE setting.usage

\* At no time has a client been told a count of tokens below zero, although
\* cached tokens are taken off an input count that may be lower than them, or
\* not have come at all when the stream is cut.
CountsNotNegative == client.usage.input \in Nat /\ client.usage.output \in Nat

\* The client's totals are the upstream's, although the protocols count
\* cached tokens differently and report usage at different moments; and no
\* count is below zero, even if the upstream's do not add up.
UsageKept ==
  /\ CountsNotNegative
  /\ client.ended /\ said.reason # NoReason /\ Consistent(setting.usage) =>
       /\ TotalInput(setting.source = "claude", client.usage)
            = TotalInput(setting.upstream = "messages", Reported)
       /\ client.usage.output = Reported.output

\* The same response, had it been asked for at once.
AtOnce ==
  LET calls == CallItems(said)
      chat  == [text |-> SpokenText,
                calls |-> [k \in DOMAIN calls |-> [id |-> CallIds[k], name |-> calls[k].name,
                                                   args |-> calls[k].content]],
                finish |-> said.reason, usage |-> said.usage]
      blocks == [k \in 1..Told |->
                   [kind |-> IF said.items[k].kind = "call" THEN "tool_use" ELSE said.items[k].kind,
                    id |-> IF said.items[k].kind = "call" THEN CallIds[said.items[k].call] ELSE NoId,
                    name |-> said.items[k].name, content |-> said.items[k].content]]
      messages  == [blocks |-> blocks, finish |-> said.reason, usage |-> setting.usage]
      responses == [output |-> [k \in 1..Told |-> ResponseItem(said.items[k], setting.withIds)],
                    status |-> said.reason, usage |-> setting.usage]
  IN  CASE setting.upstream = "chat" /\ setting.source = "claude" -> Chat!ChatToClaude(chat)
        [] setting.upstream = "chat" /\ setting.source # "claude" ->
             Chat!ChatToResponses(conv.names, chat)
        [] setting.upstream = "messages" /\ setting.source = "openai" ->
             Messages!ClaudeToChat(messages)
        [] setting.upstream = "messages" /\ setting.source # "openai" ->
             Messages!ClaudeToResponses(conv.names, messages)
        [] setting.upstream = "responses" /\ setting.source = "openai" ->
             Responses!ResponsesToChat(responses)
        [] OTHER -> Responses!ResponsesToClaude(responses)

SameCalls(streamed, whole) ==
  /\ Len(streamed) = Len(whole)
  /\ \A k \in DOMAIN whole : /\ streamed[k].id = whole[k].id
                             /\ streamed[k].name = whole[k].name
                             /\ DefaultArgs(streamed[k].content) = DefaultArgs(whole[k].args)

\* Output items are compared as the client holds them; where Messages text
\* stands among the calls is part of it.
SameOutput(output) ==
  LET calls == SelectSeq(output, LAMBDA i : i.type # "message")
      texts == SelectSeq(output, LAMBDA i : i.type = "message")
  IN  /\ client.text = FlattenSeq([k \in DOMAIN texts |-> texts[k].content])
      /\ client.calls = [k \in DOMAIN calls |->
           [id |-> calls[k].callId, name |-> calls[k].name, namespace |-> calls[k].namespace,
            custom |-> calls[k].type = "custom_tool_call", content |-> calls[k].content]]
      /\ setting.upstream = "messages" =>
           [k \in DOMAIN output |-> output[k].type]
             = [k \in DOMAIN client.blocks |-> client.blocks[k].kind]

\* A stream adds up to what the client would have got without streaming:
\* the same text, calls, reason and usage from two separate conversions.
ModeParity ==
  /\ client.ended /\ said.reason # NoReason
  /\ ~setting.interleaved /\ ~Passthrough
  /\ \A k \in 1..Told : ~Broken(said.items[k])
  => IF setting.source = "openai-response"
     THEN /\ AtOnce.status = client.reason /\ AtOnce.usage = client.usage
          /\ SameOutput(AtOnce.output)
     ELSE /\ AtOnce.reason = client.reason /\ AtOnce.usage = client.usage
          /\ AtOnce.text = client.text /\ SameCalls(client.calls, AtOnce.calls)

\* The identities a Responses request declares.
Declared == DeclaredBy(setting.request)

IdentityOf(call) == [name |-> call.name, namespace |-> call.namespace, custom |-> call.custom]

\* A call reaches the client under the identity of the one tool that the
\* name used upstream stands for.
IdentityRestored ==
  \A k \in DOMAIN client.calls :
    LET wire == CallItems(said)[k].name
    IN  IF setting.source = "openai-response"
        THEN {d \in Declared : QualifiedResponseToolName(d.name, d.namespace) = wire}
               = {IdentityOf(client.calls[k])}
        ELSE IdentityOf(client.calls[k]) = Identity(<<>>, wire)

\* An earlier call that the client sends back goes upstream under the very
\* name that is restored to its identity, and a tool that the client demands
\* is demanded of the upstream, which knows it.
ToolNamesRoundTrip ==
  status \notin {"new", "rejected"} /\ setting.source = "openai-response" =>
    /\ \A k \in DOMAIN sent.conversation :
         LET item     == setting.request.history[k]
             identity == [name |-> item.name, namespace |-> item.namespace,
                          custom |-> item.type = "custom_tool_call"]
         IN  identity \in Declared => Identity(sent.names, sent.conversation[k].name) = identity
    /\ setting.request.choice.kind \in {"function", "required"} =>
         sent.choice.kind = setting.request.choice.kind /\ sent.tools # <<>>
    /\ sent.choice.kind = "function" => sent.choice.name \in DOMAIN sent.names

\* All blocks of a request that are said in one of roles.
SaidBy(request, roles) ==
  FlattenSeq([k \in DOMAIN request.messages |->
    IF request.messages[k].role \in roles THEN request.messages[k].blocks ELSE <<>>])

\* The request repeats what was said and shows what the tools returned,
\* everything once and in order.
Repeats(request, images) ==
  LET own     == SaidBy(request, {"assistant", "function_call"})
      other   == SaidBy(request, {"user", "tool", "function_call_output"})
      calls   == OfKind(own, "tool_use")
      results == OfKind(other, "tool_result")
      system  == SaidBy(request, {"system"})
      shown   == {k \in DOMAIN results : Contains(results[k].content, "image")}
      beside  == OfKind(other, "image")
  IN  /\ JoinTexts(own) = SpokenText
      /\ [k \in DOMAIN calls |-> <<calls[k].id, calls[k].name, DefaultArgs(calls[k].content)>>]
           = [k \in DOMAIN CallItems(said) |->
                <<CallIds[k], CallItems(said)[k].name, DefaultArgs(CallItems(said)[k].content)>>]
      /\ [k \in DOMAIN results |-> <<results[k].id, TextOnly(results[k].content)>>]
           = [k \in DOMAIN calls |-> <<calls[k].id, <<"result">>>>]
      /\ JoinTexts(other) = <<"question", "next">>
      /\ request.system \o [k \in DOMAIN system |-> system[k].content] = <<<<"system">>>>
      /\ IF beside = <<>> THEN shown = images
         ELSE /\ shown = {}
              /\ [k \in DOMAIN beside |-> beside[k].id]
                   = SelectSeq(CallIds, LAMBDA id : \E k \in images : id = CallIds[k])

Ids(blocks) == {blocks[k].id : k \in DOMAIN blocks}

\* The rules of the protocols for the results of calls: the messages right
\* after the calls; the beginning of the next turn, where turns alternate;
\* anywhere after the call.
Answered(target, msgs) ==
  \A k \in DOMAIN msgs :
    LET calls == OfKind(msgs[k].blocks, "tool_use")
        n     == Len(calls)
    IN  CASE target = "chat" ->
               /\ k + n <= Len(msgs)
               /\ Ids(calls) = UNION {Ids(msgs[k + j].blocks) : j \in 1..n}
               /\ \A j \in 1..n : msgs[k + j].role = "tool"
          [] target = "messages" ->
               /\ msgs[k].role = IF k % 2 = 1 THEN "user" ELSE "assistant"
               /\ n > 0 => /\ k < Len(msgs)
                           /\ Ids(calls) = Ids(SubSeq(msgs[k + 1].blocks, 1, n))
          [] OTHER ->
               \A b \in DOMAIN calls : \E j \in k + 1..Len(msgs) : calls[b].id \in Ids(msgs[j].blocks)

\* responsesToChat gives each run of function calls a message of its own:
\* text after a call would stand between it and its result.
TextAfterCall ==
  \E j, k \in DOMAIN client.blocks :
    j < k /\ client.blocks[j].call > 0 /\ client.blocks[k].call = 0

\* A custom call without its input is not one a client can repeat.
Repeatable ==
  \A k \in DOMAIN client.calls : ~client.calls[k].custom \/ client.calls[k].content = Input

\* The client's next request carries the finished turn to any of the
\* upstreams: the same text, calls and arguments, under the names that
\* travel, every result with its call and where the protocol wants it.
HistoryReturns ==
  /\ client.ended /\ said.reason # NoReason
  /\ \A k \in 1..Told : ~Broken(said.items[k])
  /\ Repeatable
  => \A target \in Upstreams, images \in SUBSET DOMAIN client.calls :
       \A request \in {BuildRequest(target, setting.source,
                                    NextRequest(setting.source, client, images))} :
         /\ Repeats(request, images)
         /\ Answered(target, request.messages)
              \/ (target = "chat" /\ setting.source = "openai-response" /\ TextAfterCall)

\* Every Messages block is started, filled and stopped before the next: no
\* content arrives for a block that has been stopped.
BlocksPaired == ~client.stray
=============================================================================
