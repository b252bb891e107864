------------------------ MODULE StreamConversionProofs ------------------------
(***************************************************************************)
(* Every client hears the end of a converted stream, it is told honestly   *)
(* why the response ended, and it is told what the upstream counted.       *)
(*                                                                         *)
(* EndTold is the inductive invariant: what the client knows is a part of  *)
(* the verdict, which is what the upstream has told in the client's words, *)
(* and the converter holds whatever the client still has to be told.       *)
(***************************************************************************)
EXTENDS ConverterProofs

-----------------------------------------------------------------------------
(* A chunk, and what the client hears of it.                               *)

LEMMA EventsFollow ==
  ASSUME NEW source, NEW v, NEW events, Events(source, {v}, events),
         NEW c, IsClient(c), Knows(c, v), NEW d, d = Folded("events", c, events, source)
  PROVE  /\ Follows(v, c, d)
         /\ Concluded(source, events) => d.ended
         /\ Informed(source, events) => Is(d, v.after)
<1>1. PICK X : events \in Seq(X) /\ \A e \in X : Readable(source, {v}, e)
  BY DEF Events
<1>2. PICK N \in Nat : N = Len(events) /\ DOMAIN events = 1..N
  BY <1>1
<1>3. PICK g : Rounds(g, "events", c, events, source) /\ d = g[N]
  BY <1>1, <1>2, FoldRounds
<1>4. g[0] = c /\ \A n \in 1..N : g[n] = Receive(source, g[n - 1], events[n])
  BY <1>2, <1>3 DEF Rounds, Round
<1> DEFINE T == {n \in 0..N :
                   /\ Follows(v, c, g[n])
                   /\ (\E i \in 1..n : Final(source, events[i])) => g[n].ended
                   /\ (\E i \in 1..n : Informs(source, events[i])) => Is(g[n], v.after)}
<1>5. 0 \in T
  BY <1>4 DEF Follows
<1>6. ASSUME NEW n \in 0..N, n \in T, n < N
      PROVE  n + 1 \in T
  <2>1. n \in Nat /\ n + 1 \in 1..N /\ n + 1 \in 0..N /\ (n + 1) - 1 = n
    BY <1>6
  <2>2. PICK m : m = n + 1
    OBVIOUS
  <2>3. PICK e : e = events[m]
    OBVIOUS
  <2>4. Readable(source, {v}, e)
    <3>1. e \in X
      BY <1>1, <1>2, <2>1, <2>2, <2>3
    <3>2. QED
      BY <1>1, <3>1, Zenon
  <2>5. g[m] = Receive(source, g[n], e)
    BY <1>4, <2>1, <2>2, <2>3
  <2>6. /\ Follows(v, c, g[n])
        /\ (\E i \in 1..n : Final(source, events[i])) => g[n].ended
        /\ (\E i \in 1..n : Informs(source, events[i])) => Is(g[n], v.after)
    BY <1>6
  <2>7. /\ Follows(v, g[n], g[m])
        /\ Final(source, e) => g[m].ended
        /\ Informs(source, e) => Is(g[m], v.after)
    <3>1. IsClient(g[n]) /\ Knows(g[n], v)
      BY <2>6 DEF Follows
    <3>2. QED
      BY <2>4, <2>5, <3>1, ReceiveFollows
  <2>8. Follows(v, c, g[m])
    BY <2>6, <2>7 DEF Follows
  <2>9. ASSUME NEW i \in 1..m, Final(source, events[i])
        PROVE  g[m].ended
    <3>1. i = m \/ i \in 1..n
      BY <2>1, <2>2
    <3>2. QED
      BY <2>3, <2>6, <2>7, <2>9, <3>1 DEF Follows
  <2>10. ASSUME NEW i \in 1..m, Informs(source, events[i])
         PROVE  Is(g[m], v.after)
    <3>1. i = m \/ i \in 1..n
      BY <2>1, <2>2
    <3>2. QED
      BY <2>3, <2>6, <2>7, <2>10, <3>1 DEF Follows
  <2>11. QED
    BY <2>1, <2>2, <2>8, <2>9, <2>10
<1> HIDE DEF T
<1>7. N \in T
  <2>1. \A n \in 0..N : n \in T /\ n < N => n + 1 \in T
    BY <1>6
  <2>2. \A n \in 0..N : n \in T
    BY <1>5, <2>1, IntervalInduction
  <2>3. QED
    BY <2>2
<1>8. /\ Follows(v, c, d)
      /\ (\E i \in 1..N : Final(source, events[i])) => d.ended
      /\ (\E i \in 1..N : Informs(source, events[i])) => Is(d, v.after)
  BY <1>3, <1>7 DEF T
<1>9. QED
  BY <1>2, <1>8 DEF Concluded, Informed

\* What an upstream sends while it talks: nothing of the end, nor of the beginning.
Idle(upstream, line) ==
  CASE upstream = "chat"     -> IsChunk(line) /\ line.finish = NoReason /\ line.usage = {}
    [] upstream = "messages" ->
         /\ line.type \in {"content_block_start", "content_block_delta", "content_block_stop"}
         /\ IsFrame(line)
    [] OTHER                 -> line.type \notin {"response.created", "response.completed"}

\* The line that begins a call, of which a converter that does not pass the stream on as it
\* is takes note.
Announces(upstream, line) ==
  CASE upstream = "chat"     -> line.calls # <<>> /\ line.choices
    [] upstream = "messages" -> line.type = "content_block_start" /\ line.kind = "tool_use"
    [] OTHER -> line.type = "response.output_item.added" /\ line.item.type = "function_call"
Converts(upstream, source) ==
  CASE upstream = "chat"     -> source # "openai"
    [] upstream = "messages" -> source # "claude"
    [] OTHER                 -> source # "openai-response"

\* Then the converter of a Chat Completions stream has begun, and holds no reason.
Underway(upstream, sc) ==
  upstream = "chat" /\ sc.source # "openai" => sc.started /\ sc.heldFinish = NoReason

LEMMA CountingTalks ==
  ASSUME NEW sc, IsMessages(sc), NEW ev, Idle("messages", ev), NEW base, base = Counting(sc, ev)
  PROVE  /\ SameCounts(sc, base)
         /\ sc.toolsSeen = TRUE => base.toolsSeen = TRUE
         /\ base.toolsSeen = TRUE => sc.toolsSeen = TRUE \/ Carries("messages", ev)
<1>1. CASE sc.source # "claude" /\ ev.type = "content_block_start"
  <2>1. base = Watched(sc, ev)
    BY <1>1 DEF Counting
  <2>2. QED
    BY <1>1, <2>1 DEF Watched, SameCounts, IsMessages, Carries
<1>2. CASE sc.source = "claude" \/ ev.type # "content_block_start"
  <2>1. base = sc
    BY <1>2 DEF Counting, Idle
  <2>2. QED
    BY <2>1 DEF SameCounts
<1>3. QED
  BY <1>1, <1>2

LEMMA EntriesAreSeq == ASSUME NEW calls, AtMostOne(calls) PROVE IsSeq(calls)
BY EmptyIsSeq, SingleIsSeq DEF AtMostOne

LEMMA IdleTalks ==
  ASSUME NEW upstream, NEW sc, IsConverter(upstream, sc), KnownSource(sc.source),
         Underway(upstream, sc), NEW line, Idle(upstream, line),
         NEW out, out = FeedBy(upstream, sc, line)
  PROVE  /\ DOMAIN out = {"sc", "events", "done", "failed"}
         /\ Kept(upstream, sc, out.sc)
         /\ Seen(upstream, out.sc) => Seen(upstream, sc) \/ Carries(upstream, line)
         /\ Announces(upstream, line) /\ Converts(upstream, sc.source) => Seen(upstream, out.sc)
         /\ \A v : Events(sc.source, {v}, out.events)
<1>1. CASE upstream = "chat"
  <2>1. /\ out = Chat!Feed(sc, line) /\ IsChat(sc)
        /\ IsChunk(line) /\ line.finish = NoReason /\ line.usage = {}
    BY <1>1 DEF FeedBy, IsConverter, Idle
  <2>2. sc.source # "openai" => sc.started /\ sc.heldFinish = NoReason
    BY <1>1 DEF Underway
  <2>3. PICK d : d = Chat!Decoded(sc, line)
    OBVIOUS
  <2>4. d = sc
    BY <2>1, <2>3 DEF Chat!Decoded
  <2>5. ASSUME NEW v
        PROVE  /\ DOMAIN out = {"sc", "events", "done", "failed"}
               /\ Events(sc.source, {v}, out.events)
               /\ sc.source = "openai" => out.sc = sc
               /\ sc.source # "openai" => Noted(sc, out.sc, line)
               /\ sc.source = "claude" => (out.sc.terminalSent <=> Due(sc))
    <3>1. Agreed(v, d) /\ (sc.source = "claude" => Early(sc, line, v))
      BY <2>2, <2>4 DEF Agreed, Early, KnownSource
    <3>2. sc.source = "openai" => Readable("openai", {v}, line)
      BY <2>1, EntriesAreSeq DEF IsChunk, Readable, Mute
    <3>3. sc.source = "claude" => Early(sc, line, v)
      BY <3>1
    <3>4. Agreed(v, d) /\ d = Chat!Decoded(sc, line) /\ out = Chat!Feed(sc, line)
      BY <2>1, <2>3, <3>1
    <3>5. /\ DOMAIN out = {"sc", "events", "done", "failed"}
          /\ Events(sc.source, {v}, out.events)
          /\ sc.source = "openai" => out.events = <<line>> /\ out.sc = sc
          /\ sc.source # "openai" => Noted(d, out.sc, line)
          /\ sc.source = "claude" => (out.sc.terminalSent <=> Due(sc))
      BY <2>1, <3>2, <3>3, <3>4, ChatFeedTells
    <3>6. QED
      BY <2>4, <3>5
  <2>6. /\ sc.source = "openai" => out.sc = sc
        /\ sc.source # "openai" => Noted(sc, out.sc, line)
        /\ sc.source = "claude" => (out.sc.terminalSent <=> Due(sc))
        /\ DOMAIN out = {"sc", "events", "done", "failed"}
    BY <2>5
  <2>7. IsChat(out.sc) /\ out.sc.source = sc.source /\ SameHold(sc, out.sc)
    <3>1. CASE sc.source = "openai"
      BY <2>1, <2>6, <3>1 DEF SameHold
    <3>2. CASE sc.source # "openai"
      BY <2>1, <2>2, <2>6, <3>2 DEF SameHold, Noted, Due
    <3>3. QED
      BY <3>1, <3>2
  <2>8. /\ Seen(upstream, sc) => Seen(upstream, out.sc)
        /\ Seen(upstream, out.sc) => Seen(upstream, sc) \/ Carries(upstream, line)
        /\ Announces(upstream, line) /\ Converts(upstream, sc.source) => Seen(upstream, out.sc)
    BY <1>1, <2>6 DEF Seen, Carries, Noted, Learns, Announces, Converts
  <2>9. Kept(upstream, sc, out.sc)
    BY <1>1, <2>7, <2>8 DEF Kept, IsConverter
  <2>10. QED
    BY <2>5, <2>6, <2>8, <2>9
<1>2. CASE upstream = "messages"
  <2>1. out = Messages!Feed(sc, line) /\ IsMessages(sc) /\ Idle("messages", line) /\ IsFrame(line)
    BY <1>2 DEF FeedBy, IsConverter, Idle
  <2>2. line.type \in {"content_block_start", "content_block_delta", "content_block_stop"}
    BY <2>1 DEF Idle
  <2>3. PICK base : base = Counting(sc, line)
    OBVIOUS
  <2>4. Tidings(sc, {}, line)
    BY <2>2 DEF Tidings, Readable, Mute
  <2>5. /\ DOMAIN out = {"sc", "events", "done", "failed"}
        /\ SameStream(base, out.sc) /\ Events(sc.source, {}, out.events)
    BY <2>1, <2>2, <2>3, <2>4, MessagesFeedTells
  <2>6. /\ SameCounts(sc, base)
        /\ sc.toolsSeen = TRUE => base.toolsSeen = TRUE
        /\ base.toolsSeen = TRUE => sc.toolsSeen = TRUE \/ Carries("messages", line)
    BY <2>1, <2>3, CountingTalks
  <2>7. SameCounts(sc, out.sc) /\ out.sc.toolsSeen = base.toolsSeen
    BY <2>5, <2>6 DEF SameStream, SameCounts
  <2>8. Kept(upstream, sc, out.sc)
    BY <1>2, <2>6, <2>7 DEF Kept, IsConverter, SameCounts, Seen
  <2>9. Seen(upstream, out.sc) => Seen(upstream, sc) \/ Carries(upstream, line)
    BY <1>2, <2>6, <2>7 DEF Seen
  <2>10. Announces(upstream, line) /\ Converts(upstream, sc.source) => Seen(upstream, out.sc)
    BY <1>2, <2>1, <2>3, <2>7 DEF Announces, Converts, Counting, Watched, Seen, IsMessages
  <2>11. QED
    BY <2>5, <2>8, <2>9, <2>10, MuteEvents
<1>3. CASE upstream \notin {"chat", "messages"}
  <2>1. /\ out = Responses!Feed(sc, line) /\ IsResponses(sc)
        /\ line.type \notin {"response.created", "response.completed"}
    BY <1>3 DEF FeedBy, IsConverter, Idle
  <2>2. PICK base : base = Heeded(sc, line)
    OBVIOUS
  <2>3. /\ DOMAIN out = {"sc", "events", "done", "failed"}
        /\ SameSource(base, out.sc) /\ Events(sc.source, {}, out.events)
    BY <2>1, <2>2, ResponsesFeedTells
  <2>4. /\ base.source = sc.source
        /\ sc.toolCallsSeen = TRUE => base.toolCallsSeen = TRUE
        /\ base.toolCallsSeen = TRUE => sc.toolCallsSeen = TRUE \/ Carries(upstream, line)
    BY <1>3, <2>1, <2>2 DEF Heeded, IsResponses, Carries
  <2>5. Kept(upstream, sc, out.sc)
    BY <1>3, <2>3, <2>4 DEF Kept, IsConverter, SameSource, Seen
  <2>6. Seen(upstream, out.sc) => Seen(upstream, sc) \/ Carries(upstream, line)
    BY <1>3, <2>3, <2>4 DEF Seen, SameSource
  <2>7. Announces(upstream, line) /\ Converts(upstream, sc.source) => Seen(upstream, out.sc)
    BY <1>3, <2>1, <2>2, <2>3 DEF Announces, Converts, Heeded, Seen, SameSource, IsResponses
  <2>8. QED
    BY <2>3, <2>5, <2>6, <2>7, MuteEvents
<1>4. QED
  BY <1>1, <1>2, <1>3

\* A chunk of such lines, up to the end or an error.
Chunk(upstream, sc, lines) ==
  Folded("lines", [sc |-> sc, events |-> <<>>, done |-> FALSE, failed |-> FALSE], lines,
         [upstream |-> upstream, conv |-> sc, lines |-> lines])

LEMMA ChunkTalks ==
  ASSUME NEW upstream, NEW sc, IsConverter(upstream, sc), KnownSource(sc.source),
         Underway(upstream, sc),
         NEW lines, IsSeq(lines), \A i \in DOMAIN lines : Idle(upstream, lines[i])
  PROVE  Talks(upstream, sc, lines, Chunk(upstream, sc, lines))
<1>1. PICK p : p = [upstream |-> upstream, conv |-> sc, lines |-> lines]
  OBVIOUS
<1>2. PICK base : base = [sc |-> sc, events |-> <<>>, done |-> FALSE, failed |-> FALSE]
  OBVIOUS
<1>3. Good("lines", base, p)
  <2>1. \A v : Events(sc.source, {v}, <<>>)
    BY NoEvents
  <2>2. Kept(upstream, sc, sc)
    <3>1. IsMessages(sc) => SameCounts(sc, sc)
      BY DEF SameCounts
    <3>2. QED
      BY <3>1 DEF Kept, SameHold, IsConverter
  <2>3. Talks(upstream, sc, lines, base)
    BY <1>2, <2>1, <2>2 DEF Talks
  <2>4. QED
    BY <1>1, <2>3 DEF Good
<1>4. ASSUME NEW i \in DOMAIN lines
      PROVE  Keeps("lines", lines[i], p)
  <2>1. PICK line : line = lines[i]
    OBVIOUS
  <2>2. ASSUME NEW acc, Talks(upstream, sc, lines, acc)
        PROVE  Talks(upstream, sc, lines, Fed(acc, line, p))
    <3>1. CASE acc.done \/ acc.failed
      BY <2>2, <3>1 DEF Fed
    <3>2. CASE ~(acc.done \/ acc.failed)
      <4>1. PICK next : next = FeedBy(upstream, acc.sc, line)
        OBVIOUS
      <4>2. Fed(acc, line, p) = [next EXCEPT !.events = acc.events \o next.events]
        BY <1>1, <3>2, <4>1 DEF Fed
      <4>3. /\ IsConverter(upstream, acc.sc) /\ acc.sc.source = sc.source
            /\ Kept(upstream, sc, acc.sc)
        BY <2>2 DEF Talks, Kept
      <4>4. Underway(upstream, acc.sc)
        BY <4>3 DEF Underway, Kept, SameHold
      <4>5. Idle(upstream, line)
        BY <2>1
      <4>6. /\ DOMAIN next = {"sc", "events", "done", "failed"}
            /\ Kept(upstream, acc.sc, next.sc)
            /\ Seen(upstream, next.sc) => Seen(upstream, acc.sc) \/ Carries(upstream, line)
            /\ \A v : Events(acc.sc.source, {v}, next.events)
        BY <4>1, <4>3, <4>4, <4>5, IdleTalks
      <4>7. \A v : Events(sc.source, {v}, acc.events \o next.events)
        BY <2>2, <4>3, <4>6, MoreEvents DEF Talks
      <4>8. Kept(upstream, sc, next.sc)
        BY <4>3, <4>6 DEF Kept, SameHold, SameCounts
      <4>9. Seen(upstream, next.sc) =>
              Seen(upstream, sc) \/ \E j \in DOMAIN lines : Carries(upstream, lines[j])
        BY <2>1, <2>2, <4>6 DEF Talks
      <4>10. QED
        BY <4>2, <4>6, <4>7, <4>8, <4>9 DEF Talks
    <3>3. QED
      BY <3>1, <3>2
  <2>3. QED
    BY <1>1, <2>1, <2>2 DEF Keeps, Good, Round
<1>5. Bounded(DOMAIN lines)
  BY ListBounded
<1>6. Good("lines", Folded("lines", base, lines, p), p)
  BY <1>3, <1>4, <1>5, FoldKeeps
<1>7. QED
  BY <1>1, <1>2, <1>6 DEF Good, Chunk

\* A chunk of one line, whatever the line.
LEMMA ChunkOfOne ==
  ASSUME NEW upstream, NEW sc, NEW line, NEW next, next = FeedBy(upstream, sc, line),
         DOMAIN next = {"sc", "events", "done", "failed"},
         NEW source, NEW V, Events(source, V, next.events),
         NEW out, out = Chunk(upstream, sc, <<line>>)
  PROVE  /\ out.sc = next.sc /\ out.events = next.events
         /\ out.done = next.done /\ out.failed = next.failed
<1>1. PICK lines : lines = <<line>>
  OBVIOUS
<1>2. PICK p : p = [upstream |-> upstream, conv |-> sc, lines |-> lines]
  OBVIOUS
<1>3. PICK base : base = [sc |-> sc, events |-> <<>>, done |-> FALSE, failed |-> FALSE]
  OBVIOUS
<1>4. out = Round("lines", base, line, p)
  BY <1>1, <1>2, <1>3, FoldOfOne DEF Chunk
<1>5. out = [next EXCEPT !.events = <<>> \o next.events]
  BY <1>2, <1>3, <1>4 DEF Round, Fed
<1>6. <<>> \o next.events = next.events
  <2>1. PICK Y : next.events \in Seq(Y)
    BY DEF Events
  <2>2. QED
    BY <2>1
<1>7. QED
  BY <1>5, <1>6

\* An error in the stream of Chat Completions.
LEMMA ChatErrorPasses ==
  ASSUME NEW sc, IsChat(sc), KnownSource(sc.source), NEW line, line.type = "error",
         NEW out, out = Chat!Feed(sc, line)
  PROVE  /\ DOMAIN out = {"sc", "events", "done", "failed"}
         /\ out.sc = sc /\ out.done = sc.done /\ Events(sc.source, {}, out.events)
         /\ ~out.failed => sc.source = "openai"
<1>1. CASE sc.source = "openai"
  <2>1. out = [sc |-> sc, events |-> <<line>>, done |-> sc.done, failed |-> FALSE]
    BY <1>1 DEF Chat!Feed, Chat!Result
  <2>2. Events(sc.source, {}, <<line>>)
    BY <1>1, OneEvent DEF Readable, Mute
  <2>3. QED
    BY <1>1, <2>1, <2>2
<1>2. CASE sc.source # "openai"
  <2>1. out = [sc |-> sc, events |-> <<>>, done |-> sc.done, failed |-> TRUE]
    BY <1>2 DEF Chat!Feed, Chat!Result, Chat!Quiet
  <2>2. QED
    BY <2>1, NoEvents
<1>3. QED
  BY <1>1, <1>2

-----------------------------------------------------------------------------
(* What the upstream sends while it talks.                                 *)

\* Of a line about an item, only one about a call has a call.
Concerns(upstream, line, item) ==
  Idle(upstream, line) /\ (Carries(upstream, line) => item.kind = "call")

LEMMA TextChunkIdle ==
  ASSUME NEW text, NEW line, line = TextChunk(text)
  PROVE  Idle("chat", line) /\ ~Carries("chat", line)
BY DEF Idle, IsChunk, AtMostOne, Carries, TextChunk, Frame

LEMMA CallChunkIdle ==
  ASSUME NEW entry, NEW line, line = CallChunk(entry)
  PROVE  Idle("chat", line) /\ Announces("chat", line)
<1>1. line.calls = <<entry>> /\ <<entry>> # <<>>
  BY DEF CallChunk, Frame
<1>2. QED
  BY <1>1 DEF Idle, IsChunk, AtMostOne, Announces, CallChunk, Frame

LEMMA ResponseItemKind ==
  ASSUME NEW item, NEW withIds, NEW r, r = ResponseItem(item, withIds)
  PROVE  r.type = "function_call" <=> item.kind = "call"
<1>1. CASE item.kind = "text"
  BY <1>1 DEF ResponseItem, Message, Item
<1>2. CASE item.kind = "call"
  <2>1. r.type = "function_call"
    BY <1>2 DEF ResponseItem, Item
  <2>2. QED
    BY <1>2, <2>1
<1>3. CASE item.kind \notin {"text", "call"}
  BY <1>3 DEF ResponseItem, Item
<1>4. QED
  BY <1>1, <1>2, <1>3

LEMMA ItemStartIdle ==
  ASSUME NEW upstream, NEW k \in Nat \ {0}, NEW item, NEW withIds
  PROVE  \E line : /\ ItemStart(upstream, k, item, withIds) = <<line>>
                   /\ Concerns(upstream, line, item)
                   /\ item.kind = "call" => Announces(upstream, line)
<1>1. CASE upstream = "chat"
  <2>1. CASE item.kind = "call"
    <3>1. PICK entry : entry = CCToolCallOpeningEntry(item.call - 1, CallIds[item.call],
                                                      item.name, item.content)
      OBVIOUS
    <3>2. PICK line : line = CallChunk(entry)
      OBVIOUS
    <3>3. ItemStart(upstream, k, item, withIds) = <<line>>
      BY <1>1, <2>1, <3>1, <3>2 DEF ItemStart
    <3>4. QED
      BY <1>1, <2>1, <3>2, <3>3, CallChunkIdle DEF Concerns
  <2>2. CASE item.kind # "call"
    <3>1. PICK text : text = IF item.kind = "text" THEN item.content ELSE <<>>
      OBVIOUS
    <3>2. PICK line : line = TextChunk(text)
      OBVIOUS
    <3>3. ItemStart(upstream, k, item, withIds) = <<line>>
      BY <1>1, <2>2, <3>1, <3>2 DEF ItemStart
    <3>4. QED
      BY <1>1, <2>2, <3>2, <3>3, TextChunkIdle DEF Concerns
  <2>3. QED
    BY <2>1, <2>2
<1>2. CASE upstream = "messages"
  <2>1. PICK kind : kind = CASE item.kind = "call" -> "tool_use" [] item.kind = "text" -> "text"
                             [] OTHER -> "thinking"
    OBVIOUS
  <2>2. PICK id : id = IF item.kind = "call" THEN CallIds[item.call] ELSE NoId
    OBVIOUS
  <2>3. PICK line : line = ContentBlockStart(k - 1, kind, id, item.name)
    OBVIOUS
  <2>4. ItemStart(upstream, k, item, withIds) = <<line>>
    BY <1>2, <2>1, <2>2, <2>3 DEF ItemStart
  <2>5. line.index = k - 1 /\ line.kind = kind /\ line.type = "content_block_start"
    BY <2>3 DEF ContentBlockStart
  <2>6. kind = "tool_use" <=> item.kind = "call"
    BY <2>1
  <2>7. QED
    BY <1>2, <2>4, <2>5, <2>6 DEF Concerns, Idle, IsFrame, Carries, Announces
<1>3. CASE upstream \notin {"chat", "messages"}
  <2>1. PICK r : r = ResponseItem(item, withIds)
    OBVIOUS
  <2>2. PICK line : line = RawItemAdded(k - 1, r)
    OBVIOUS
  <2>3. ItemStart(upstream, k, item, withIds) = <<line>>
    BY <1>3, <2>1, <2>2 DEF ItemStart
  <2>4. line.type = "response.output_item.added" /\ line.item = r
    BY <2>2 DEF RawItemAdded
  <2>5. r.type = "function_call" <=> item.kind = "call"
    BY <2>1, ResponseItemKind
  <2>6. QED
    BY <1>3, <2>3, <2>4, <2>5 DEF Concerns, Idle, Carries, Announces
<1>4. QED
  BY <1>1, <1>2, <1>3

LEMMA PieceIdle ==
  ASSUME NEW upstream, NEW k, NEW item, NEW piece, NEW withIds
  PROVE  \E line : /\ Piece(upstream, k, item, piece, withIds) = <<line>>
                   /\ Concerns(upstream, line, item)
<1>1. CASE upstream = "chat"
  <2>1. CASE item.kind = "call"
    <3>1. PICK entry : entry = Continuation(item.call - 1, piece)
      OBVIOUS
    <3>2. PICK line : line = CallChunk(entry)
      OBVIOUS
    <3>3. Piece(upstream, k, item, piece, withIds) = <<line>>
      BY <1>1, <2>1, <3>1, <3>2 DEF Piece
    <3>4. QED
      BY <1>1, <2>1, <3>2, <3>3, CallChunkIdle DEF Concerns
  <2>2. CASE item.kind # "call"
    <3>1. PICK line : line = TextChunk(piece)
      OBVIOUS
    <3>2. Piece(upstream, k, item, piece, withIds) = <<line>>
      BY <1>1, <2>2, <3>1 DEF Piece
    <3>3. QED
      BY <1>1, <2>2, <3>1, <3>2, TextChunkIdle DEF Concerns
  <2>3. QED
    BY <2>1, <2>2
<1>2. CASE upstream = "messages"
  <2>1. PICK kind : kind = CASE item.kind = "call" -> "input_json_delta"
                             [] item.kind = "text" -> "text_delta" [] OTHER -> "thinking_delta"
    OBVIOUS
  <2>2. PICK line : line = ContentBlockDelta(k - 1, kind, piece)
    OBVIOUS
  <2>3. Piece(upstream, k, item, piece, withIds) = <<line>>
    BY <1>2, <2>1, <2>2 DEF Piece
  <2>4. line.type = "content_block_delta"
    BY <2>2 DEF ContentBlockDelta
  <2>5. QED
    BY <1>2, <2>3, <2>4 DEF Concerns, Idle, IsFrame, Carries
<1>3. CASE upstream \notin {"chat", "messages"}
  <2>1. PICK line : line = IF item.kind = "call" THEN ArgsDelta(EventId(item, withIds), k - 1, piece)
                           ELSE TextDelta(MessageId, k - 1, piece)
    OBVIOUS
  <2>2. Piece(upstream, k, item, piece, withIds) = <<line>>
    BY <1>3, <2>1 DEF Piece
  <2>3. line.type = IF item.kind = "call" THEN "response.function_call_arguments.delta"
                    ELSE "response.output_text.delta"
    BY <2>1 DEF ArgsDelta, TextDelta, About
  <2>4. QED
    BY <1>3, <2>2, <2>3 DEF Concerns, Idle, Carries
<1>4. QED
  BY <1>1, <1>2, <1>3

LEMMA ItemEndIdle ==
  ASSUME NEW upstream, upstream # "chat", NEW k, NEW item, NEW withIds,
         NEW lines, lines = ItemEnd(upstream, k, item, withIds)
  PROVE  IsSeq(lines) /\ \A i \in DOMAIN lines : Concerns(upstream, lines[i], item)
<1>1. CASE upstream = "messages"
  <2>1. PICK stop : stop = ContentBlockStop(k - 1)
    OBVIOUS
  <2>2. PICK line : /\ Piece(upstream, k, item, <<>>, withIds) = <<line>>
                    /\ Concerns(upstream, line, item)
    BY PieceIdle
  <2>3. lines = (IF item.kind = "call" /\ item.content = <<>>
                 THEN Piece(upstream, k, item, <<>>, withIds) ELSE <<>>) \o <<stop>>
    BY <1>1, <2>1 DEF ItemEnd
  <2>4. stop.type = "content_block_stop"
    BY <2>1 DEF ContentBlockStop
  <2>5. Concerns(upstream, stop, item)
    BY <1>1, <2>4 DEF Concerns, Idle, IsFrame, Carries
  <2>6. lines = <<line>> \o <<stop>> \/ lines = <<>> \o <<stop>>
    BY <2>2, <2>3
  <2>7. PICK X : X = {line, stop}
    OBVIOUS
  <2>8. lines \in Seq(X)
    <3>1. PICK a, b, c : a = <<line>> /\ b = <<stop>> /\ c = <<>>
      OBVIOUS
    <3>2. a \in Seq(X) /\ b \in Seq(X) /\ c \in Seq(X)
      BY <2>7, <3>1
    <3>3. a \o b \in Seq(X) /\ c \o b \in Seq(X)
      BY <3>2
    <3>4. QED
      BY <2>6, <3>1, <3>3
  <2>9. IsSeq(lines) /\ \A i \in DOMAIN lines : lines[i] = line \/ lines[i] = stop
    BY <2>7, <2>8 DEF IsSeq
  <2>10. QED
    BY <2>2, <2>5, <2>9
<1>2. CASE upstream # "messages"
  <2>1. PICK r : r = ResponseItem(item, withIds)
    OBVIOUS
  <2>2. PICK done : done = ItemDone(k - 1, r)
    OBVIOUS
  <2>3. PICK args : args = ArgsDone(EventId(item, withIds), k - 1, item.content)
    OBVIOUS
  <2>4. PICK text, part : /\ text = TextDone(MessageId, k - 1, item.content)
                          /\ part = ContentPartDone(MessageId, k - 1, item.content)
    OBVIOUS
  <2>5. PICK before : before = CASE item.kind = "call" -> <<args>>
                                 [] item.kind = "text" -> <<text, part>>
                                 [] OTHER -> <<>>
    OBVIOUS
  <2>6. lines = before \o <<done>>
    BY <1>2, <2>1, <2>2, <2>3, <2>4, <2>5 DEF ItemEnd
  <2>7. PICK X : X = {args, text, part, done}
    OBVIOUS
  <2>8. lines \in Seq(X)
    <3>1. PICK a, b, c, d : a = <<args>> /\ b = <<text, part>> /\ c = <<>> /\ d = <<done>>
      OBVIOUS
    <3>2. a \in Seq(X) /\ b \in Seq(X) /\ c \in Seq(X) /\ d \in Seq(X)
      BY <2>7, <3>1
    <3>3. a \o d \in Seq(X) /\ b \o d \in Seq(X) /\ c \o d \in Seq(X)
      BY <3>2
    <3>4. QED
      BY <2>5, <2>6, <3>1, <3>3
  <2>9. /\ done.type = "response.output_item.done" /\ done.item = r
        /\ args.type = "response.function_call_arguments.done"
        /\ text.type = "response.output_text.done" /\ part.type = "response.content_part.done"
    BY <2>2, <2>3, <2>4 DEF ItemDone, ArgsDone, TextDone, ContentPartDone, About
  <2>10. r.type = "function_call" <=> item.kind = "call"
    BY <2>1, ResponseItemKind
  <2>11. \A e \in X : Concerns(upstream, e, item)
    BY <1>2, <2>7, <2>9, <2>10 DEF Concerns, Idle, Carries
  <2>12. IsSeq(lines) /\ \A i \in DOMAIN lines : lines[i] \in X
    BY <2>8 DEF IsSeq
  <2>13. QED
    BY <2>11, <2>12
<1>3. QED
  BY <1>1, <1>2

-----------------------------------------------------------------------------
(* What there is to know of the end.                                       *)

Passes(s) ==
  <<s.upstream, s.source>> \in
    {<<"chat", "openai">>, <<"messages", "claude">>, <<"responses", "openai-response">>}

\* What the upstream has told.
IsTold(s, told) ==
  /\ DOMAIN told = {"begun", "items", "reason", "usage", "stopped"} /\ IsSeq(told.items)
  /\ told.reason # NoReason => told.begun /\ told.reason \in Reasons(s.upstream, HasCalls(told))
  /\ told.usage \in {{}, {s.usage}}
  /\ told.reason = NoReason => told.usage = {}

\* What the upstream has counted.
Tally(s, told) == IF s.upstream = "chat" /\ told.usage = {} THEN NoUsage ELSE s.usage

\* Reason and usage in the client's words, once the upstream has given its reason, ...
Verdict(s, told) ==
  LET reason == told.reason
      calls  == HasCalls(told)
      usage  == Tally(s, told)
      all    == Messages!ClaudeInput(usage)
      fresh  == ClampSubtract(usage.input, usage.cached,
                              IF s.upstream = "chat" THEN {} ELSE usage.written)
  IN  CASE s.upstream = "chat" /\ s.source = "claude" ->
             [reason |-> TerminalReason(calls, "tool_use", FinishToClaudeStop(reason)),
              usage |-> ClaudeUsage(fresh, usage.output, usage.cached, {})]
        [] s.upstream = "chat" /\ s.source = "openai-response" ->
             [reason |-> ResponseStatusFromCCFinish(reason),
              usage |-> NewResponsesUsageFrom(usage.input, usage.output, usage.cached, {})]
        [] s.upstream = "messages" /\ s.source = "openai" ->
             [reason |-> TerminalReason(calls, "tool_calls", ClaudeStopToFinish(reason)),
              usage |-> CCUsageFrom(all, usage.output, usage.cached)]
        [] s.upstream = "messages" /\ s.source = "openai-response" ->
             [reason |-> ResponseStatusFromClaudeStop(reason),
              usage |-> NewResponsesUsageFrom(all, usage.output, usage.cached, usage.written)]
        [] s.upstream = "responses" /\ s.source = "openai" ->
             [reason |-> TerminalReason(calls, "tool_calls", CCFinishFromResponseStatus(reason)),
              usage |-> CCUsageFrom(usage.input, usage.output, usage.cached)]
        [] s.upstream = "responses" /\ s.source = "claude" ->
             [reason |-> TerminalReason(calls, "tool_use", ClaudeStopFromResponseStatus(reason)),
              usage |-> ClaudeUsage(fresh, usage.output, usage.cached, usage.written)]
        [] OTHER -> [reason |-> reason, usage |-> usage]

\* ... and before: only a Messages stream that passes verbatim begins with a usage.
Beginning(s, told) ==
  [reason |-> NoReason,
   usage |-> IF s.upstream = "messages" /\ s.source = "claude" /\ told.begun
             THEN OpeningUsage(s.usage) ELSE NoUsage]

\* The client knows nothing else, and is not told of the end without a reason.
Right(s, told, c) ==
  /\ Is(c, Beginning(s, told)) \/ (told.reason # NoReason /\ Is(c, Verdict(s, told)))
  /\ c.ended => c.reason # NoReason

LEMMA VerdictHasReason ==
  ASSUME NEW s, NEW told, told.reason # NoReason
  PROVE  Verdict(s, told).reason # NoReason
BY DEF Verdict, NoReason, TerminalReason, FinishToClaudeStop, ResponseStatusFromCCFinish,
       ClaudeStopToFinish, ResponseStatusFromClaudeStop, CCFinishFromResponseStatus,
       ClaudeStopFromResponseStatus

LEMMA SameVerdict ==
  ASSUME NEW s, NEW told, NEW more, more.items = told.items, more.reason = told.reason,
         more.usage = told.usage, more.begun = told.begun
  PROVE  /\ HasCalls(more) <=> HasCalls(told)
         /\ Verdict(s, more) = Verdict(s, told) /\ Beginning(s, more) = Beginning(s, told)
         /\ \A c : Right(s, more, c) <=> Right(s, told, c)
<1>1. HasCalls(more) = HasCalls(told)
  BY DEF HasCalls
<1>2. Tally(s, more) = Tally(s, told)
  BY DEF Tally
<1>3. Verdict(s, more) = Verdict(s, told)
  BY <1>1, <1>2 DEF Verdict
<1>4. Beginning(s, more) = Beginning(s, told)
  BY DEF Beginning
<1>5. QED
  BY <1>1, <1>3, <1>4 DEF Right

LEMMA KnownRight ==
  ASSUME NEW s, NEW told, NEW c, Right(s, told, c)
  PROVE  /\ told.reason = NoReason => Is(c, Beginning(s, told)) /\ ~c.ended
         /\ c.reason = NoReason => Is(c, Beginning(s, told)) /\ ~c.ended
         /\ c.reason # NoReason => told.reason # NoReason /\ Is(c, Verdict(s, told))
<1>1. Beginning(s, told).reason = NoReason
  BY DEF Beginning
<1>2. told.reason # NoReason => Verdict(s, told).reason # NoReason
  BY VerdictHasReason
<1>3. QED
  BY <1>1, <1>2 DEF Right, Is

LEMMA ToldRight ==
  ASSUME NEW s, NEW told, NEW c, told.reason # NoReason, Is(c, Verdict(s, told))
  PROVE  Right(s, told, c)
BY VerdictHasReason DEF Right, Is

\* Not before told.begun of a Messages stream.
LEMMA BeginningIsNone ==
  ASSUME NEW s, NEW told, ~(s.upstream = "messages" /\ s.source = "claude" /\ told.begun)
  PROVE  Beginning(s, told) = NoneYet
BY DEF Beginning, NoneYet

\* A step out of which the client knows no more.
LEMMA StillKnows ==
  ASSUME NEW c, NEW d, Follows(Still(c), c, d)
  PROVE  /\ IsClient(d) /\ Is(d, c) /\ (c.ended => d.ended)
         /\ c.reason = NoReason /\ ~c.ended => ~d.ended
BY DEF Follows, Still, FromTo, Knows, Is

LEMMA KnowsItself ==
  ASSUME NEW c PROVE Knows(c, Still(c))
BY DEF Knows, Still, FromTo, Is

\* Usage that a Messages client adds up.
LEMMA MergedSame ==
  ASSUME NEW input, NEW output, NEW cached, NEW written,
         NEW u, u = ClaudeUsage(input, output, cached, written)
  PROVE  MergedUsage(NoUsage, u) = u /\ MergedUsage(u, u) = u
BY DEF MergedUsage, NoUsage, ClaudeUsage

LEMMA MergedDelta ==
  ASSUME NEW usage, IsUsage(usage), NEW u, u = [usage EXCEPT !.input = 0]
  PROVE  MergedUsage(OpeningUsage(usage), u) = usage /\ MergedUsage(usage, u) = usage
<1>1. PICK input, output, cached, written :
        usage = [input |-> input, output |-> output, cached |-> cached, written |-> written]
  BY DEF IsUsage
<1>2. u = [input |-> 0, output |-> output, cached |-> cached, written |-> written]
  BY <1>1
<1>3. OpeningUsage(usage) = [input |-> input, output |-> 0, cached |-> cached, written |-> written]
  BY <1>1 DEF OpeningUsage
<1>4. QED
  BY <1>1, <1>2, <1>3 DEF MergedUsage

\* What each converter says is the verdict.
LEMMA ChatUsage ==
  ASSUME NEW s, s.upstream = "chat", NEW told, IsTold(s, told),
         NEW sc, sc.usage = told.usage
  PROVE  Chat!UsageSeen(sc) = Tally(s, told)
BY OnlyMember DEF IsTold, Chat!UsageSeen, Tally, NoUsage, Chat!NoUsage

LEMMA ChatToClaudeSays ==
  ASSUME NEW s, s.upstream = "chat", s.source = "claude",
         NEW told, IsTold(s, told),
         NEW sc, sc.usage = told.usage, sc.heldFinish = told.reason,
         Seen("chat", sc) <=> HasCalls(told)
  PROVE  Telling(FromTo(NoneYet, Verdict(s, told)), ClaudeSays(sc))
<1> DEFINE v == FromTo(NoneYet, Verdict(s, told))
<1>0. v.before = NoneYet /\ v.after = Verdict(s, told)
  BY DEF FromTo
<1> HIDE DEF v
<1>1. Chat!UsageSeen(sc) = Tally(s, told)
  BY ChatUsage
<1>2. PICK usage : usage = Tally(s, told)
  OBVIOUS
<1>3. PICK fresh : fresh = ClampSubtract(usage.input, usage.cached, {})
  OBVIOUS
<1>4. PICK u : u = ClaudeUsage(fresh, usage.output, usage.cached, {})
  OBVIOUS
<1>5. v.after = [reason |-> TerminalReason(HasCalls(told), "tool_use",
                                           FinishToClaudeStop(told.reason)), usage |-> u]
  BY <1>0, <1>2, <1>3, <1>4 DEF Verdict
<1>6. ClaudeSays(sc) = [reason |-> TerminalReason(sc.toolOrder # <<>>, "tool_use",
                                                  FinishToClaudeStop(told.reason)), usage |-> u]
  BY <1>1, <1>2, <1>3, <1>4 DEF ClaudeSays
<1>7. Is(v.after, ClaudeSays(sc))
  BY <1>5, <1>6 DEF Is, TerminalReason, Seen
<1>8. Settles(v, v.after.usage)
  BY <1>0, <1>4, <1>5, MergedSame DEF Settles, NoneYet
<1>9. QED
  BY <1>7, <1>8 DEF Telling, v

LEMMA ChatToResponsesSays ==
  ASSUME NEW s, s.upstream = "chat", s.source = "openai-response",
         NEW told, IsTold(s, told),
         NEW sc, sc.usage = told.usage, sc.heldFinish = told.reason
  PROVE  Is(Verdict(s, told), ResponsesSays(sc))
<1>1. Chat!UsageSeen(sc) = Tally(s, told)
  BY ChatUsage
<1>2. QED
  BY <1>1 DEF Verdict, ResponsesSays, Is

LEMMA MessagesToChatSays ==
  ASSUME NEW s, s.upstream = "messages", s.source = "openai", IsUsage(s.usage), NEW told,
         NEW sc, IsMessages(sc), sc.toolsSeen <=> HasCalls(told),
         sc.promptTokens = s.usage.input, sc.cacheRead = s.usage.cached,
         sc.cacheCreation = s.usage.written,
         NEW line, line = MessageDelta(told.reason, {[s.usage EXCEPT !.input = 0]})
  PROVE  Is(Verdict(s, told), OpenAISays(sc, line))
<1>1. PICK u : u = [s.usage EXCEPT !.input = 0]
  OBVIOUS
<1>2. line.usage = {u} /\ line.reason = told.reason
  BY <1>1 DEF MessageDelta
<1>3. Messages!UsageOf(line) = u
  BY <1>2, OnlyMember DEF Messages!UsageOf
<1>4. u.input = 0 /\ u.output = s.usage.output /\ u.cached = s.usage.cached /\ u.written = s.usage.written
  BY <1>1 DEF IsUsage
<1>5. PICK counted : counted = Messages!Counted(sc, u)
  OBVIOUS
<1>6. /\ counted.promptTokens = s.usage.input /\ counted.completionTokens = s.usage.output
      /\ counted.cacheRead = s.usage.cached /\ counted.cacheCreation = s.usage.written
  BY <1>4, <1>5 DEF Messages!Counted, Messages!CaptureCache, IsMessages
<1>7. Messages!AllInput(counted) = Messages!ClaudeInput(s.usage)
  BY <1>6 DEF Messages!AllInput, Messages!ClaudeInput
<1>8. Tally(s, told) = s.usage
  BY DEF Tally
<1>9. QED
  BY <1>2, <1>3, <1>5, <1>6, <1>7, <1>8 DEF Verdict, OpenAISays, Is, TerminalReason

LEMMA MessagesToResponsesSays ==
  ASSUME NEW s, s.upstream = "messages", s.source = "openai-response", NEW told,
         NEW sc, sc.stopReason = told.reason,
         sc.promptTokens = s.usage.input, sc.completionTokens = s.usage.output,
         sc.cacheRead = s.usage.cached, sc.cacheCreation = s.usage.written
  PROVE  Is(Verdict(s, told), CompletedSays(sc))
<1>1. Tally(s, told) = s.usage
  BY DEF Tally
<1>2. Messages!AllInput(sc) = Messages!ClaudeInput(s.usage)
  BY DEF Messages!AllInput, Messages!ClaudeInput
<1>3. QED
  BY <1>1, <1>2 DEF Verdict, CompletedSays, Is

LEMMA ResponsesTerminalSays ==
  ASSUME NEW s, s.upstream = "responses", s.source \in {"openai", "claude"}, NEW told,
         NEW sc, sc.source = s.source, sc.toolCallsSeen = TRUE <=> HasCalls(told),
         NEW output, NEW line, line = Completed(told.reason, s.usage, output),
         NEW v, v.before = NoneYet, v.after = Verdict(s, told)
  PROVE  Is(v.after, TerminalSays(sc, line)) /\ (s.source = "claude" => Settles(v, v.after.usage))
<1>1. (CHOOSE u \in line.usage : TRUE) = s.usage /\ line.status = told.reason
  BY OnlyMember DEF Completed
<1>2. Tally(s, told) = s.usage
  BY DEF Tally
<1>3. PICK usage : usage = s.usage
  OBVIOUS
<1>4. CASE s.source = "openai"
  BY <1>1, <1>2, <1>4 DEF Verdict, TerminalSays, Is, TerminalReason
<1>5. CASE s.source = "claude"
  <2>1. PICK fresh : fresh = ClampSubtract(usage.input, usage.cached, usage.written)
    OBVIOUS
  <2>2. PICK u : u = ClaudeUsage(fresh, usage.output, usage.cached, usage.written)
    OBVIOUS
  <2>3. v.after = [reason |-> TerminalReason(HasCalls(told), "tool_use",
                                ClaudeStopFromResponseStatus(told.reason)), usage |-> u]
    BY <1>2, <1>3, <1>5, <2>1, <2>2 DEF Verdict
  <2>4. TerminalSays(sc, line) =
          [reason |-> TerminalReason(sc.toolCallsSeen, "tool_use",
                                     ClaudeStopFromResponseStatus(told.reason)), usage |-> u]
    BY <1>1, <1>3, <1>5, <2>1, <2>2 DEF TerminalSays
  <2>5. Is(v.after, TerminalSays(sc, line))
    BY <2>3, <2>4 DEF Is, TerminalReason
  <2>6. Settles(v, v.after.usage)
    BY <2>2, <2>3, MergedSame DEF Settles, NoneYet
  <2>7. QED
    BY <2>5, <2>6
<1>6. QED
  BY <1>4, <1>5

-----------------------------------------------------------------------------
(* The end of a stream.                                                    *)

\* The reason is passed on to a Chat Completions client at once, and held for the others
\* until the usage has come; then the message of a Messages client is still to be stopped.
ChatAhead(s, told, sc, c) ==
  /\ ~sc.done /\ ~sc.flushed
  /\ s.source = "openai" => (told.reason # NoReason => c.ended)
  /\ s.source # "openai" =>
       /\ sc.usage = told.usage /\ (told.begun => sc.started)
       /\ (sc.finished <=> told.reason # NoReason)
       /\ told.reason = NoReason =>
            sc.heldFinish = NoReason /\ (s.source = "claude" => ~sc.terminalSent)
       /\ told.reason # NoReason =>
            \/ sc.heldFinish = told.reason /\ c.reason = NoReason
            \/ /\ sc.heldFinish = NoReason /\ c.reason # NoReason /\ told.usage # {}
               /\ IF s.source = "claude" THEN sc.terminalSent ELSE c.ended

\* The converter of a Messages stream counts what it is told, and gives a Responses client
\* the end from that, even if the stream is cut, as long as it told the client anything.
MessagesAhead(s, told, sc, c) ==
  /\ ~sc.flushed
  /\ s.source = "openai" => (told.reason # NoReason => c.ended)
  /\ s.source = "claude" => (told.reason # NoReason => c.reason # NoReason)
  /\ s.source = "openai-response" =>
       /\ told.begun => sc.emitted
       /\ told.reason # NoReason =>
            sc.completionTokens = s.usage.output /\ sc.stopReason = told.reason
  /\ s.source # "claude" =>
       /\ sc.promptTokens \in Nat /\ sc.completionTokens \in Nat
       /\ ~told.begun => sc.cacheRead = {} /\ sc.cacheCreation = {}
       /\ told.begun => /\ sc.promptTokens = s.usage.input
                        /\ sc.cacheRead = s.usage.cached /\ sc.cacheCreation = s.usage.written

Ahead(s, told, sc, c) ==
  CASE s.upstream = "chat"     -> ChatAhead(s, told, sc, c)
    [] s.upstream = "messages" -> MessagesAhead(s, told, sc, c)
    [] OTHER                   -> told.reason # NoReason => c.ended

\* The converter knows what it needs to tell the client of the end.
Listening(s, told, sc, c) ==
  /\ IsClient(c) /\ IsConverter(s.upstream, sc) /\ sc.source = s.source
  /\ s.upstream \in {"chat", "messages", "responses"} /\ KnownSource(s.source)
  /\ IsUsage(s.usage) /\ IsTold(s, told)
  /\ Passes(s) \/ (Seen(s.upstream, sc) <=> HasCalls(told))
  /\ Right(s, told, c)
  /\ Ahead(s, told, sc, c)

Natural(usage) == usage.input \in Nat /\ usage.output \in Nat

\* The inductive invariant.
EndTold ==
  /\ status = "new" => said = Silent /\ client = NewClient
  /\ IsTold(setting, said)
  /\ said.reason # NoReason => Right(setting, said, client)
  /\ Natural(client.usage)
  /\ status = "open" => Listening(setting, said, conv, client)
  /\ EndsWithTerminal

\* What a client that knew c has heard of a step, and what has to come of the step.
Heard(v, source, next, c, d) ==
  IF next.failed THEN d = c
  ELSE /\ Follows(v, c, d)
       /\ Concluded(source, next.events) => d.ended
       /\ Informed(source, next.events) => Is(d, v.after)
Served(s, more, next, d) ==
  /\ more.reason # NoReason \/ ~next.failed => Right(s, more, d)
  /\ ~next.failed /\ ~next.done => Listening(s, more, next.sc, d)
  /\ ~next.failed /\ next.done /\ more.reason # NoReason =>
       d.ended \/ (s.upstream = "messages" /\ s.source = "claude")
Serves(s, more, c, v, next) ==
  /\ Knows(c, v) /\ Events(s.source, {v}, next.events)
  /\ \A d : Heard(v, s.source, next, c, d) => Served(s, more, next, d)
LineServes(s, told, sc, c, more, line) ==
  LET next == FeedBy(s.upstream, sc, line)
  IN  /\ DOMAIN next = {"sc", "events", "done", "failed"}
      /\ \E v : Serves(s, more, c, v, next)

\* What the client knows stays right.
LEMMA StaysRight ==
  ASSUME NEW s, NEW told, NEW more, NEW c, Right(s, told, c),
         Beginning(s, more) = Beginning(s, told),
         told.reason # NoReason => more.reason # NoReason /\ Verdict(s, more) = Verdict(s, told),
         NEW w, Is(c, w), NEW d, Follows(Still(w), c, d)
  PROVE  Right(s, more, d) /\ Is(d, c) /\ (d.ended => c.reason # NoReason)
<1>1. Is(d, c) /\ (c.ended => d.ended) /\ (d.ended => c.ended \/ c.reason # NoReason)
  BY DEF Follows, Still, FromTo, Knows, Is
<1>2. QED
  BY <1>1 DEF Right, Is

LEMMA FailsRight ==
  ASSUME NEW s, NEW told, NEW more, NEW c, Right(s, told, c),
         Beginning(s, more) = Beginning(s, told),
         told.reason # NoReason => more.reason # NoReason /\ Verdict(s, more) = Verdict(s, told)
  PROVE  Right(s, more, c)
BY DEF Right, Is

\* As long as there is no reason, all that matters is what the client has begun with.
LEMMA BeginningRight ==
  ASSUME NEW s, NEW told, NEW c, Is(c, Beginning(s, told)), ~c.ended
  PROVE  Right(s, told, c)
BY DEF Right

-----------------------------------------------------------------------------
(* A line of a Chat Completions upstream.                                  *)

LEMMA ChatOpens ==
  ASSUME NEW s, NEW told, NEW sc, NEW c, Listening(s, told, sc, c), s.upstream = "chat",
         ~told.begun, NEW more, IsTold(s, more), more.begun, more.items = told.items,
         more.reason = told.reason, more.usage = told.usage
  PROVE  LineServes(s, told, sc, c, more, RoleChunk)
<1>1. PICK line : line = RoleChunk
  OBVIOUS
<1>2. PICK v : v = Still(NoneYet)
  OBVIOUS
<1>3. PICK next : next = Chat!Feed(sc, line)
  OBVIOUS
<1>4. /\ IsChat(sc) /\ KnownSource(sc.source) /\ sc.source = s.source /\ IsClient(c)
      /\ ChatAhead(s, told, sc, c) /\ Right(s, told, c) /\ IsTold(s, told)
      /\ Passes(s) \/ (Seen("chat", sc) <=> HasCalls(told))
  BY DEF Listening, IsConverter, Ahead
<1>5. /\ line.type = "chunk" /\ line.choices = TRUE /\ line.calls = <<>>
      /\ line.finish = NoReason /\ line.usage = {}
  BY <1>1 DEF RoleChunk, Frame
<1>6. told.reason = NoReason /\ told.usage = {} /\ more.reason = NoReason /\ more.usage = {}
  BY <1>4 DEF IsTold
<1>7. sc.source # "openai" => sc.heldFinish = NoReason
  BY <1>4, <1>6 DEF ChatAhead
<1>8. v.before = NoneYet /\ v.after = NoneYet
  BY <1>2 DEF Still, FromTo
<1>9. IsChunk(line) /\ Chat!Decoded(sc, line) = sc
  BY <1>5 DEF IsChunk, AtMostOne, Chat!Decoded
<1>10. PICK d : d = Chat!Decoded(sc, line)
  OBVIOUS
<1>11. Agreed(v, d) /\ Early(sc, line, v) /\ Readable("openai", {v}, line)
  BY <1>4, <1>5, <1>7, <1>8, <1>9, <1>10, EmptyIsSeq
  DEF Agreed, Early, NoneYet, Readable, Mute, KnownSource
<1>12. /\ DOMAIN next = {"sc", "events", "done", "failed"}
       /\ ~next.failed /\ next.done = sc.done
       /\ Events(sc.source, {v}, next.events)
       /\ sc.source = "openai" => next.sc = sc
       /\ sc.source # "openai" => Noted(sc, next.sc, line)
       /\ sc.source = "claude" => (next.sc.terminalSent <=> Due(sc))
  <2>1. Agreed(v, d) /\ d = Chat!Decoded(sc, line) /\ next = Chat!Feed(sc, line)
    BY <1>3, <1>10, <1>11
  <2>2. IsChat(sc) /\ KnownSource(sc.source) /\ IsChunk(line)
    BY <1>4, <1>9
  <2>3. /\ sc.source = "openai" => Readable("openai", {v}, line)
        /\ sc.source = "claude" => Early(sc, line, v)
    BY <1>11
  <2>4. /\ DOMAIN next = {"sc", "events", "done", "failed"}
        /\ ~next.failed /\ next.done = sc.done
        /\ Events(sc.source, {v}, next.events)
        /\ sc.source = "openai" => next.events = <<line>> /\ next.sc = sc
        /\ sc.source # "openai" => Noted(d, next.sc, line)
        /\ sc.source = "claude" => (next.sc.terminalSent <=> Due(sc))
    BY <2>1, <2>2, <2>3, ChatFeedTells, SMTT(30)
  <2>5. QED
    BY <1>9, <1>10, <2>4
<1>13. HasCalls(more) <=> HasCalls(told)
  BY DEF HasCalls
<1>14. Beginning(s, told) = NoneYet /\ Beginning(s, more) = NoneYet
  BY BeginningIsNone
<1>15. Is(c, NoneYet) /\ ~c.ended
  BY <1>4, <1>6, <1>14, KnownRight
<1>16. IsChat(next.sc) /\ next.sc.source = s.source /\ (Seen("chat", next.sc) <=> Seen("chat", sc))
  BY <1>4, <1>5, <1>12 DEF Noted, Learns, Seen
<1>17. ASSUME NEW e, Heard(v, s.source, next, c, e)
       PROVE  Served(s, more, next, e)
  <2>1. Follows(v, c, e)
    BY <1>12, <1>17 DEF Heard
  <2>2. Right(s, more, e) /\ IsClient(e)
    BY <1>2, <1>4, <1>6, <1>14, <1>15, <2>1, StaysRight DEF Follows
  <2>3. ChatAhead(s, more, next.sc, e)
    BY <1>4, <1>5, <1>6, <1>12 DEF ChatAhead, Noted, Due
  <2>4. Listening(s, more, next.sc, e)
    BY <1>4, <1>13, <1>16, <2>2, <2>3 DEF Listening, IsConverter, Ahead
  <2>5. QED
    BY <1>4, <1>6, <2>2, <2>4 DEF Served
<1>18. Serves(s, more, c, v, next)
  BY <1>4, <1>8, <1>12, <1>15, <1>17 DEF Serves, Knows
<1>19. QED
  BY <1>1, <1>3, <1>12, <1>18 DEF LineServes, FeedBy

LEMMA ChatEnds ==
  ASSUME NEW s, NEW told, NEW sc, NEW c, Listening(s, told, sc, c), s.upstream = "chat",
         told.begun, told.reason = NoReason,
         NEW reason \in Reasons("chat", HasCalls(told)), NEW usage \in {{}, {s.usage}},
         NEW more, IsTold(s, more), more.begun = told.begun, more.items = told.items,
         more.reason = reason, more.usage = usage
  PROVE  LineServes(s, told, sc, c, more, Finish(reason, usage))
<1>1. PICK line : line = Finish(reason, usage)
  OBVIOUS
<1>2. PICK v : v = IF s.source = "openai" THEN FromTo(NoneYet, Verdict(s, more)) ELSE Still(NoneYet)
  OBVIOUS
<1>3. PICK next : next = Chat!Feed(sc, line)
  OBVIOUS
<1>4. /\ IsChat(sc) /\ KnownSource(sc.source) /\ sc.source = s.source /\ IsClient(c)
      /\ ChatAhead(s, told, sc, c) /\ Right(s, told, c) /\ IsTold(s, told)
      /\ Passes(s) \/ (Seen("chat", sc) <=> HasCalls(told))
  BY DEF Listening, IsConverter, Ahead
<1>5. /\ line.type = "chunk" /\ line.choices = TRUE /\ line.calls = <<>>
      /\ line.finish = reason /\ line.usage = usage
  BY <1>1 DEF Finish, Frame
<1>6. reason # NoReason
  BY DEF Reasons, NoReason
<1>7. more.reason = reason /\ more.usage = usage /\ more.begun = told.begun
  OBVIOUS
<1>8. HasCalls(more) <=> HasCalls(told)
  BY DEF HasCalls
<1>9. told.usage = {} /\ (sc.source # "openai" => sc.heldFinish = NoReason)
  BY <1>4 DEF IsTold, ChatAhead
<1>10. v.before = NoneYet /\ v.after = IF s.source = "openai" THEN Verdict(s, more) ELSE NoneYet
  BY <1>2 DEF Still, FromTo
<1>11. PICK d : d = Chat!Decoded(sc, line)
  OBVIOUS
<1>12. /\ IsChat(d) /\ d.source = sc.source /\ d.done = sc.done /\ d.flushed = sc.flushed
       /\ d.finished = sc.finished /\ d.heldFinish = sc.heldFinish
       /\ d.terminalSent = sc.terminalSent /\ d.started = sc.started
       /\ d.toolOrder = sc.toolOrder
       /\ d.usage = IF line.usage = {} THEN sc.usage ELSE line.usage
  BY <1>4, <1>11, DecodedSame
<1>13. IsChunk(line) /\ Agreed(v, d)
  BY <1>4, <1>5, <1>9, <1>12 DEF IsChunk, AtMostOne, Agreed
<1>14. sc.source = "claude" => Early(sc, line, v)
  BY <1>4 DEF ChatAhead, Early
<1>15. sc.source = "openai" => Readable("openai", {v}, line)
  <2> SUFFICES ASSUME sc.source = "openai" PROVE Truthful("openai", v, line)
    BY DEF Readable
  <2>1. Verdict(s, more) = [reason |-> reason, usage |-> Tally(s, more)]
    BY <1>4, <1>7 DEF Verdict
  <2>2. Tally(s, more) = IF usage = {} THEN NoUsage ELSE s.usage
    BY <1>7 DEF Tally
  <2>3. QED
    BY <1>4, <1>5, <1>6, <1>10, <2>1, <2>2, EmptyIsSeq DEF Truthful, NoneYet
<1>16. /\ DOMAIN next = {"sc", "events", "done", "failed"}
       /\ ~next.failed /\ next.done = sc.done
       /\ Events(sc.source, {v}, next.events)
       /\ sc.source = "openai" => next.events = <<line>> /\ next.sc = sc
       /\ sc.source # "openai" => Noted(d, next.sc, line)
  BY <1>3, <1>4, <1>11, <1>13, <1>14, <1>15, ChatFeedTells
<1>17. Beginning(s, told) = NoneYet /\ Beginning(s, more) = NoneYet
  BY BeginningIsNone
<1>18. Is(c, NoneYet) /\ ~c.ended
  BY <1>4, <1>17, KnownRight
<1>19. IsChat(next.sc) /\ next.sc.source = s.source /\ (Seen("chat", next.sc) <=> Seen("chat", sc))
  BY <1>4, <1>5, <1>12, <1>16 DEF Noted, Learns, Seen
<1>20. ASSUME NEW e, Heard(v, s.source, next, c, e)
       PROVE  Right(s, more, e) /\ IsClient(e) /\ ChatAhead(s, more, next.sc, e)
  <2>1. /\ Follows(v, c, e) /\ (Concluded(s.source, next.events) => e.ended)
        /\ Informed(s.source, next.events) => Is(e, v.after)
    BY <1>16, <1>20 DEF Heard
  <2>2. CASE s.source = "openai"
    <3>1. Final(s.source, line) /\ Informs(s.source, line)
      BY <1>5, <1>6, <2>2 DEF Final, Informs
    <3>2. e.ended /\ Is(e, Verdict(s, more))
      BY <1>4, <1>10, <1>16, <2>1, <2>2, <3>1, OneConcludes
    <3>3. Right(s, more, e)
      BY <1>6, <1>7, <3>2, ToldRight
    <3>4. QED
      BY <1>4, <1>16, <2>1, <2>2, <3>2, <3>3 DEF ChatAhead, Follows
  <2>3. CASE s.source # "openai"
    <3>1. Right(s, more, e) /\ Is(e, c)
      BY <1>2, <1>4, <1>17, <1>18, <2>1, <2>3, StaysRight
    <3>2. e.reason = NoReason
      BY <1>18, <3>1 DEF Is, NoneYet
    <3>3. ~next.sc.done /\ ~next.sc.flushed
      BY <1>4, <1>12, <1>16, <2>3 DEF ChatAhead, Noted
    <3>4. next.sc.usage = more.usage
      BY <1>4, <1>5, <1>7, <1>9, <1>12, <1>16, <2>3 DEF ChatAhead, Noted
    <3>5. next.sc.started /\ next.sc.finished = TRUE /\ next.sc.heldFinish = more.reason
      BY <1>4, <1>5, <1>6, <1>7, <1>12, <1>16, <2>3 DEF ChatAhead, Noted
    <3>6. QED
      BY <1>6, <1>7, <2>1, <2>3, <3>1, <3>2, <3>3, <3>4, <3>5 DEF ChatAhead, Follows
  <2>4. QED
    BY <2>2, <2>3
<1>21. ASSUME NEW e, Heard(v, s.source, next, c, e)
       PROVE  Served(s, more, next, e)
  <2>1. Listening(s, more, next.sc, e)
    BY <1>4, <1>8, <1>19, <1>20, <1>21 DEF Listening, IsConverter, Ahead
  <2>2. QED
    BY <1>4, <1>16, <1>20, <1>21, <2>1 DEF Served, ChatAhead
<1>22. Serves(s, more, c, v, next)
  BY <1>4, <1>10, <1>16, <1>18, <1>21 DEF Serves, Knows
<1>23. QED
  BY <1>1, <1>3, <1>16, <1>22 DEF LineServes, FeedBy

LEMMA ChatCounts ==
  ASSUME NEW s, NEW told, NEW sc, NEW c, Listening(s, told, sc, c), s.upstream = "chat",
         told.reason # NoReason, told.usage = {},
         NEW more, IsTold(s, more), more.begun = told.begun, more.items = told.items,
         more.reason = told.reason, more.usage = {s.usage}
  PROVE  LineServes(s, told, sc, c, more, Trailer(s.usage))
<1>1. PICK line : line = Trailer(s.usage)
  OBVIOUS
<1>2. PICK v : v = FromTo(IF s.source = "openai" THEN Verdict(s, told) ELSE NoneYet,
                          Verdict(s, more))
  OBVIOUS
<1>3. PICK next : next = Chat!Feed(sc, line)
  OBVIOUS
<1>4. /\ IsChat(sc) /\ KnownSource(sc.source) /\ sc.source = s.source /\ IsClient(c)
      /\ ChatAhead(s, told, sc, c) /\ Right(s, told, c) /\ IsTold(s, told)
      /\ Passes(s) \/ (Seen("chat", sc) <=> HasCalls(told))
  BY DEF Listening, IsConverter, Ahead
<1>5. /\ line.type = "chunk" /\ line.choices = FALSE /\ line.calls = <<>>
      /\ line.finish = NoReason /\ line.usage = {s.usage}
  BY <1>1 DEF Trailer, Frame
<1>6. more.reason = told.reason /\ more.usage = {s.usage} /\ more.begun = told.begun
  OBVIOUS
<1>7. HasCalls(more) <=> HasCalls(told)
  BY DEF HasCalls
<1>8. v.before = (IF s.source = "openai" THEN Verdict(s, told) ELSE NoneYet)
      /\ v.after = Verdict(s, more)
  BY <1>2 DEF FromTo
<1>9. PICK d : d = Chat!Decoded(sc, line)
  OBVIOUS
<1>10. /\ IsChat(d) /\ d.source = sc.source /\ d.done = sc.done /\ d.flushed = sc.flushed
       /\ d.finished = sc.finished /\ d.heldFinish = sc.heldFinish
       /\ d.terminalSent = sc.terminalSent /\ d.started = sc.started
       /\ d.toolOrder = sc.toolOrder
       /\ d.usage = IF line.usage = {} THEN sc.usage ELSE line.usage
  BY <1>4, <1>9, DecodedSame
<1>11. sc.source # "openai" => sc.heldFinish = told.reason /\ c.reason = NoReason
  BY <1>4 DEF ChatAhead
<1>12. d.usage = more.usage /\ d.heldFinish = sc.heldFinish
  BY <1>5, <1>6, <1>10
<1>13. Agreed(v, d)
  <2>1. ASSUME s.source = "claude" PROVE Telling(v, ClaudeSays(d))
    <3>1. d.heldFinish = more.reason /\ (Seen("chat", d) <=> HasCalls(more))
      BY <1>4, <1>6, <1>7, <1>10, <1>11, <2>1 DEF Passes, Seen
    <3>2. Telling(FromTo(NoneYet, Verdict(s, more)), ClaudeSays(d))
      BY <1>12, <2>1, <3>1, ChatToClaudeSays
    <3>3. v = FromTo(NoneYet, Verdict(s, more))
      BY <1>2, <2>1
    <3>4. QED
      BY <3>2, <3>3
  <2>2. ASSUME s.source = "openai-response" PROVE Is(v.after, ResponsesSays(d))
    <3>1. d.heldFinish = more.reason
      BY <1>4, <1>6, <1>10, <1>11, <2>2
    <3>2. QED
      BY <1>8, <1>12, <2>2, <3>1, ChatToResponsesSays
  <2>3. QED
    BY <1>4, <1>10, <2>1, <2>2 DEF Agreed
<1>14. IsChunk(line) /\ Early(sc, line, v)
  BY <1>5 DEF IsChunk, AtMostOne, Early
<1>15. ASSUME sc.source = "openai" PROVE Readable("openai", {v}, line)
  <2>1. /\ Verdict(s, more) = [reason |-> told.reason, usage |-> Tally(s, more)]
        /\ Verdict(s, told) = [reason |-> told.reason, usage |-> Tally(s, told)]
    BY <1>4, <1>6, <1>15 DEF Verdict
  <2>2. Tally(s, more) = s.usage
    BY <1>6 DEF Tally
  <2>3. Truthful("openai", v, line)
    BY <1>4, <1>5, <1>8, <1>15, <2>1, <2>2, EmptyIsSeq DEF Truthful
  <2>4. QED
    BY <2>3 DEF Readable
<1>16. /\ DOMAIN next = {"sc", "events", "done", "failed"}
       /\ ~next.failed /\ next.done = sc.done
       /\ Events(sc.source, {v}, next.events)
       /\ sc.source = "openai" => next.events = <<line>> /\ next.sc = sc
       /\ sc.source # "openai" => Noted(d, next.sc, line)
       /\ sc.source = "claude" => (next.sc.terminalSent <=> Due(sc))
       /\ sc.source # "openai" /\ sc.heldFinish # NoReason => Informed(sc.source, next.events)
       /\ sc.source = "openai-response" /\ sc.heldFinish # NoReason =>
            Concluded(sc.source, next.events)
  BY <1>3, <1>4, <1>9, <1>13, <1>14, <1>15, ChatFeedTells
<1>17. Beginning(s, told) = NoneYet
  BY BeginningIsNone
<1>18. Knows(c, v)
  <2>1. c.reason = NoReason => Is(c, NoneYet)
    BY <1>4, <1>17, KnownRight
  <2>2. s.source = "openai" => c.reason # NoReason /\ Is(c, Verdict(s, told))
    <3>1. s.source = "openai" => c.ended
      BY <1>4 DEF ChatAhead
    <3>2. QED
      BY <1>4, <3>1, KnownRight
  <2>3. QED
    BY <1>4, <1>8, <1>11, <2>1, <2>2 DEF Knows
<1>19. IsChat(next.sc) /\ next.sc.source = s.source /\ (Seen("chat", next.sc) <=> Seen("chat", sc))
  BY <1>4, <1>5, <1>10, <1>16 DEF Noted, Learns, Seen
<1>20. Informed(s.source, next.events)
  <2>1. Informs("openai", line)
    BY <1>5 DEF Informs
  <2>2. QED
    BY <1>4, <1>11, <1>16, <2>1, OneConcludes
<1>21. ASSUME NEW e, Heard(v, s.source, next, c, e)
       PROVE  Right(s, more, e) /\ IsClient(e) /\ ChatAhead(s, more, next.sc, e)
  <2>1. /\ Follows(v, c, e) /\ (Concluded(s.source, next.events) => e.ended)
        /\ Is(e, v.after)
    BY <1>16, <1>20, <1>21 DEF Heard
  <2>2. Right(s, more, e) /\ IsClient(e) /\ e.reason # NoReason
    <3>1. Is(e, Verdict(s, more)) /\ more.reason # NoReason
      BY <1>6, <1>8, <2>1
    <3>2. e.reason # NoReason
      BY <3>1, VerdictHasReason DEF Is
    <3>3. QED
      BY <2>1, <3>1, <3>2, ToldRight DEF Follows
  <2>3. CASE s.source = "openai"
    BY <1>4, <1>16, <2>1, <2>2, <2>3 DEF ChatAhead, Follows
  <2>4. CASE s.source # "openai"
    <3>1. ~next.sc.done /\ ~next.sc.flushed /\ next.sc.usage = more.usage
      BY <1>4, <1>10, <1>12, <1>16, <2>4 DEF ChatAhead, Noted
    <3>2. (more.begun => next.sc.started) /\ (next.sc.finished <=> more.reason # NoReason)
      BY <1>4, <1>5, <1>6, <1>10, <1>16, <2>4 DEF ChatAhead, Noted
    <3>3. next.sc.heldFinish = NoReason
      BY <1>4, <1>5, <1>16, <2>4 DEF Noted
    <3>4. s.source = "claude" => next.sc.terminalSent
      BY <1>4, <1>11, <1>16, <2>4 DEF Due
    <3>5. s.source # "claude" => e.ended
      BY <1>4, <1>11, <1>16, <2>1, <2>4 DEF KnownSource
    <3>6. QED
      BY <1>6, <2>2, <2>4, <3>1, <3>2, <3>3, <3>4, <3>5 DEF ChatAhead
  <2>5. QED
    BY <2>2, <2>3, <2>4
<1>22. ASSUME NEW e, Heard(v, s.source, next, c, e)
       PROVE  Served(s, more, next, e)
  <2>1. Listening(s, more, next.sc, e)
    BY <1>4, <1>7, <1>19, <1>21, <1>22 DEF Listening, IsConverter, Ahead
  <2>2. QED
    BY <1>4, <1>16, <1>21, <1>22, <2>1 DEF Served, ChatAhead
<1>23. Serves(s, more, c, v, next)
  BY <1>4, <1>16, <1>18, <1>22 DEF Serves
<1>24. QED
  BY <1>1, <1>3, <1>16, <1>23 DEF LineServes, FeedBy

\* At its end a Chat Completions stream still owes the client what is held, or owes nothing.
Owed(s, told, sc) ==
  FromTo(IF s.source # "openai" /\ sc.heldFinish # NoReason THEN NoneYet ELSE Verdict(s, told),
         Verdict(s, told))

LEMMA OwedIsAgreed ==
  ASSUME NEW s, NEW told, NEW sc, NEW c, Listening(s, told, sc, c), s.upstream = "chat",
         told.reason # NoReason
  PROVE  Agreed(Owed(s, told, sc), sc) /\ Knows(c, Owed(s, told, sc))
<1>1. PICK v : v = Owed(s, told, sc)
  OBVIOUS
<1>2. /\ sc.source = s.source /\ ChatAhead(s, told, sc, c) /\ Right(s, told, c)
      /\ IsTold(s, told) /\ KnownSource(s.source)
      /\ Passes(s) \/ (Seen("chat", sc) <=> HasCalls(told))
  BY DEF Listening, Ahead
<1>3. Beginning(s, told) = NoneYet
  BY BeginningIsNone
<1>4. /\ c.reason = NoReason => Is(c, NoneYet)
      /\ c.reason # NoReason => Is(c, Verdict(s, told))
  BY <1>2, <1>3, KnownRight
<1>5. CASE s.source # "openai" /\ sc.heldFinish # NoReason
  <2>1. v = FromTo(NoneYet, Verdict(s, told)) /\ sc.heldFinish = told.reason /\ c.reason = NoReason
    BY <1>1, <1>2, <1>5 DEF Owed, ChatAhead
  <2>2. sc.usage = told.usage /\ (~Passes(s) => (Seen("chat", sc) <=> HasCalls(told)))
    BY <1>2, <1>5 DEF ChatAhead
  <2>3. ASSUME s.source = "claude" PROVE Telling(v, ClaudeSays(sc))
    <3>1. Seen("chat", sc) <=> HasCalls(told)
      BY <2>2, <2>3 DEF Passes
    <3>2. QED
      BY <1>2, <2>1, <2>2, <2>3, <3>1, ChatToClaudeSays
  <2>4. v.before = NoneYet /\ v.after = Verdict(s, told)
    BY <2>1 DEF FromTo
  <2>5. ASSUME s.source = "openai-response" PROVE Is(v.after, ResponsesSays(sc))
    BY <1>2, <2>1, <2>2, <2>4, <2>5, ChatToResponsesSays
  <2>6. QED
    BY <1>1, <1>2, <1>4, <2>1, <2>3, <2>4, <2>5 DEF Agreed, Knows
<1>6. CASE s.source # "openai" /\ sc.heldFinish = NoReason
  <2>1. v.before = Verdict(s, told) /\ c.reason # NoReason
    BY <1>1, <1>2, <1>6 DEF Owed, FromTo, ChatAhead
  <2>2. QED
    BY <1>1, <1>4, <1>6, <2>1 DEF Agreed, Knows
<1>7. CASE s.source = "openai"
  <2>1. v.before = Verdict(s, told) /\ c.reason # NoReason
    BY <1>1, <1>2, <1>7 DEF Owed, FromTo, ChatAhead, Right
  <2>2. QED
    BY <1>1, <1>2, <1>4, <1>7, <2>1 DEF Agreed, Knows
<1>8. QED
  BY <1>5, <1>6, <1>7

\* A client that has been told all of it.
LEMMA OwedIsTold ==
  ASSUME NEW s, NEW told, NEW sc, NEW c, Listening(s, told, sc, c), s.upstream = "chat",
         told.reason # NoReason, NEW v, v = Owed(s, told, sc), NEW d, Follows(v, c, d),
         s.source = "claude" => d.ended,
         s.source # "openai" /\ sc.heldFinish # NoReason => Is(d, v.after),
         s.source = "openai-response" /\ sc.heldFinish # NoReason => d.ended
  PROVE  Is(d, Verdict(s, told)) /\ d.ended
<1>1. ChatAhead(s, told, sc, c) /\ KnownSource(s.source)
  BY DEF Listening, Ahead
<1>2. CASE s.source # "openai" /\ sc.heldFinish # NoReason
  BY <1>1, <1>2 DEF Owed, FromTo, KnownSource
<1>3. CASE s.source # "openai" /\ sc.heldFinish = NoReason
  <2>1. Is(d, Verdict(s, told))
    BY <1>3 DEF Owed, FromTo, Follows, Knows
  <2>2. s.source = "openai-response" => c.ended
    BY <1>1, <1>3 DEF ChatAhead
  <2>3. QED
    BY <1>1, <1>3, <2>1, <2>2 DEF KnownSource, Follows
<1>4. CASE s.source = "openai"
  <2>1. Is(d, Verdict(s, told))
    BY <1>4 DEF Owed, FromTo, Follows, Knows
  <2>2. QED
    BY <1>1, <1>4, <2>1 DEF ChatAhead, Follows
<1>5. QED
  BY <1>2, <1>3, <1>4

LEMMA ChatStops ==
  ASSUME NEW s, NEW told, NEW sc, NEW c, Listening(s, told, sc, c), s.upstream = "chat",
         told.reason # NoReason,
         NEW more, IsTold(s, more), more.begun = told.begun, more.items = told.items,
         more.reason = told.reason, more.usage = told.usage,
         NEW line, line.type = "done"
  PROVE  LineServes(s, told, sc, c, more, line)
<1>1. PICK v : v = Owed(s, told, sc)
  OBVIOUS
<1>2. PICK next : next = Chat!Feed(sc, line)
  OBVIOUS
<1>3. IsChat(sc) /\ KnownSource(sc.source) /\ sc.source = s.source /\ Right(s, told, c)
  BY DEF Listening, IsConverter
<1>4. v.after = Verdict(s, told)
  BY <1>1 DEF Owed, FromTo
<1>5. v.after.reason # NoReason
  BY <1>4, VerdictHasReason
<1>6. Agreed(v, sc) /\ Knows(c, v)
  BY <1>1, OwedIsAgreed
<1>7. /\ DOMAIN next = {"sc", "events", "done", "failed"} /\ next.done
      /\ Events(sc.source, {v}, next.events)
      /\ sc.source = "claude" => Concluded(sc.source, next.events)
      /\ sc.source # "openai" /\ sc.heldFinish # NoReason => Informed(sc.source, next.events)
      /\ sc.source = "openai-response" /\ sc.heldFinish # NoReason =>
           Concluded(sc.source, next.events)
  BY <1>2, <1>3, <1>5, <1>6, ChatDoneConcludes
<1>8. /\ Beginning(s, more) = Beginning(s, told) /\ Verdict(s, more) = Verdict(s, told)
      /\ \A d : Right(s, more, d) <=> Right(s, told, d)
  BY SameVerdict
<1>9. ASSUME NEW d, Heard(v, s.source, next, c, d)
      PROVE  Served(s, more, next, d)
  <2>1. CASE next.failed
    BY <1>3, <1>7, <1>8, <1>9, <2>1 DEF Heard, Served
  <2>2. CASE ~next.failed
    <3>1. /\ Follows(v, c, d) /\ (Concluded(s.source, next.events) => d.ended)
          /\ Informed(s.source, next.events) => Is(d, v.after)
      BY <1>9, <2>2 DEF Heard
    <3>2. Is(d, Verdict(s, told)) /\ d.ended
      BY <1>1, <1>3, <1>7, <3>1, OwedIsTold
    <3>3. Right(s, more, d)
      BY <1>8, <3>2, ToldRight
    <3>4. QED
      BY <1>7, <2>2, <3>2, <3>3 DEF Served
  <2>3. QED
    BY <2>1, <2>2
<1>10. Serves(s, more, c, v, next)
  BY <1>3, <1>6, <1>7, <1>9 DEF Serves
<1>11. QED
  BY <1>2, <1>7, <1>10 DEF LineServes, FeedBy

LEMMA ChatFails ==
  ASSUME NEW s, NEW told, NEW sc, NEW c, Listening(s, told, sc, c), s.upstream = "chat",
         NEW more, IsTold(s, more), more.begun = told.begun, more.items = told.items,
         more.reason = told.reason, more.usage = told.usage,
         NEW line, line.type = "error"
  PROVE  LineServes(s, told, sc, c, more, line)
<1>1. PICK v : v = Still(c)
  OBVIOUS
<1>2. PICK next : next = Chat!Feed(sc, line)
  OBVIOUS
<1>3. /\ IsChat(sc) /\ KnownSource(sc.source) /\ sc.source = s.source /\ Right(s, told, c)
      /\ ChatAhead(s, told, sc, c)
  BY DEF Listening, IsConverter, Ahead
<1>4. /\ DOMAIN next = {"sc", "events", "done", "failed"}
      /\ next.sc = sc /\ next.done = sc.done /\ Events(sc.source, {v}, next.events)
      /\ ~next.failed => sc.source = "openai"
  <2>1. /\ DOMAIN next = {"sc", "events", "done", "failed"}
        /\ next.sc = sc /\ next.done = sc.done /\ Events(sc.source, {}, next.events)
        /\ ~next.failed => sc.source = "openai"
    BY <1>2, <1>3, ChatErrorPasses
  <2>2. QED
    BY <2>1, MuteEvents
<1>5. /\ HasCalls(more) <=> HasCalls(told)
      /\ Verdict(s, more) = Verdict(s, told) /\ Beginning(s, more) = Beginning(s, told)
      /\ \A d : Right(s, more, d) <=> Right(s, told, d)
  BY SameVerdict
<1>6. ASSUME NEW d, Heard(v, s.source, next, c, d)
      PROVE  Served(s, more, next, d)
  <2>1. CASE next.failed
    BY <1>3, <1>5, <1>6, <2>1 DEF Heard, Served
  <2>2. CASE ~next.failed
    <3>1. Follows(Still(c), c, d) /\ Is(c, c)
      BY <1>1, <1>6, <2>2 DEF Heard, Is
    <3>2. Right(s, more, d) /\ IsClient(d)
      BY <1>3, <1>5, <3>1, StaysRight DEF Follows
    <3>3. ChatAhead(s, more, sc, d)
      BY <1>3, <1>4, <2>2, <3>1 DEF ChatAhead, Follows
    <3>4. Listening(s, more, next.sc, d)
      BY <1>4, <1>5, <3>2, <3>3 DEF Listening, Ahead
    <3>5. QED
      BY <1>3, <1>4, <3>2, <3>4 DEF Served, ChatAhead
  <2>3. QED
    BY <2>1, <2>2
<1>7. Knows(c, v)
  BY <1>1, KnowsItself
<1>8. Serves(s, more, c, v, next)
  BY <1>3, <1>4, <1>6, <1>7 DEF Serves
<1>9. QED
  BY <1>2, <1>4, <1>8 DEF LineServes, FeedBy

\* The stream is cut: what Flush still has to say.
Flushed(out) == [sc |-> out.sc, events |-> out.events, done |-> TRUE, failed |-> FALSE]

LEMMA ChatCloses ==
  ASSUME NEW s, NEW told, NEW sc, NEW c, Listening(s, told, sc, c), s.upstream = "chat",
         told.reason # NoReason, NEW out, out = Chat!Flush(sc)
  PROVE  \E v : Serves(s, told, c, v, Flushed(out))
<1>1. PICK v : v = Owed(s, told, sc)
  OBVIOUS
<1>2. PICK next : next = Flushed(out)
  OBVIOUS
<1>3. /\ IsChat(sc) /\ KnownSource(sc.source) /\ sc.source = s.source
      /\ ChatAhead(s, told, sc, c) /\ ~sc.flushed
  BY DEF Listening, IsConverter, Ahead, ChatAhead
<1>4. v.after = Verdict(s, told) /\ v.after.reason # NoReason
  BY <1>1, VerdictHasReason DEF Owed, FromTo
<1>5. Agreed(v, sc) /\ Knows(c, v)
  BY <1>1, OwedIsAgreed
<1>6. /\ Events(sc.source, {v}, out.events)
      /\ sc.source = "claude" /\ Due(sc) => Concluded(sc.source, out.events)
      /\ sc.source # "openai" /\ sc.heldFinish # NoReason => Informed(sc.source, out.events)
      /\ sc.source = "openai-response" /\ sc.heldFinish # NoReason =>
           Concluded(sc.source, out.events)
  <2>1. IsChat(sc) /\ KnownSource(sc.source) /\ ~sc.flushed /\ Agreed(v, sc)
    BY <1>3, <1>5
  <2>2. sc.source = "claude" /\ Due(sc) => v.after.reason # NoReason
    BY <1>4
  <2>3. QED
    BY <2>1, <2>2, ChatFlushConcludes, SMTT(30)
<1>7. sc.source = "claude" => Due(sc)
  BY <1>3 DEF ChatAhead, Due
<1>8. next.events = out.events /\ next.done = TRUE /\ next.failed = FALSE
  BY <1>2 DEF Flushed
<1>9. ASSUME NEW d, Heard(v, s.source, next, c, d)
      PROVE  Served(s, told, next, d)
  <2>1. /\ Follows(v, c, d) /\ (Concluded(s.source, out.events) => d.ended)
        /\ Informed(s.source, out.events) => Is(d, v.after)
    BY <1>8, <1>9 DEF Heard
  <2>2. Is(d, Verdict(s, told)) /\ d.ended
    BY <1>1, <1>3, <1>6, <1>7, <2>1, OwedIsTold
  <2>3. Right(s, told, d)
    BY <2>2, ToldRight
  <2>4. QED
    BY <1>8, <2>2, <2>3 DEF Served
<1>10. Serves(s, told, c, v, next)
  BY <1>3, <1>5, <1>6, <1>8, <1>9 DEF Serves
<1>11. QED
  BY <1>2, <1>10

-----------------------------------------------------------------------------
(* An event of a Messages upstream.                                        *)

LEMMA StartedCounts ==
  ASSUME NEW sc, IsMessages(sc), sc.cacheRead = {}, sc.cacheCreation = {}, NEW usage,
         NEW d, d = Messages!Started(sc, usage)
  PROVE  /\ d.promptTokens = usage.input /\ d.completionTokens = sc.completionTokens
         /\ d.cacheRead = usage.cached /\ d.cacheCreation = usage.written
BY DEF Messages!Started, Messages!CaptureCache, IsMessages

LEMMA CountedCounts ==
  ASSUME NEW sc, IsMessages(sc), NEW usage, usage.input = 0, usage.cached = sc.cacheRead,
         usage.written = sc.cacheCreation, NEW d, d = Messages!Counted(sc, usage)
  PROVE  /\ d.promptTokens = sc.promptTokens /\ d.completionTokens = usage.output
         /\ d.cacheRead = sc.cacheRead /\ d.cacheCreation = sc.cacheCreation
BY DEF Messages!Counted, Messages!CaptureCache, IsMessages

LEMMA MessagesOpens ==
  ASSUME NEW s, NEW told, NEW sc, NEW c, Listening(s, told, sc, c), s.upstream = "messages",
         ~told.begun, NEW more, IsTold(s, more), more.begun, more.items = told.items,
         more.reason = told.reason, more.usage = told.usage,
         NEW line, line = MessageStart({OpeningUsage(s.usage)})
  PROVE  LineServes(s, told, sc, c, more, line)
<1>1. PICK v : v = FromTo(NoneYet, Beginning(s, more))
  OBVIOUS
<1>2. PICK next : next = Messages!Feed(sc, line)
  OBVIOUS
<1>3. PICK base : base = Counting(sc, line)
  OBVIOUS
<1>4. /\ IsMessages(sc) /\ KnownSource(sc.source) /\ sc.source = s.source
      /\ MessagesAhead(s, told, sc, c) /\ Right(s, told, c) /\ IsTold(s, told) /\ IsUsage(s.usage)
      /\ Passes(s) \/ (Seen("messages", sc) <=> HasCalls(told))
  BY DEF Listening, IsConverter, Ahead
<1>5. line.type = "message_start" /\ line.usage = {OpeningUsage(s.usage)}
  BY DEF MessageStart
<1>6. v.before = NoneYet /\ v.after = Beginning(s, more)
  BY <1>1 DEF FromTo
<1>7. told.reason = NoReason /\ more.reason = NoReason
  BY <1>4 DEF IsTold
<1>8. Beginning(s, told) = NoneYet
  BY BeginningIsNone
<1>9. Is(c, NoneYet) /\ ~c.ended
  BY <1>4, <1>7, <1>8, KnownRight
<1>10. sc.source = "claude" => Readable("claude", {v}, line)
  <2>1. sc.source = "claude" => v.after = [reason |-> NoReason, usage |-> OpeningUsage(s.usage)]
    BY <1>4, <1>6 DEF Beginning
  <2>2. sc.source = "claude" => Truthful("claude", v, line)
    BY <1>5, <1>6, <2>1 DEF Truthful, NoneYet
  <2>3. QED
    BY <2>2 DEF Readable
<1>11. /\ DOMAIN next = {"sc", "events", "done", "failed"}
       /\ SameStream(base, next.sc)
       /\ Events(sc.source, {v}, next.events)
       /\ sc.source = "claude" => next.events = <<line>>
       /\ sc.source = "openai-response" => next.sc.emitted
  <2>1. IsFrame(line)
    BY <1>5 DEF IsFrame
  <2>2. line.type # "message_delta" /\ line.type # "message_stop" /\ line.type # "error"
    BY <1>5
  <2>3. IsMessages(sc) /\ KnownSource(sc.source)
    BY <1>4
  <2>4. Tidings(sc, {v}, line)
    BY <1>10, <2>2 DEF Tidings
  <2>5. QED
    BY <1>2, <1>3, <1>5, <2>1, <2>3, <2>4, MessagesFeedTells
<1>12. HasCalls(more) <=> HasCalls(told)
  BY DEF HasCalls
<1>13. /\ ~base.flushed /\ base.source = s.source
       /\ Seen("messages", base) <=> Seen("messages", sc)
       /\ s.source # "claude" =>
            /\ base.promptTokens = s.usage.input /\ s.usage.input \in Nat
            /\ base.completionTokens \in Nat
            /\ base.cacheRead = s.usage.cached /\ base.cacheCreation = s.usage.written
  <2>1. CASE s.source = "claude"
    <3>1. base = sc
      BY <1>3, <1>4, <2>1 DEF Counting
    <3>2. QED
      BY <1>4, <2>1, <3>1 DEF MessagesAhead
  <2>2. CASE s.source # "claude"
    <3>1. PICK u : u = OpeningUsage(s.usage)
      OBVIOUS
    <3>2. Messages!UsageOf(line) = u
      BY <1>5, <3>1, OnlyMember DEF Messages!UsageOf
    <3>3. base = Messages!Started(sc, u)
      BY <1>3, <1>4, <1>5, <2>2, <3>2 DEF Counting
    <3>4. base.source = sc.source /\ base.flushed = sc.flushed /\ base.toolsSeen = sc.toolsSeen
      BY <1>4, <3>3, CountedKeeps
    <3>5. /\ u.input = s.usage.input /\ s.usage.input \in Nat
          /\ u.cached = s.usage.cached /\ u.written = s.usage.written
      BY <1>4, <3>1 DEF OpeningUsage, IsUsage
    <3>6. sc.cacheRead = {} /\ sc.cacheCreation = {} /\ ~sc.flushed /\ sc.completionTokens \in Nat
      BY <1>4, <2>2 DEF MessagesAhead
    <3>7. QED
      BY <1>4, <3>3, <3>4, <3>5, <3>6, StartedCounts DEF Seen
  <2>3. QED
    BY <2>1, <2>2
<1>14. ASSUME NEW d, Heard(v, s.source, next, c, d), ~next.failed
       PROVE  Listening(s, more, next.sc, d)
  <2>1. /\ Follows(v, c, d) /\ IsClient(d)
        /\ Informed(s.source, next.events) => Is(d, v.after)
    BY <1>14 DEF Heard, Follows
  <2>2. Is(d, Beginning(s, more)) /\ ~d.ended
    <3>1. ~d.ended
      BY <1>6, <1>9, <2>1 DEF Follows, Beginning
    <3>2. CASE s.source = "claude"
      <4>1. Informs("claude", line)
        BY <1>5 DEF Informs
      <4>2. Informed(s.source, next.events)
        BY <1>4, <1>11, <3>2, <4>1, OneConcludes
      <4>3. QED
        BY <1>6, <2>1, <3>1, <4>2 DEF Follows
    <3>3. CASE s.source # "claude"
      <4>1. Beginning(s, more) = NoneYet
        BY <3>3, BeginningIsNone
      <4>2. QED
        BY <1>6, <2>1, <3>1, <4>1 DEF Follows, Knows
    <3>4. QED
      BY <3>2, <3>3
  <2>3. Right(s, more, d)
    BY <2>2, BeginningRight
  <2>4. MessagesAhead(s, more, next.sc, d)
    BY <1>4, <1>7, <1>11, <1>13 DEF MessagesAhead, SameStream, SameCounts
  <2>5. IsMessages(next.sc) /\ next.sc.source = s.source /\ (Seen("messages", next.sc) <=> Seen("messages", sc))
    BY <1>11, <1>13 DEF SameStream, SameCounts, Seen
  <2>6. Passes(s) \/ (Seen("messages", next.sc) <=> HasCalls(more))
    BY <1>4, <1>12, <2>5
  <2>7. QED
    BY <1>4, <2>1, <2>3, <2>4, <2>5, <2>6 DEF Listening, IsConverter, Ahead
<1>15. \A d : Heard(v, s.source, next, c, d) => Served(s, more, next, d)
  BY <1>7, <1>14 DEF Served, Listening
<1>16. Serves(s, more, c, v, next)
  BY <1>4, <1>6, <1>9, <1>11, <1>15 DEF Serves, Knows
<1>17. QED
  BY <1>2, <1>11, <1>16 DEF LineServes, FeedBy

LEMMA MessagesEnds ==
  ASSUME NEW s, NEW told, NEW sc, NEW c, Listening(s, told, sc, c), s.upstream = "messages",
         told.begun, told.reason = NoReason, NEW reason \in Reasons("messages", HasCalls(told)),
         NEW more, IsTold(s, more), more.begun = told.begun, more.items = told.items,
         more.reason = reason,
         NEW line, line = MessageDelta(reason, {[s.usage EXCEPT !.input = 0]})
  PROVE  LineServes(s, told, sc, c, more, line)
<1>1. PICK v : v = IF s.source = "openai-response" THEN Still(NoneYet)
                   ELSE FromTo(Beginning(s, told), Verdict(s, more))
  OBVIOUS
<1>2. PICK next : next = Messages!Feed(sc, line)
  OBVIOUS
<1>3. PICK base : base = Counting(sc, line)
  OBVIOUS
<1>4. /\ IsMessages(sc) /\ KnownSource(sc.source) /\ sc.source = s.source
      /\ MessagesAhead(s, told, sc, c) /\ Right(s, told, c) /\ IsTold(s, told) /\ IsUsage(s.usage)
      /\ Passes(s) \/ (Seen("messages", sc) <=> HasCalls(told))
  BY DEF Listening, IsConverter, Ahead
<1>5. PICK u : u = [s.usage EXCEPT !.input = 0]
  OBVIOUS
<1>6. line.type = "message_delta" /\ line.usage = {u} /\ line.reason = reason
  BY <1>5 DEF MessageDelta
<1>7. reason # NoReason
  BY DEF Reasons, NoReason
<1>8. /\ s.source = "openai-response" => v.before = NoneYet /\ v.after = NoneYet
      /\ s.source # "openai-response" => v.before = Beginning(s, told) /\ v.after = Verdict(s, more)
  BY <1>1 DEF Still, FromTo
<1>9. Beginning(s, more) = Beginning(s, told) /\ (HasCalls(more) <=> HasCalls(told))
  BY DEF Beginning, HasCalls
<1>10. Is(c, Beginning(s, told)) /\ ~c.ended
  BY <1>4, KnownRight
<1>11. s.source # "claude" => Beginning(s, told) = NoneYet
  BY BeginningIsNone
<1>12. Knows(c, v)
  BY <1>8, <1>10, <1>11 DEF Knows
<1>13. sc.source = "claude" => Readable("claude", {v}, line)
  <2> SUFFICES ASSUME s.source = "claude" PROVE Truthful("claude", v, line)
    BY <1>4 DEF Readable
  <2>1. Tally(s, more) = s.usage
    BY DEF Tally
  <2>2. v.after = [reason |-> reason, usage |-> s.usage]
    BY <1>8, <2>1 DEF Verdict
  <2>3. v.before.usage = OpeningUsage(s.usage)
    BY <1>8 DEF Beginning
  <2>4. Settles(v, u)
    BY <1>4, <1>5, <2>2, <2>3, MergedDelta DEF Settles
  <2>5. \E w : line.usage = {w} /\ Settles(v, w)
    BY <1>6, <2>4
  <2>6. line.type = "message_delta" /\ line.reason = v.after.reason /\ line.reason # NoReason
    BY <1>6, <1>7, <2>2
  <2>7. QED
    BY <2>5, <2>6 DEF Truthful
<1>14. sc.source = "openai" => Is(v.after, OpenAISays(sc, line))
  <2> SUFFICES ASSUME s.source = "openai" PROVE Is(Verdict(s, more), OpenAISays(sc, line))
    BY <1>4, <1>8
  <2>1. sc.toolsSeen <=> HasCalls(more)
    BY <1>4, <1>9 DEF Passes, Seen, IsMessages
  <2>2. /\ sc.promptTokens = s.usage.input /\ sc.cacheRead = s.usage.cached
        /\ sc.cacheCreation = s.usage.written
    BY <1>4 DEF MessagesAhead
  <2>3. line = MessageDelta(more.reason, {[s.usage EXCEPT !.input = 0]})
    OBVIOUS
  <2>4. QED
    BY <1>4, <2>1, <2>2, <2>3, MessagesToChatSays
<1>15. /\ DOMAIN next = {"sc", "events", "done", "failed"}
       /\ SameStream(base, next.sc)
       /\ Events(sc.source, {v}, next.events)
       /\ sc.source = "claude" => next.events = <<line>>
       /\ sc.source = "openai" => Concluded("openai", next.events) /\ Informed("openai", next.events)
       /\ sc.source = "openai-response" => ~next.done
  <2>1. IsFrame(line)
    BY <1>6 DEF IsFrame
  <2>2. line.type # "message_start" /\ line.type # "message_stop" /\ line.type # "error"
    BY <1>6
  <2>3. IsMessages(sc) /\ KnownSource(sc.source)
    BY <1>4
  <2>4. PICK V : V = {v}
    OBVIOUS
  <2>5. Tidings(sc, V, line)
    BY <1>13, <1>14, <2>2, <2>4 DEF Tidings
  <2>6. /\ DOMAIN next = {"sc", "events", "done", "failed"}
        /\ SameStream(base, next.sc)
        /\ Events(sc.source, V, next.events)
        /\ sc.source = "claude" /\ line.type # "error" => next.events = <<line>>
        /\ sc.source = "openai" /\ line.type = "message_delta" =>
             Concluded("openai", next.events) /\ Informed("openai", next.events)
        /\ sc.source = "openai-response" => (line.type = "message_delta" => ~next.done)
    BY <1>2, <1>3, <2>1, <2>3, <2>5, MessagesFeedTells
  <2>7. QED
    BY <1>6, <2>2, <2>4, <2>6
<1>16. /\ ~base.flushed /\ base.source = s.source /\ (sc.emitted => base.emitted)
       /\ Seen("messages", base) <=> Seen("messages", sc)
       /\ s.source # "claude" =>
            /\ base.promptTokens = s.usage.input /\ base.promptTokens \in Nat
            /\ base.completionTokens = s.usage.output /\ base.completionTokens \in Nat
            /\ base.cacheRead = s.usage.cached /\ base.cacheCreation = s.usage.written
       /\ s.source = "openai-response" => base.stopReason = reason
  <2>1. CASE s.source = "claude"
    <3>1. base = sc
      BY <1>3, <1>4, <2>1 DEF Counting
    <3>2. QED
      BY <1>4, <2>1, <3>1 DEF MessagesAhead
  <2>2. CASE s.source # "claude"
    <3>1. Messages!UsageOf(line) = u
      BY <1>6, OnlyMember DEF Messages!UsageOf
    <3>2. PICK counted : counted = Messages!Counted(sc, u)
      OBVIOUS
    <3>3. /\ counted.source = sc.source /\ counted.flushed = sc.flushed
          /\ counted.emitted = sc.emitted /\ counted.toolsSeen = sc.toolsSeen
          /\ IsMessages(counted)
      BY <1>4, <3>2, CountedKeeps DEF SameStream, SameCounts
    <3>4. /\ ~sc.flushed /\ sc.promptTokens = s.usage.input
          /\ sc.cacheRead = s.usage.cached /\ sc.cacheCreation = s.usage.written
      BY <1>4, <2>2 DEF MessagesAhead
    <3>5. /\ u.input = 0 /\ u.output = s.usage.output
          /\ s.usage.input \in Nat /\ s.usage.output \in Nat
          /\ u.cached = s.usage.cached /\ u.written = s.usage.written
      BY <1>4, <1>5 DEF IsUsage
    <3>6. /\ counted.promptTokens = s.usage.input /\ counted.completionTokens = s.usage.output
          /\ counted.cacheRead = s.usage.cached /\ counted.cacheCreation = s.usage.written
      BY <1>4, <3>2, <3>4, <3>5, CountedCounts
    <3>7. s.source = "openai" => base = counted
      BY <1>3, <1>4, <1>6, <3>1, <3>2 DEF Counting
    <3>8. s.source = "openai-response" => base = [counted EXCEPT !.stopReason = reason]
      BY <1>3, <1>4, <1>6, <3>1, <3>2 DEF Counting
    <3>9. s.source = "openai" \/ s.source = "openai-response"
      BY <1>4, <2>2 DEF KnownSource
    <3>10. QED
      BY <1>4, <3>3, <3>4, <3>5, <3>6, <3>7, <3>8, <3>9 DEF Seen, IsMessages
  <2>3. QED
    BY <2>1, <2>2
<1>17. ASSUME NEW d, Heard(v, s.source, next, c, d), ~next.failed
       PROVE  /\ Right(s, more, d) /\ IsClient(d)
              /\ s.source = "openai" => d.ended
              /\ s.source = "claude" => d.reason # NoReason
  <2>1. /\ Follows(v, c, d) /\ IsClient(d)
        /\ Concluded(s.source, next.events) => d.ended
        /\ Informed(s.source, next.events) => Is(d, v.after)
    BY <1>17 DEF Heard, Follows
  <2>2. CASE s.source = "openai-response"
    <3>1. Right(s, more, d)
      BY <1>1, <1>4, <1>7, <1>9, <1>10, <1>11, <2>1, <2>2, StaysRight
    <3>2. QED
      BY <2>1, <2>2, <3>1
  <2>3. CASE s.source # "openai-response"
    <3>1. Informs("claude", line)
      BY <1>6 DEF Informs
    <3>2. Informed(s.source, next.events)
      BY <1>4, <1>15, <2>3, <3>1, OneConcludes DEF KnownSource
    <3>3. Is(d, Verdict(s, more))
      BY <1>8, <2>1, <2>3, <3>2
    <3>4. Right(s, more, d) /\ d.reason # NoReason
      BY <1>7, <3>3, ToldRight, VerdictHasReason DEF Is
    <3>5. QED
      BY <1>4, <1>15, <2>1, <2>3, <3>4
  <2>4. QED
    BY <2>2, <2>3
<1>18. ASSUME NEW d, Heard(v, s.source, next, c, d), ~next.failed
       PROVE  Listening(s, more, next.sc, d)
  <2>1. MessagesAhead(s, more, next.sc, d)
    BY <1>4, <1>15, <1>16, <1>17, <1>18 DEF MessagesAhead, SameStream, SameCounts
  <2>2. IsMessages(next.sc) /\ next.sc.source = s.source /\ (Seen("messages", next.sc) <=> Seen("messages", sc))
    BY <1>15, <1>16 DEF SameStream, SameCounts, Seen
  <2>3. Passes(s) \/ (Seen("messages", next.sc) <=> HasCalls(more))
    BY <1>4, <1>9, <2>2
  <2>4. QED
    BY <1>4, <1>17, <1>18, <2>1, <2>2, <2>3 DEF Listening, IsConverter, Ahead
<1>19. ASSUME NEW d, Heard(v, s.source, next, c, d)
       PROVE  Served(s, more, next, d)
  <2>1. CASE next.failed
    <3>1. d = c
      BY <1>19, <2>1 DEF Heard
    <3>2. Right(s, more, d)
      BY <1>4, <1>9, <3>1, FailsRight
    <3>3. QED
      BY <2>1, <3>2 DEF Served
  <2>2. CASE ~next.failed
    BY <1>4, <1>15, <1>17, <1>18, <1>19, <2>2 DEF Served, KnownSource
  <2>3. QED
    BY <2>1, <2>2
<1>20. Serves(s, more, c, v, next)
  BY <1>4, <1>12, <1>15, <1>19 DEF Serves
<1>21. QED
  BY <1>2, <1>15, <1>20 DEF LineServes, FeedBy

\* At its end a Messages stream still owes a Responses client all of it.
Pending(s, told) ==
  FromTo(IF s.source = "openai-response" THEN NoneYet ELSE Verdict(s, told), Verdict(s, told))

LEMMA PendingIsKnown ==
  ASSUME NEW s, NEW told, NEW sc, NEW c, Listening(s, told, sc, c), s.upstream = "messages",
         told.reason # NoReason, NEW v, v = Pending(s, told)
  PROVE  /\ Knows(c, v) /\ v.after = Verdict(s, told) /\ v.after.reason # NoReason
         /\ s.source # "openai-response" => v = Still(Verdict(s, told))
         /\ s.source = "openai-response" => Is(v.after, CompletedSays(sc)) /\ sc.emitted
<1>1. /\ MessagesAhead(s, told, sc, c) /\ Right(s, told, c) /\ IsTold(s, told)
      /\ KnownSource(s.source)
  BY DEF Listening, Ahead
<1>2. v.after = Verdict(s, told) /\ v.after.reason # NoReason
  BY VerdictHasReason DEF Pending, FromTo
<1>3. CASE s.source = "openai-response"
  <2>1. v.before = NoneYet
    BY <1>3 DEF Pending, FromTo
  <2>2. Beginning(s, told) = NoneYet
    BY <1>3, BeginningIsNone
  <2>3. Knows(c, v)
    BY <1>1, <1>2, <2>1, <2>2 DEF Right, Knows
  <2>4. /\ sc.stopReason = told.reason /\ sc.promptTokens = s.usage.input
        /\ sc.completionTokens = s.usage.output /\ sc.cacheRead = s.usage.cached
        /\ sc.cacheCreation = s.usage.written /\ sc.emitted
    BY <1>1, <1>3 DEF MessagesAhead, IsTold
  <2>5. Is(Verdict(s, told), CompletedSays(sc))
    BY <1>3, <2>4, MessagesToResponsesSays
  <2>6. QED
    BY <1>2, <1>3, <2>3, <2>4, <2>5
<1>4. CASE s.source # "openai-response"
  <2>1. v = Still(Verdict(s, told))
    BY <1>4 DEF Pending, Still
  <2>2. c.reason # NoReason
    BY <1>1, <1>4 DEF MessagesAhead, Right, KnownSource
  <2>3. Is(c, Verdict(s, told))
    BY <1>1, <2>2, KnownRight
  <2>4. QED
    BY <1>2, <1>4, <2>1, <2>3 DEF Knows
<1>5. QED
  BY <1>3, <1>4

\* What a client knows that has been told all a Messages stream will tell it.
LEMMA PendingIsTold ==
  ASSUME NEW s, NEW told, NEW sc, NEW c, Listening(s, told, sc, c), s.upstream = "messages",
         told.reason # NoReason, NEW v, v = Pending(s, told), NEW d, Follows(v, c, d),
         s.source = "openai-response" => Is(d, v.after) /\ d.ended
  PROVE  /\ Right(s, told, d) /\ d.reason # NoReason
         /\ s.source # "claude" => d.ended
<1>1. v.after = Verdict(s, told) /\ v.after.reason # NoReason
  BY PendingIsKnown
<1>2. MessagesAhead(s, told, sc, c) /\ KnownSource(s.source)
  BY DEF Listening, Ahead
<1>3. Is(d, Verdict(s, told))
  <2>1. CASE s.source = "openai-response"
    BY <1>1, <2>1
  <2>2. CASE s.source # "openai-response"
    <3>1. v = Still(Verdict(s, told))
      BY <2>2, PendingIsKnown
    <3>2. QED
      BY <1>1, <3>1 DEF Follows, Knows, Still, FromTo
  <2>3. QED
    BY <2>1, <2>2
<1>4. Right(s, told, d) /\ d.reason # NoReason
  BY <1>1, <1>3, ToldRight DEF Is
<1>5. s.source = "openai" => d.ended
  BY <1>2 DEF MessagesAhead, Follows
<1>6. QED
  BY <1>2, <1>4, <1>5 DEF KnownSource

LEMMA MessagesStops ==
  ASSUME NEW s, NEW told, NEW sc, NEW c, Listening(s, told, sc, c), s.upstream = "messages",
         told.reason # NoReason,
         NEW more, IsTold(s, more), more.begun = told.begun, more.items = told.items,
         more.reason = told.reason, more.usage = told.usage,
         NEW line, line.type = "message_stop"
  PROVE  LineServes(s, told, sc, c, more, line)
<1>1. PICK v : v = Pending(s, told)
  OBVIOUS
<1>2. PICK next : next = Messages!Feed(sc, line)
  OBVIOUS
<1>3. /\ IsMessages(sc) /\ KnownSource(sc.source) /\ sc.source = s.source
      /\ MessagesAhead(s, told, sc, c) /\ Right(s, told, c)
      /\ Passes(s) \/ (Seen("messages", sc) <=> HasCalls(told))
  BY DEF Listening, IsConverter, Ahead
<1>4. /\ Knows(c, v) /\ v.after.reason # NoReason
      /\ s.source = "openai-response" => Is(v.after, CompletedSays(sc))
  BY <1>1, PendingIsKnown
<1>5. /\ HasCalls(more) <=> HasCalls(told)
      /\ \A d : Right(s, more, d) <=> Right(s, told, d)
  BY SameVerdict
<1>6. Counting(sc, line) = sc
  BY <1>3 DEF Counting, KnownSource
<1>7. /\ DOMAIN next = {"sc", "events", "done", "failed"}
      /\ SameStream(sc, next.sc)
      /\ Events(sc.source, {v}, next.events)
      /\ sc.source = "openai-response" =>
           Concluded(sc.source, next.events) /\ Informed(sc.source, next.events)
  <2>1. PICK V : V = {v}
    OBVIOUS
  <2>2. Readable("claude", V, line)
    BY <1>4, <2>1 DEF Readable, Truthful
  <2>3. Tidings(sc, V, line)
    BY <1>3, <1>4, <2>1, <2>2 DEF Tidings
  <2>4. IsFrame(line) /\ IsMessages(sc) /\ KnownSource(sc.source)
    BY <1>3 DEF IsFrame
  <2>5. /\ DOMAIN next = {"sc", "events", "done", "failed"}
        /\ SameStream(sc, next.sc)
        /\ Events(sc.source, V, next.events)
        /\ sc.source = "openai-response" =>
             (line.type = "message_stop" =>
                Concluded(sc.source, next.events) /\ Informed(sc.source, next.events))
    BY <1>2, <1>6, <2>3, <2>4, MessagesFeedTells
  <2>6. QED
    BY <2>1, <2>5
<1>8. ASSUME NEW d, Heard(v, s.source, next, c, d), ~next.failed
      PROVE  /\ Right(s, told, d) /\ IsClient(d) /\ d.reason # NoReason
             /\ s.source # "claude" => d.ended
  <2>1. /\ Follows(v, c, d) /\ IsClient(d)
        /\ Concluded(s.source, next.events) => d.ended
        /\ Informed(s.source, next.events) => Is(d, v.after)
    BY <1>8 DEF Heard, Follows
  <2>2. s.source = "openai-response" => Is(d, v.after) /\ d.ended
    BY <1>3, <1>7, <2>1
  <2>3. QED
    BY <1>1, <2>1, <2>2, PendingIsTold
<1>9. ASSUME NEW d, Heard(v, s.source, next, c, d), ~next.failed
      PROVE  Listening(s, more, next.sc, d)
  <2>1. MessagesAhead(s, more, next.sc, d)
    BY <1>3, <1>7, <1>8, <1>9 DEF MessagesAhead, SameStream, SameCounts
  <2>2. IsMessages(next.sc) /\ next.sc.source = s.source /\ (Seen("messages", next.sc) <=> Seen("messages", sc))
    BY <1>3, <1>7 DEF SameStream, SameCounts, Seen
  <2>3. QED
    BY <1>3, <1>5, <1>8, <1>9, <2>1, <2>2 DEF Listening, IsConverter, Ahead
<1>10. ASSUME NEW d, Heard(v, s.source, next, c, d)
       PROVE  Served(s, more, next, d)
  <2>1. CASE next.failed
    BY <1>3, <1>5, <1>10, <2>1 DEF Heard, Served
  <2>2. CASE ~next.failed
    BY <1>5, <1>8, <1>9, <1>10, <2>2 DEF Served
  <2>3. QED
    BY <2>1, <2>2
<1>11. Serves(s, more, c, v, next)
  BY <1>3, <1>4, <1>7, <1>10 DEF Serves
<1>12. QED
  BY <1>2, <1>7, <1>11 DEF LineServes, FeedBy

LEMMA MessagesFails ==
  ASSUME NEW s, NEW told, NEW sc, NEW c, Listening(s, told, sc, c), s.upstream = "messages",
         NEW more, IsTold(s, more), more.begun = told.begun, more.items = told.items,
         more.reason = told.reason, more.usage = told.usage,
         NEW line, line.type = "error"
  PROVE  LineServes(s, told, sc, c, more, line)
<1>1. PICK v : v = Still(c)
  OBVIOUS
<1>2. PICK next : next = Messages!Feed(sc, line)
  OBVIOUS
<1>3. /\ IsMessages(sc) /\ KnownSource(sc.source) /\ sc.source = s.source
      /\ MessagesAhead(s, told, sc, c) /\ Right(s, told, c)
      /\ Passes(s) \/ (Seen("messages", sc) <=> HasCalls(told))
  BY DEF Listening, IsConverter, Ahead
<1>4. /\ HasCalls(more) <=> HasCalls(told)
      /\ Verdict(s, more) = Verdict(s, told) /\ Beginning(s, more) = Beginning(s, told)
      /\ \A d : Right(s, more, d) <=> Right(s, told, d)
  BY SameVerdict
<1>5. Counting(sc, line) = sc
  BY <1>3 DEF Counting, KnownSource
<1>6. /\ DOMAIN next = {"sc", "events", "done", "failed"}
      /\ SameStream(sc, next.sc)
      /\ Events(sc.source, {v}, next.events)
      /\ sc.source = "openai-response" => next.failed
  <2>1. Tidings(sc, {}, line)
    BY DEF Tidings, Readable, Mute
  <2>2. IsFrame(line) /\ IsMessages(sc) /\ KnownSource(sc.source)
    BY <1>3 DEF IsFrame
  <2>3. /\ DOMAIN next = {"sc", "events", "done", "failed"}
        /\ SameStream(sc, next.sc)
        /\ Events(sc.source, {}, next.events)
        /\ sc.source = "openai-response" => (line.type = "error" => next.failed)
    BY <1>2, <1>5, <2>1, <2>2, MessagesFeedTells
  <2>4. QED
    BY <2>3, MuteEvents
<1>7. ASSUME NEW d, Heard(v, s.source, next, c, d), ~next.failed
      PROVE  Right(s, more, d) /\ Is(d, c) /\ IsClient(d) /\ (c.ended => d.ended)
  <2>1. Follows(Still(c), c, d) /\ Is(c, c)
    BY <1>1, <1>7 DEF Heard, Is
  <2>2. Right(s, more, d) /\ Is(d, c)
    BY <1>3, <1>4, <2>1, StaysRight
  <2>3. QED
    BY <2>1, <2>2 DEF Follows
<1>8. ASSUME NEW d, Heard(v, s.source, next, c, d), ~next.failed
      PROVE  Listening(s, more, next.sc, d)
  <2>1. MessagesAhead(s, more, next.sc, d)
    BY <1>3, <1>6, <1>7, <1>8 DEF MessagesAhead, SameStream, SameCounts, Is
  <2>2. IsMessages(next.sc) /\ next.sc.source = s.source /\ (Seen("messages", next.sc) <=> Seen("messages", sc))
    BY <1>3, <1>6 DEF SameStream, SameCounts, Seen
  <2>3. QED
    BY <1>3, <1>4, <1>7, <1>8, <2>1, <2>2 DEF Listening, IsConverter, Ahead
<1>9. ASSUME NEW d, Heard(v, s.source, next, c, d)
      PROVE  Served(s, more, next, d)
  <2>1. CASE next.failed
    BY <1>3, <1>4, <1>9, <2>1 DEF Heard, Served
  <2>2. CASE ~next.failed
    <3>1. more.reason # NoReason => d.ended \/ s.source = "claude"
      BY <1>3, <1>6, <1>7, <1>9, <2>2 DEF MessagesAhead, KnownSource
    <3>2. QED
      BY <1>7, <1>8, <1>9, <2>2, <3>1 DEF Served
  <2>3. QED
    BY <2>1, <2>2
<1>10. Knows(c, v)
  BY <1>1, KnowsItself
<1>11. Serves(s, more, c, v, next)
  BY <1>3, <1>6, <1>9, <1>10 DEF Serves
<1>12. QED
  BY <1>2, <1>6, <1>11 DEF LineServes, FeedBy

LEMMA MessagesCloses ==
  ASSUME NEW s, NEW told, NEW sc, NEW c, Listening(s, told, sc, c), s.upstream = "messages",
         told.reason # NoReason, NEW out, out = Messages!Flush(sc)
  PROVE  \E v : Serves(s, told, c, v, Flushed(out))
<1>1. PICK v : v = Pending(s, told)
  OBVIOUS
<1>2. PICK next : next = Flushed(out)
  OBVIOUS
<1>3. /\ IsMessages(sc) /\ KnownSource(sc.source) /\ sc.source = s.source /\ ~sc.flushed
  BY DEF Listening, IsConverter, Ahead, MessagesAhead
<1>4. /\ Knows(c, v)
      /\ s.source = "openai-response" => Is(v.after, CompletedSays(sc)) /\ sc.emitted
  BY <1>1, PendingIsKnown
<1>5. /\ Events(sc.source, {v}, out.events)
      /\ sc.source = "openai-response" =>
           Concluded(sc.source, out.events) /\ Informed(sc.source, out.events)
  <2>1. PICK V : V = {v}
    OBVIOUS
  <2>2. sc.source = "openai-response" /\ sc.emitted => \E w \in V : Is(w.after, CompletedSays(sc))
    BY <1>3, <1>4, <2>1
  <2>3. /\ Events(sc.source, V, out.events)
        /\ sc.source = "openai-response" /\ sc.emitted =>
             Concluded(sc.source, out.events) /\ Informed(sc.source, out.events)
    BY <1>3, <2>2, MessagesFlushConcludes
  <2>4. QED
    BY <1>3, <1>4, <2>1, <2>3
<1>6. next.events = out.events /\ next.done = TRUE /\ next.failed = FALSE
  BY <1>2 DEF Flushed
<1>7. ASSUME NEW d, Heard(v, s.source, next, c, d)
      PROVE  Served(s, told, next, d)
  <2>1. /\ Follows(v, c, d) /\ (Concluded(s.source, out.events) => d.ended)
        /\ Informed(s.source, out.events) => Is(d, v.after)
    BY <1>6, <1>7 DEF Heard
  <2>2. s.source = "openai-response" => Is(d, v.after) /\ d.ended
    BY <1>3, <1>5, <2>1
  <2>3. Right(s, told, d) /\ (s.source # "claude" => d.ended)
    BY <1>1, <2>1, <2>2, PendingIsTold
  <2>4. QED
    BY <1>6, <2>3 DEF Served
<1>8. Serves(s, told, c, v, next)
  BY <1>3, <1>4, <1>5, <1>6, <1>7 DEF Serves
<1>9. QED
  BY <1>2, <1>8

-----------------------------------------------------------------------------
(* An event of a Responses upstream.                                       *)

\* What a Responses stream tells before its end, v can tell.
Disclosed(sc, V, ev) ==
  /\ sc.source = "claude" /\ ev.type = "response.created" =>
       \E v \in V : v.before.reason = v.after.reason /\ v.after.usage = NoUsage
  /\ sc.source # "openai-response" /\ ev.type = "response.completed" =>
       \E v \in V : /\ Is(v.after, TerminalSays(sc, ev))
                    /\ sc.source = "claude" => Settles(v, v.after.usage)
  /\ sc.source = "openai-response" /\ ev.type = "response.completed" =>
       Readable("openai-response", V, ev)

\* The event that is neither of an item nor of a call.
LEMMA ResponsesLineTells ==
  ASSUME NEW sc, IsResponses(sc), KnownSource(sc.source), NEW ev,
         ev.type \in {"response.created", "response.completed", "error"},
         NEW V, Disclosed(sc, V, ev), NEW out, out = Responses!Feed(sc, ev)
  PROVE  /\ DOMAIN out = {"sc", "events", "done", "failed"}
         /\ SameSource(sc, out.sc)
         /\ Events(sc.source, V, out.events)
         /\ ev.type = "response.completed" =>
              Concluded(sc.source, out.events) /\ Informed(sc.source, out.events)
<1>1. PICK base : base = Heeded(sc, ev)
  OBVIOUS
<1>2. base = sc
  BY <1>1 DEF Heeded
<1>3. /\ sc.source = "claude" /\ ev.type = "response.created" =>
           \E v \in V : v.before.reason = v.after.reason /\ v.after.usage = NoUsage
      /\ sc.source # "openai-response" /\ ev.type = "response.completed" =>
           \E v \in V : /\ Is(v.after, TerminalSays(sc, ev))
                        /\ sc.source = "claude" => Settles(v, v.after.usage)
      /\ sc.source = "openai-response" /\ ev.type = "response.completed" =>
           Readable("openai-response", V, ev)
  BY DEF Disclosed
<1>4. /\ DOMAIN out = {"sc", "events", "done", "failed"}
      /\ SameSource(base, out.sc)
      /\ Events(sc.source, V, out.events)
      /\ ev.type = "response.completed" =>
           Concluded(sc.source, out.events) /\ Informed(sc.source, out.events)
  BY <1>1, <1>3, ResponsesFeedTells, Zenon
<1>5. QED
  BY <1>2, <1>4

LEMMA ResponsesOpens ==
  ASSUME NEW s, NEW told, NEW sc, NEW c, Listening(s, told, sc, c), s.upstream = "responses",
         ~told.begun, NEW more, IsTold(s, more), more.begun, more.items = told.items,
         more.reason = told.reason, more.usage = told.usage,
         NEW line, line = Created
  PROVE  LineServes(s, told, sc, c, more, line)
<1>1. PICK v : v = Still(NoneYet)
  OBVIOUS
<1>2. PICK next : next = Responses!Feed(sc, line)
  OBVIOUS
<1>3. /\ IsResponses(sc) /\ KnownSource(sc.source) /\ sc.source = s.source
      /\ Right(s, told, c) /\ IsTold(s, told)
      /\ Passes(s) \/ (Seen("responses", sc) <=> HasCalls(told))
  BY DEF Listening, IsConverter
<1>4. line.type = "response.created"
  BY DEF Created
<1>5. v.before = NoneYet /\ v.after = NoneYet
  BY <1>1 DEF Still, FromTo
<1>6. told.reason = NoReason /\ more.reason = NoReason
  BY <1>3 DEF IsTold
<1>7. Beginning(s, told) = NoneYet /\ Beginning(s, more) = NoneYet
  BY BeginningIsNone
<1>8. Is(c, NoneYet) /\ ~c.ended
  BY <1>3, <1>6, <1>7, KnownRight
<1>9. PICK V : V = {v}
  OBVIOUS
<1>10. Disclosed(sc, V, line)
  BY <1>4, <1>5, <1>9 DEF Disclosed, NoneYet
<1>11. /\ DOMAIN next = {"sc", "events", "done", "failed"}
       /\ SameSource(sc, next.sc) /\ Events(sc.source, {v}, next.events)
  BY <1>2, <1>3, <1>4, <1>9, <1>10, ResponsesLineTells
<1>12. HasCalls(more) <=> HasCalls(told)
  BY DEF HasCalls
<1>13. ASSUME NEW d, Heard(v, s.source, next, c, d)
       PROVE  Served(s, more, next, d)
  <2>1. CASE next.failed
    BY <1>6, <2>1 DEF Served
  <2>2. CASE ~next.failed
    <3>1. Follows(v, c, d) /\ IsClient(d)
      BY <1>13, <2>2 DEF Heard, Follows
    <3>2. Right(s, more, d)
      BY <1>1, <1>3, <1>6, <1>7, <1>8, <3>1, StaysRight
    <3>3. Seen("responses", next.sc) <=> Seen("responses", sc)
      BY <1>11 DEF SameSource, Seen
    <3>4. Listening(s, more, next.sc, d)
      BY <1>3, <1>6, <1>11, <1>12, <3>1, <3>2, <3>3
      DEF Listening, IsConverter, Ahead, SameSource
    <3>5. QED
      BY <1>6, <2>2, <3>2, <3>4 DEF Served
  <2>3. QED
    BY <2>1, <2>2
<1>14. Serves(s, more, c, v, next)
  BY <1>3, <1>5, <1>8, <1>11, <1>13 DEF Serves, Knows
<1>15. QED
  BY <1>2, <1>11, <1>14 DEF LineServes, FeedBy

LEMMA ResponsesEnds ==
  ASSUME NEW s, NEW told, NEW sc, NEW c, Listening(s, told, sc, c), s.upstream = "responses",
         told.begun, told.reason = NoReason, NEW reason \in Reasons("responses", HasCalls(told)),
         NEW more, IsTold(s, more), more.begun = told.begun, more.items = told.items,
         more.reason = reason,
         NEW output, NEW line, line = Completed(reason, s.usage, output)
  PROVE  LineServes(s, told, sc, c, more, line)
<1>1. PICK v : v = FromTo(NoneYet, Verdict(s, more))
  OBVIOUS
<1>2. PICK next : next = Responses!Feed(sc, line)
  OBVIOUS
<1>3. /\ IsResponses(sc) /\ KnownSource(sc.source) /\ sc.source = s.source
      /\ Right(s, told, c) /\ IsTold(s, told)
      /\ Passes(s) \/ (Seen("responses", sc) <=> HasCalls(told))
  BY DEF Listening, IsConverter
<1>4. line.type = "response.completed" /\ line.status = reason /\ line.usage = {s.usage}
  BY DEF Completed
<1>5. reason # NoReason
  BY DEF Reasons, NoReason
<1>6. v.before = NoneYet /\ v.after = Verdict(s, more)
  BY <1>1 DEF FromTo
<1>7. Beginning(s, told) = NoneYet /\ Beginning(s, more) = NoneYet
  BY BeginningIsNone
<1>8. Is(c, NoneYet) /\ ~c.ended
  BY <1>3, <1>7, KnownRight
<1>9. HasCalls(more) <=> HasCalls(told)
  BY DEF HasCalls
<1>10. PICK V : V = {v}
  OBVIOUS
<1>11. Disclosed(sc, V, line)
  <2>1. CASE sc.source = "openai-response"
    <3>1. Tally(s, more) = s.usage
      BY DEF Tally
    <3>2. v.after = [reason |-> reason, usage |-> s.usage]
      BY <1>3, <1>6, <2>1, <3>1 DEF Verdict
    <3>3. Truthful("openai-response", v, line)
      BY <1>4, <1>5, <3>2 DEF Truthful
    <3>4. QED
      BY <1>4, <1>10, <2>1, <3>3 DEF Disclosed, Readable
  <2>2. CASE sc.source # "openai-response"
    <3>1. s.source \in {"openai", "claude"} /\ (sc.toolCallsSeen = TRUE <=> HasCalls(more))
      BY <1>3, <1>9, <2>2 DEF KnownSource, Passes, Seen
    <3>2. line = Completed(more.reason, s.usage, output)
      OBVIOUS
    <3>3. Is(v.after, TerminalSays(sc, line)) /\ (s.source = "claude" => Settles(v, v.after.usage))
      BY <1>3, <1>6, <3>1, <3>2, ResponsesTerminalSays
    <3>4. QED
      BY <1>3, <1>4, <1>10, <2>2, <3>3 DEF Disclosed
  <2>3. QED
    BY <2>1, <2>2
<1>12. /\ DOMAIN next = {"sc", "events", "done", "failed"}
       /\ SameSource(sc, next.sc) /\ Events(sc.source, {v}, next.events)
       /\ Concluded(sc.source, next.events) /\ Informed(sc.source, next.events)
  BY <1>2, <1>3, <1>4, <1>10, <1>11, ResponsesLineTells
<1>13. ASSUME NEW d, Heard(v, s.source, next, c, d)
       PROVE  Served(s, more, next, d)
  <2>1. CASE next.failed
    <3>1. Right(s, more, d)
      BY <1>3, <1>7, <1>13, <2>1, FailsRight DEF Heard
    <3>2. QED
      BY <2>1, <3>1 DEF Served
  <2>2. CASE ~next.failed
    <3>1. IsClient(d) /\ d.ended /\ Is(d, Verdict(s, more))
      BY <1>3, <1>6, <1>12, <1>13, <2>2 DEF Heard, Follows
    <3>2. Right(s, more, d)
      BY <1>5, <3>1, ToldRight
    <3>3. Seen("responses", next.sc) <=> Seen("responses", sc)
      BY <1>12 DEF SameSource, Seen
    <3>4. Listening(s, more, next.sc, d)
      BY <1>3, <1>9, <1>12, <3>1, <3>2, <3>3 DEF Listening, IsConverter, Ahead, SameSource
    <3>5. QED
      BY <3>1, <3>2, <3>4 DEF Served
  <2>3. QED
    BY <2>1, <2>2
<1>14. Serves(s, more, c, v, next)
  BY <1>3, <1>6, <1>8, <1>12, <1>13 DEF Serves, Knows
<1>15. QED
  BY <1>2, <1>12, <1>14 DEF LineServes, FeedBy

LEMMA ResponsesFails ==
  ASSUME NEW s, NEW told, NEW sc, NEW c, Listening(s, told, sc, c), s.upstream = "responses",
         NEW more, IsTold(s, more), more.begun = told.begun, more.items = told.items,
         more.reason = told.reason, more.usage = told.usage,
         NEW line, line.type = "error"
  PROVE  LineServes(s, told, sc, c, more, line)
<1>1. PICK v : v = Still(c)
  OBVIOUS
<1>2. PICK next : next = Responses!Feed(sc, line)
  OBVIOUS
<1>3. /\ IsResponses(sc) /\ KnownSource(sc.source) /\ sc.source = s.source /\ Right(s, told, c)
      /\ told.reason # NoReason => c.ended
      /\ Passes(s) \/ (Seen("responses", sc) <=> HasCalls(told))
  BY DEF Listening, IsConverter, Ahead
<1>4. /\ HasCalls(more) <=> HasCalls(told)
      /\ Verdict(s, more) = Verdict(s, told) /\ Beginning(s, more) = Beginning(s, told)
      /\ \A d : Right(s, more, d) <=> Right(s, told, d)
  BY SameVerdict
<1>5. PICK V : V = {v}
  OBVIOUS
<1>6. Disclosed(sc, V, line)
  BY DEF Disclosed
<1>7. /\ DOMAIN next = {"sc", "events", "done", "failed"}
      /\ SameSource(sc, next.sc) /\ Events(sc.source, {v}, next.events)
  BY <1>2, <1>3, <1>5, <1>6, ResponsesLineTells
<1>8. ASSUME NEW d, Heard(v, s.source, next, c, d)
      PROVE  Served(s, more, next, d)
  <2>1. CASE next.failed
    BY <1>3, <1>4, <1>8, <2>1 DEF Heard, Served
  <2>2. CASE ~next.failed
    <3>1. Follows(Still(c), c, d) /\ Is(c, c)
      BY <1>1, <1>8, <2>2 DEF Heard, Is
    <3>2. Right(s, more, d)
      BY <1>3, <1>4, <3>1, StaysRight
    <3>3. IsClient(d) /\ (c.ended => d.ended)
      BY <3>1 DEF Follows
    <3>4. Seen("responses", next.sc) <=> Seen("responses", sc)
      BY <1>7 DEF SameSource, Seen
    <3>5. Listening(s, more, next.sc, d)
      BY <1>3, <1>4, <1>7, <3>2, <3>3, <3>4 DEF Listening, IsConverter, Ahead, SameSource
    <3>6. QED
      BY <1>3, <3>2, <3>3, <3>5 DEF Served
  <2>3. QED
    BY <2>1, <2>2
<1>9. Knows(c, v)
  BY <1>1, KnowsItself
<1>10. Serves(s, more, c, v, next)
  BY <1>3, <1>7, <1>8, <1>9 DEF Serves
<1>11. QED
  BY <1>2, <1>7, <1>10 DEF LineServes, FeedBy

LEMMA ResponsesCloses ==
  ASSUME NEW s, NEW told, NEW sc, NEW c, Listening(s, told, sc, c), s.upstream = "responses",
         told.reason # NoReason, NEW out, out.events = <<>>
  PROVE  \E v : Serves(s, told, c, v, Flushed(out))
<1>1. PICK v : v = Still(c)
  OBVIOUS
<1>2. PICK next : next = Flushed(out)
  OBVIOUS
<1>3. Right(s, told, c) /\ c.ended
  BY DEF Listening, Ahead
<1>4. next.events = <<>> /\ next.done = TRUE /\ next.failed = FALSE
  BY <1>2 DEF Flushed
<1>5. Knows(c, v) /\ Events(s.source, {v}, <<>>)
  BY <1>1, KnowsItself, NoEvents
<1>6. ASSUME NEW d, Heard(v, s.source, next, c, d)
      PROVE  Served(s, told, next, d)
  <2>1. Follows(Still(c), c, d) /\ Is(c, c)
    BY <1>1, <1>4, <1>6 DEF Heard, Is
  <2>2. Right(s, told, d)
    BY <1>3, <2>1, StaysRight
  <2>3. d.ended
    BY <1>3, <2>1 DEF Follows
  <2>4. QED
    BY <1>4, <2>2, <2>3 DEF Served
<1>7. Serves(s, told, c, v, next)
  BY <1>4, <1>5, <1>6 DEF Serves
<1>8. QED
  BY <1>2, <1>7

-----------------------------------------------------------------------------
(* The upstream goes on talking.                                           *)

LEMMA AppendedCalls ==
  ASSUME NEW told, IsSeq(told.items), NEW item, NEW more, more.items = Append(told.items, item)
  PROVE  HasCalls(more) <=> HasCalls(told) \/ item.kind = "call"
<1>1. PICK items : items = told.items
  OBVIOUS
<1>2. PICK X : items \in Seq(X)
  BY <1>1 DEF IsSeq
<1>3. PICK Y : Y = X \cup {item}
  OBVIOUS
<1>4. items \in Seq(Y) /\ item \in Y
  BY <1>2, <1>3
<1>5. /\ DOMAIN Append(items, item) = 1..Len(items) + 1 /\ DOMAIN items = 1..Len(items)
      /\ Len(items) \in Nat
      /\ \A i \in 1..Len(items) : Append(items, item)[i] = items[i]
      /\ Append(items, item)[Len(items) + 1] = item
  BY <1>4
<1>6. PICK all : all = Append(items, item)
  OBVIOUS
<1>7. HasCalls(more) => HasCalls(told) \/ item.kind = "call"
  <2> SUFFICES ASSUME NEW i \in 1..Len(items) + 1, all[i].kind = "call"
               PROVE  (\E k \in 1..Len(items) : items[k].kind = "call") \/ item.kind = "call"
    BY <1>1, <1>5, <1>6 DEF HasCalls
  <2>1. i \in 1..Len(items) \/ i = Len(items) + 1
    BY <1>5
  <2>2. QED
    BY <1>5, <1>6, <2>1
<1>8. HasCalls(told) => HasCalls(more)
  <2> SUFFICES ASSUME NEW i \in 1..Len(items), items[i].kind = "call"
               PROVE  \E k \in 1..Len(items) + 1 : all[k].kind = "call"
    BY <1>1, <1>5, <1>6 DEF HasCalls
  <2>1. i \in 1..Len(items) + 1 /\ all[i] = items[i]
    BY <1>5, <1>6
  <2>2. QED
    BY <2>1
<1>9. item.kind = "call" => HasCalls(more)
  <2>1. Len(items) + 1 \in 1..Len(items) + 1
    BY <1>5
  <2>2. item.kind = "call" => \E k \in 1..Len(items) + 1 : all[k].kind = "call"
    BY <1>5, <1>6, <2>1
  <2>3. QED
    BY <1>1, <1>5, <1>6, <2>2 DEF HasCalls
<1>10. QED
  BY <1>7, <1>8, <1>9

\* To tell an item further does not change what it is.
LEMMA ReplacedCalls ==
  ASSUME NEW told, NEW k \in DOMAIN told.items, NEW item, item.kind = told.items[k].kind,
         NEW more, more.items = [told.items EXCEPT ![k] = item]
  PROVE  /\ HasCalls(more) <=> HasCalls(told)
         /\ item.kind = "call" => HasCalls(told)
<1>1. /\ DOMAIN more.items = DOMAIN told.items
      /\ \A i \in DOMAIN told.items : more.items[i].kind = told.items[i].kind
  OBVIOUS
<1>2. QED
  BY <1>1 DEF HasCalls

\* Nothing is known but that there may be another call.
LEMMA TalkServes ==
  ASSUME NEW s, NEW told, NEW sc, NEW c, Listening(s, told, sc, c), told.begun,
         told.reason = NoReason,
         NEW more, IsTold(s, more), more.begun = told.begun, more.reason = NoReason,
         NEW lines, IsSeq(lines), \A i \in DOMAIN lines : Idle(s.upstream, lines[i]),
         \A i \in DOMAIN lines : Carries(s.upstream, lines[i]) => HasCalls(more),
         HasCalls(told) => HasCalls(more),
         NEW out, out = Chunk(s.upstream, sc, lines),
         HasCalls(more) => HasCalls(told) \/ Passes(s) \/ Seen(s.upstream, out.sc)
  PROVE  \E v : Serves(s, more, c, v, out)
<1>1. PICK v : v = Still(c)
  OBVIOUS
<1>2. /\ IsConverter(s.upstream, sc) /\ KnownSource(sc.source) /\ sc.source = s.source
      /\ Right(s, told, c) /\ IsTold(s, told) /\ Ahead(s, told, sc, c)
      /\ s.upstream \in {"chat", "messages", "responses"} /\ IsUsage(s.usage)
      /\ Passes(s) \/ (Seen(s.upstream, sc) <=> HasCalls(told))
  BY DEF Listening
<1>3. Underway(s.upstream, sc)
  BY <1>2 DEF Underway, Ahead, ChatAhead
<1>4. Talks(s.upstream, sc, lines, out)
  BY <1>2, <1>3, ChunkTalks
<1>5. /\ Kept(s.upstream, sc, out.sc) /\ Events(s.source, {v}, out.events)
      /\ Seen(s.upstream, out.sc) =>
           Seen(s.upstream, sc) \/ \E i \in DOMAIN lines : Carries(s.upstream, lines[i])
  BY <1>2, <1>4 DEF Talks
<1>6. Passes(s) \/ (Seen(s.upstream, out.sc) <=> HasCalls(more))
  <2>1. Seen(s.upstream, sc) => Seen(s.upstream, out.sc)
    BY <1>5 DEF Kept
  <2>2. QED
    BY <1>2, <1>5, <2>1
<1>7. told.usage = {} /\ more.usage = {}
  BY <1>2 DEF IsTold
<1>8. Beginning(s, more) = Beginning(s, told)
  BY DEF Beginning
<1>9. ASSUME NEW d, Heard(v, s.source, out, c, d), ~out.failed
      PROVE  Right(s, more, d) /\ IsClient(d) /\ Ahead(s, more, out.sc, d)
  <2>1. Follows(Still(c), c, d) /\ Is(c, c)
    BY <1>1, <1>9 DEF Heard, Is
  <2>2. Right(s, more, d) /\ IsClient(d)
    BY <1>2, <1>8, <2>1, StaysRight DEF Follows
  <2>3. CASE s.upstream = "chat"
    <3>1. ChatAhead(s, told, sc, c) /\ SameHold(sc, out.sc)
      BY <1>2, <1>5, <2>3 DEF Ahead, Kept
    <3>2. ChatAhead(s, more, out.sc, d)
      BY <1>2, <1>7, <3>1 DEF ChatAhead, SameHold
    <3>3. QED
      BY <2>2, <2>3, <3>2 DEF Ahead
  <2>4. CASE s.upstream = "messages"
    <3>1. MessagesAhead(s, told, sc, c) /\ SameCounts(sc, out.sc)
      BY <1>2, <1>5, <2>4 DEF Ahead, Kept
    <3>2. MessagesAhead(s, more, out.sc, d)
      BY <1>2, <3>1 DEF MessagesAhead, SameCounts
    <3>3. QED
      BY <2>2, <2>4, <3>2 DEF Ahead
  <2>5. CASE s.upstream = "responses"
    BY <2>2, <2>5 DEF Ahead
  <2>6. QED
    BY <1>2, <2>3, <2>4, <2>5
<1>10. ASSUME NEW d, Heard(v, s.source, out, c, d)
       PROVE  Served(s, more, out, d)
  <2>1. ~out.failed => Listening(s, more, out.sc, d)
    BY <1>2, <1>5, <1>6, <1>9, <1>10 DEF Listening, Kept
  <2>2. ~out.failed => Right(s, more, d)
    BY <1>9, <1>10
  <2>3. more.reason = NoReason
    BY <1>2
  <2>4. QED
    BY <2>1, <2>2, <2>3 DEF Served
<1>11. Knows(c, v)
  BY <1>1, KnowsItself
<1>12. Serves(s, more, c, v, out)
  BY <1>5, <1>10, <1>11 DEF Serves
<1>13. QED
  BY <1>12

-----------------------------------------------------------------------------
(* No count is below zero.                                                 *)

LEMMA CountOfCache ==
  ASSUME NEW opt, opt \in SUBSET Nat, \A m, n \in opt : m = n
  PROVE  ValueOrZero(opt) \in Nat
<1>1. CASE opt = {}
  BY <1>1 DEF ValueOrZero
<1>2. CASE opt # {}
  <2>1. PICK n : n \in opt
    BY <1>2
  <2>2. n \in opt /\ \A y \in opt : n >= y
    BY <2>1
  <2>3. Max(opt) \in opt
    BY <2>2 DEF Max
  <2>4. QED
    BY <1>2, <2>3 DEF ValueOrZero
<1>3. QED
  BY <1>1, <1>2

LEMMA ClampNotNegative ==
  ASSUME NEW value \in Nat, NEW read, NEW written,
         ValueOrZero(read) \in Nat, ValueOrZero(written) \in Nat
  PROVE  ClampSubtract(value, read, written) \in Nat
<1>1. PICK n \in Int : n = value - ValueOrZero(read) - ValueOrZero(written)
  OBVIOUS
<1>2. \E x \in {0, n} : \A y \in {0, n} : x >= y
  BY <1>1
<1>3. Max({0, n}) \in {0, n} /\ \A y \in {0, n} : Max({0, n}) >= y
  BY <1>2 DEF Max
<1>4. Max({0, n}) \in Nat
  BY <1>1, <1>3
<1>5. QED
  BY <1>1, <1>4 DEF ClampSubtract

LEMMA CountsOfUsage ==
  ASSUME NEW usage, IsUsage(usage)
  PROVE  /\ usage.input \in Nat /\ usage.output \in Nat
         /\ ValueOrZero(usage.cached) \in Nat /\ ValueOrZero(usage.written) \in Nat
<1>1. /\ usage.input \in Nat /\ usage.output \in Nat
      /\ usage.cached \in SUBSET Nat /\ usage.written \in SUBSET Nat
      /\ \A m, n \in usage.cached : m = n
      /\ \A m, n \in usage.written : m = n
  BY DEF IsUsage
<1>2. QED
  BY <1>1, CountOfCache

\* Neither what a client begins with nor the verdict, whether or not the counts add up.
LEMMA RightIsNatural ==
  ASSUME NEW s, IsUsage(s.usage), NEW told, NEW c, Right(s, told, c)
  PROVE  Natural(c.usage)
<1>1. PICK usage : usage = Tally(s, told)
  OBVIOUS
<1>2. ValueOrZero({}) = 0
  BY DEF ValueOrZero
<1>3. /\ usage.input \in Nat /\ usage.output \in Nat
      /\ ValueOrZero(usage.cached) \in Nat /\ ValueOrZero(usage.written) \in Nat
  <2>1. CASE usage = NoUsage
    BY <1>2, <2>1 DEF NoUsage
  <2>2. CASE usage = s.usage
    BY <2>2, CountsOfUsage
  <2>3. QED
    BY <1>1, <2>1, <2>2 DEF Tally
<1>4. PICK all : all = Messages!ClaudeInput(usage)
  OBVIOUS
<1>5. all \in Nat
  BY <1>3, <1>4 DEF Messages!ClaudeInput, Messages!ValueOrZero, ValueOrZero, Messages!Max, Max
<1>6. PICK last : last = IF s.upstream = "chat" THEN {} ELSE usage.written
  OBVIOUS
<1>7. PICK fresh : fresh = ClampSubtract(usage.input, usage.cached, last)
  OBVIOUS
<1>8. fresh \in Nat
  <2>1. ValueOrZero(last) \in Nat
    BY <1>2, <1>3, <1>6
  <2>2. QED
    BY <1>3, <1>7, <2>1, ClampNotNegative
<1>9. PICK v : v = Verdict(s, told)
  OBVIOUS
<1>10. v.usage.input \in {usage.input, all, fresh} /\ v.usage.output = usage.output
  BY <1>1, <1>4, <1>6, <1>7, <1>9
  DEF Verdict, ClaudeUsage, CCUsageFrom, NewResponsesUsageFrom
<1>11. Natural(v.usage)
  BY <1>3, <1>5, <1>8, <1>10 DEF Natural
<1>12. Natural(Beginning(s, told).usage)
  <2>1. DOMAIN s.usage = {"input", "output", "cached", "written"} /\ s.usage.input \in Nat
    BY DEF IsUsage
  <2>2. QED
    BY <2>1 DEF Beginning, OpeningUsage, NoUsage, Natural
<1>13. QED
  BY <1>9, <1>11, <1>12 DEF Right, Is

-----------------------------------------------------------------------------
(* A step of the stream.                                                   *)

LEMMA KnownSettings ==
  ASSUME Translated
  PROVE  /\ setting.upstream \in {"chat", "messages", "responses"} /\ KnownSource(setting.source)
         /\ IsUsage(setting.usage)
<1>1. setting.upstream \in Upstreams /\ setting.source \in Sources /\ setting.usage \in Usages
  BY DEF Translated, Settings
<1>2. QED
  BY <1>1, ConversionAssumption DEF ConversionAssumption, KnownSource

LEMMA HearFollows ==
  ASSUME IsClient(client), NEW v, Knows(client, v),
         NEW events, Events(setting.source, {v}, events), NEW d, d = Hear(events)
  PROVE  /\ Follows(v, client, d)
         /\ Concluded(setting.source, events) => d.ended
         /\ Informed(setting.source, events) => Is(d, v.after)
<1>1. PICK source, c : source = setting.source /\ c = client
  OBVIOUS
<1>2. Hear(events) = Folded("events", c, events, source)
  BY <1>1 DEF Hear, FoldLeft, MapThenFoldSet, Folded, Fold, Round
<1>3. QED
  BY <1>1, <1>2, EventsFollow

\* The function by which FeedChunk is defined.
ChunkFold(f, base, lines) ==
  f = [s \in SUBSET (DOMAIN lines) |->
         IF s = {} THEN base
         ELSE LET out  == f[s \ {Max(s)}]
                  next == Feed(out.sc, lines[Max(s)])
              IN  IF out.done \/ out.failed THEN out
                  ELSE [next EXCEPT !.events = out.events \o next.events]]

LEMMA FeedChunkIsChunk ==
  ASSUME NEW lines
  PROVE  FeedChunk(lines) = Chunk(setting.upstream, conv, lines)
<1>1. PICK p : p = [upstream |-> setting.upstream, conv |-> conv, lines |-> lines]
  OBVIOUS
<1>2. PICK base : base = [sc |-> conv, events |-> <<>>, done |-> FALSE, failed |-> FALSE]
  OBVIOUS
<1>3. FeedChunk(lines) = (CHOOSE f : ChunkFold(f, base, lines))[DOMAIN lines]
  BY <1>2 DEF FeedChunk, FoldLeft, MapThenFoldSet, ChunkFold
<1>4. \A f : ChunkFold(f, base, lines) <=> Fold(f, DOMAIN lines, "lines", base, lines, p)
  BY <1>1 DEF ChunkFold, Fold, Round, Fed, FeedBy, Feed
<1>5. (CHOOSE f : ChunkFold(f, base, lines))
        = CHOOSE f : Fold(f, DOMAIN lines, "lines", base, lines, p)
  BY <1>4
<1>6. FeedChunk(lines) = Folded("lines", base, lines, p)
  BY <1>3, <1>5 DEF Folded
<1>7. QED
  BY <1>1, <1>2, <1>6 DEF Chunk

\* A chunk that serves the client keeps the invariant.
LEMMA ChunkKeeps ==
  ASSUME status = "open", Listening(setting, said, conv, client), NEW more, IsTold(setting, more),
         NEW lines, Says(more, lines), NEW out, out = Chunk(setting.upstream, conv, lines),
         \E v : Serves(setting, more, client, v, out)
  PROVE  EndTold'
<1>1. PICK v : Serves(setting, more, client, v, out)
  OBVIOUS
<1>2. FeedChunk(lines) = out
  BY FeedChunkIsChunk
<1>3. /\ said' = more /\ conv' = out.sc /\ setting' = setting
      /\ client' = IF out.failed THEN client ELSE Hear(out.events)
      /\ status' = IF out.failed THEN "failed" ELSE IF out.done THEN "done" ELSE status
  BY <1>2 DEF Says
<1>4. PICK s, c, d : s = setting /\ c = client /\ d = client'
  OBVIOUS
<1>5. /\ Knows(c, v) /\ Events(s.source, {v}, out.events)
      /\ Heard(v, s.source, out, c, d) => Served(s, more, out, d)
  BY <1>1, <1>4 DEF Serves
<1>6. Heard(v, s.source, out, c, d)
  <2>1. CASE out.failed
    BY <1>3, <1>4, <2>1 DEF Heard
  <2>2. CASE ~out.failed
    <3>1. d = Hear(out.events)
      BY <1>3, <1>4, <2>2
    <3>2. IsClient(client)
      BY DEF Listening
    <3>3. QED
      BY <1>4, <1>5, <2>2, <3>1, <3>2, HearFollows DEF Heard
  <2>3. QED
    BY <2>1, <2>2
<1>7. Served(s, more, out, d)
  BY <1>5, <1>6
<1>8. /\ status' \in {"failed", "done", "open"}
      /\ status' = "open" => ~out.failed /\ ~out.done
      /\ status' = "done" => ~out.failed /\ out.done
  BY <1>3
<1>9. /\ more.reason # NoReason => Right(s, more, d)
      /\ status' = "open" => Listening(s, more, out.sc, d)
      /\ status' = "done" /\ more.reason # NoReason =>
           d.ended \/ (s.upstream = "messages" /\ s.source = "claude")
  BY <1>7, <1>8 DEF Served
<1>10. Natural(d.usage)
  <2>1. IsUsage(s.usage) /\ Right(s, said, c)
    BY <1>4 DEF Listening
  <2>2. CASE out.failed
    <3>1. d = c
      BY <1>3, <1>4, <2>2
    <3>2. QED
      BY <2>1, <3>1, RightIsNatural
  <2>3. CASE ~out.failed
    <3>1. Right(s, more, d)
      BY <1>7, <2>3 DEF Served
    <3>2. QED
      BY <2>1, <3>1, RightIsNatural
  <2>4. QED
    BY <2>2, <2>3
<1>11. QED
  BY <1>3, <1>4, <1>8, <1>9, <1>10 DEF EndTold, EndsWithTerminal

\* So does a single line.
LEMMA LineKeeps ==
  ASSUME status = "open", Listening(setting, said, conv, client), NEW more, IsTold(setting, more),
         NEW lines, NEW line, lines = <<line>>, Says(more, lines),
         LineServes(setting, said, conv, client, more, line)
  PROVE  EndTold'
<1>1. PICK next : next = FeedBy(setting.upstream, conv, line)
  OBVIOUS
<1>2. PICK v : /\ DOMAIN next = {"sc", "events", "done", "failed"}
               /\ Serves(setting, more, client, v, next)
  BY <1>1 DEF LineServes
<1>3. PICK V : V = {v}
  OBVIOUS
<1>4. Events(setting.source, V, next.events)
  BY <1>2, <1>3 DEF Serves
<1>5. PICK out : out = Chunk(setting.upstream, conv, <<line>>)
  OBVIOUS
<1>6. /\ out.sc = next.sc /\ out.events = next.events
      /\ out.done = next.done /\ out.failed = next.failed
  BY <1>1, <1>2, <1>4, <1>5, ChunkOfOne
<1>7. Serves(setting, more, client, v, out)
  BY <1>2, <1>6 DEF Serves, Heard, Served
<1>8. QED
  BY <1>5, <1>7, ChunkKeeps

-----------------------------------------------------------------------------
(* All the steps.                                                          *)

LEMMA AddsKeeps ==
  ASSUME Listening(setting, said, conv, client), Ready, NEW item, Adds(item)
  PROVE  EndTold'
<1>1. PICK more : more = [said EXCEPT !.items = Append(@, item)]
  OBVIOUS
<1>2. PICK k : k = Told + 1
  OBVIOUS
<1>3. PICK s, sc : s = setting /\ sc = conv
  OBVIOUS
<1>4. /\ IsClient(client) /\ IsTold(s, said) /\ IsConverter(s.upstream, sc)
      /\ KnownSource(sc.source) /\ sc.source = s.source /\ Ahead(s, said, sc, client)
      /\ s.upstream \in {"chat", "messages", "responses"}
  BY <1>3 DEF Listening
<1>5. k \in Nat \ {0}
  <2>1. PICK X : said.items \in Seq(X)
    BY <1>4 DEF IsTold, IsSeq
  <2>2. QED
    BY <1>2, <2>1 DEF Told
<1>6. PICK line : /\ ItemStart(s.upstream, k, item, s.withIds) = <<line>>
                  /\ Concerns(s.upstream, line, item)
                  /\ item.kind = "call" => Announces(s.upstream, line)
  BY <1>5, ItemStartIdle
<1>7. PICK lines : lines = <<line>>
  OBVIOUS
<1>8. Says(more, lines)
  BY <1>1, <1>2, <1>3, <1>6, <1>7 DEF Adds
<1>9. status = "open" /\ said.begun /\ said.reason = NoReason
  BY DEF Ready, Talking
<1>10. /\ DOMAIN more = {"begun", "items", "reason", "usage", "stopped"}
       /\ more.begun = said.begun /\ more.reason = said.reason /\ more.usage = said.usage
       /\ more.items = Append(said.items, item)
  BY <1>1, <1>4 DEF IsTold
<1>11. IsTold(s, more)
  BY <1>4, <1>9, <1>10, AppendedIsSeq DEF IsTold
<1>12. HasCalls(more) <=> HasCalls(said) \/ item.kind = "call"
  BY <1>4, <1>10, AppendedCalls DEF IsTold
<1>13. IsSeq(lines) /\ \A i \in DOMAIN lines : lines[i] = line
  BY <1>7, SingleIsSeq
<1>14. PICK out : out = Chunk(s.upstream, sc, <<line>>)
  OBVIOUS
<1>15. item.kind = "call" => Passes(s) \/ Seen(s.upstream, out.sc)
  <2>1. PICK next : next = FeedBy(s.upstream, sc, line)
    OBVIOUS
  <2>2. Underway(s.upstream, sc) /\ Idle(s.upstream, line)
    BY <1>4, <1>6, <1>9 DEF Underway, Ahead, ChatAhead, Concerns
  <2>3. /\ DOMAIN next = {"sc", "events", "done", "failed"}
        /\ Announces(s.upstream, line) /\ Converts(s.upstream, sc.source) =>
             Seen(s.upstream, next.sc)
        /\ \A v : Events(sc.source, {v}, next.events)
    BY <1>4, <2>1, <2>2, IdleTalks
  <2>4. PICK V : V = {client}
    OBVIOUS
  <2>5. Events(sc.source, V, next.events)
    BY <2>3, <2>4
  <2>6. out.sc = next.sc
    BY <1>14, <2>1, <2>3, <2>5, ChunkOfOne
  <2>7. Passes(s) \/ Converts(s.upstream, sc.source)
    BY <1>4 DEF Passes, Converts, KnownSource
  <2>8. QED
    BY <1>6, <2>3, <2>6, <2>7
<1>16. /\ \A i \in DOMAIN lines : Idle(s.upstream, lines[i])
       /\ \A i \in DOMAIN lines : Carries(s.upstream, lines[i]) => HasCalls(more)
  BY <1>6, <1>12, <1>13 DEF Concerns
<1>17. out = Chunk(s.upstream, sc, lines)
  BY <1>7, <1>14
<1>18. \E v : Serves(s, more, client, v, out)
  <2>1. /\ Listening(s, said, sc, client) /\ more.reason = NoReason
        /\ HasCalls(said) => HasCalls(more)
        /\ HasCalls(more) => HasCalls(said) \/ Passes(s) \/ Seen(s.upstream, out.sc)
    BY <1>3, <1>9, <1>10, <1>12, <1>15
  <2>2. QED
    BY <1>9, <1>10, <1>11, <1>13, <1>16, <1>17, <2>1, TalkServes
<1>19. QED
  BY <1>3, <1>4, <1>8, <1>9, <1>11, <1>17, <1>18, ChunkKeeps

\* The item at k is told further.
LEMMA TellsFurther ==
  ASSUME Listening(setting, said, conv, client), Talking, NEW k \in 1..Told,
         NEW item, item.kind = said.items[k].kind,
         NEW more, more = [said EXCEPT !.items = [said.items EXCEPT ![k] = item]],
         NEW lines, IsSeq(lines),
         \A i \in DOMAIN lines : Concerns(setting.upstream, lines[i], item),
         Says(more, lines)
  PROVE  EndTold'
<1>1. PICK s, sc : s = setting /\ sc = conv
  OBVIOUS
<1>2. IsClient(client) /\ IsTold(s, said) /\ Listening(s, said, sc, client)
  BY <1>1 DEF Listening
<1>3. status = "open" /\ said.begun /\ said.reason = NoReason
  BY DEF Talking
<1>4. k \in DOMAIN said.items
  <2>1. PICK X : said.items \in Seq(X)
    BY <1>2 DEF IsTold, IsSeq
  <2>2. QED
    BY <2>1 DEF Told
<1>5. /\ DOMAIN more = {"begun", "items", "reason", "usage", "stopped"}
      /\ more.begun = said.begun /\ more.reason = said.reason /\ more.usage = said.usage
      /\ more.items = [said.items EXCEPT ![k] = item]
  BY <1>2 DEF IsTold
<1>6. IsTold(s, more)
  BY <1>2, <1>3, <1>5, ReplacedIsSeq DEF IsTold
<1>7. (HasCalls(more) <=> HasCalls(said)) /\ (item.kind = "call" => HasCalls(said))
  BY <1>4, <1>5, ReplacedCalls
<1>8. PICK out : out = Chunk(s.upstream, sc, lines)
  OBVIOUS
<1>9. /\ \A i \in DOMAIN lines : Idle(s.upstream, lines[i])
      /\ \A i \in DOMAIN lines : Carries(s.upstream, lines[i]) => HasCalls(more)
  BY <1>1, <1>7 DEF Concerns
<1>10. \E v : Serves(s, more, client, v, out)
  <2>1. /\ more.reason = NoReason
        /\ HasCalls(said) => HasCalls(more)
        /\ HasCalls(more) => HasCalls(said) \/ Passes(s) \/ Seen(s.upstream, out.sc)
    BY <1>3, <1>5, <1>7
  <2>2. QED
    BY <1>2, <1>3, <1>5, <1>6, <1>8, <1>9, <2>1, TalkServes
<1>11. QED
  BY <1>1, <1>2, <1>3, <1>6, <1>8, <1>10, ChunkKeeps

LEMMA ContinuesKeeps ==
  ASSUME Listening(setting, said, conv, client), Continues
  PROVE  EndTold'
<1>1. PICK k \in 1..Told :
        /\ Talking
        /\ Says([said EXCEPT !.items[k].content = @ \o NextPiece(said.items[k])],
                Piece(setting.upstream, k, said.items[k], NextPiece(said.items[k]),
                      setting.withIds))
  BY DEF Continues
<1>2. PICK item : item = [said.items[k] EXCEPT !.content = @ \o NextPiece(said.items[k])]
  OBVIOUS
<1>3. PICK more : more = [said EXCEPT !.items = [said.items EXCEPT ![k] = item]]
  OBVIOUS
<1>4. PICK line : /\ Piece(setting.upstream, k, said.items[k], NextPiece(said.items[k]),
                           setting.withIds) = <<line>>
                  /\ Concerns(setting.upstream, line, said.items[k])
  BY PieceIdle
<1>5. item.kind = said.items[k].kind
  BY <1>2
<1>6. PICK lines : lines = <<line>>
  OBVIOUS
<1>7. Says(more, lines)
  <2>1. more = [said EXCEPT !.items[k].content = @ \o NextPiece(said.items[k])]
    BY <1>2, <1>3
  <2>2. QED
    BY <1>1, <1>4, <1>6, <2>1
<1>8. /\ IsSeq(lines)
      /\ \A i \in DOMAIN lines : Concerns(setting.upstream, lines[i], item)
  <2>1. IsSeq(lines) /\ \A i \in DOMAIN lines : lines[i] = line
    BY <1>6, SingleIsSeq
  <2>2. QED
    BY <1>4, <1>5, <2>1 DEF Concerns
<1>9. QED
  BY <1>1, <1>3, <1>5, <1>7, <1>8, TellsFurther

LEMMA EndsItemKeeps ==
  ASSUME Listening(setting, said, conv, client), EndsItem
  PROVE  EndTold'
<1>1. PICK k \in 1..Told, late \in BOOLEAN :
        LET item == said.items[k]
            done == [item EXCEPT !.closed = TRUE, !.content = IF late THEN Whole ELSE @]
        IN  /\ Talking /\ setting.upstream # "chat"
            /\ Says([said EXCEPT !.items[k] = done],
                    ItemEnd(setting.upstream, k, done, setting.withIds))
  BY DEF EndsItem
<1>2. PICK done : done = [said.items[k] EXCEPT !.closed = TRUE,
                                               !.content = IF late THEN Whole ELSE @]
  OBVIOUS
<1>3. PICK more : more = [said EXCEPT !.items = [said.items EXCEPT ![k] = done]]
  OBVIOUS
<1>4. PICK lines : lines = ItemEnd(setting.upstream, k, done, setting.withIds)
  OBVIOUS
<1>5. Talking /\ setting.upstream # "chat" /\ Says(more, lines)
  <2>1. more = [said EXCEPT !.items[k] = done]
    BY <1>3
  <2>2. QED
    BY <1>1, <1>2, <1>4, <2>1
<1>6. done.kind = said.items[k].kind
  BY <1>2
<1>7. /\ IsSeq(lines)
      /\ \A i \in DOMAIN lines : Concerns(setting.upstream, lines[i], done)
  BY <1>4, <1>5, ItemEndIdle
<1>8. QED
  BY <1>3, <1>5, <1>6, <1>7, TellsFurther

LEMMA OpensKeeps ==
  ASSUME Listening(setting, said, conv, client), Opens
  PROVE  EndTold'
<1>1. PICK more : more = [said EXCEPT !.begun = TRUE]
  OBVIOUS
<1>2. PICK s, sc : s = setting /\ sc = conv
  OBVIOUS
<1>3. /\ IsClient(client) /\ IsTold(s, said) /\ Listening(s, said, sc, client)
      /\ s.upstream \in {"chat", "messages", "responses"}
  BY <1>2 DEF Listening
<1>4. status = "open" /\ ~said.begun /\ Says(more, Opening(s.upstream, s.usage))
  BY <1>1, <1>2 DEF Opens
<1>5. /\ DOMAIN more = {"begun", "items", "reason", "usage", "stopped"}
      /\ more.begun = TRUE /\ more.reason = said.reason /\ more.usage = said.usage
      /\ more.items = said.items
  BY <1>1, <1>3 DEF IsTold
<1>6. said.reason = NoReason /\ IsTold(s, more)
  BY <1>3, <1>4, <1>5 DEF IsTold
<1>7. PICK line : Opening(s.upstream, s.usage) = <<line>> /\ LineServes(s, said, sc, client, more, line)
  <2>1. CASE s.upstream = "chat"
    <3>1. LineServes(s, said, sc, client, more, RoleChunk)
      BY <1>3, <1>4, <1>5, <1>6, <2>1, ChatOpens
    <3>2. QED
      BY <2>1, <3>1 DEF Opening
  <2>2. CASE s.upstream = "messages"
    <3>1. PICK start : start = MessageStart({OpeningUsage(s.usage)})
      OBVIOUS
    <3>2. LineServes(s, said, sc, client, more, start)
      BY <1>3, <1>4, <1>5, <1>6, <2>2, <3>1, MessagesOpens
    <3>3. QED
      BY <2>2, <3>1, <3>2 DEF Opening
  <2>3. CASE s.upstream = "responses"
    <3>1. PICK start : start = Created
      OBVIOUS
    <3>2. LineServes(s, said, sc, client, more, start)
      BY <1>3, <1>4, <1>5, <1>6, <2>3, <3>1, ResponsesOpens
    <3>3. QED
      BY <2>3, <3>1, <3>2 DEF Opening
  <2>4. QED
    BY <1>3, <2>1, <2>2, <2>3
<1>8. PICK lines : lines = <<line>> /\ Says(more, lines)
  BY <1>4, <1>7
<1>9. QED
  BY <1>2, <1>3, <1>4, <1>6, <1>7, <1>8, LineKeeps

LEMMA EndsKeeps ==
  ASSUME Listening(setting, said, conv, client), Ends
  PROVE  EndTold'
<1>1. PICK reason \in Reasons(setting.upstream, HasCalls(said)), counted \in BOOLEAN :
        LET more == [said EXCEPT !.reason = reason,
                                 !.usage = IF counted THEN {setting.usage} ELSE {}]
        IN  /\ Talking
            /\ Says(more, Ending(setting.upstream, more, reason, setting.usage, setting.withIds))
  BY DEF Ends
<1>2. PICK more : more = [said EXCEPT !.reason = reason,
                                      !.usage = IF counted THEN {setting.usage} ELSE {}]
  OBVIOUS
<1>3. PICK s, sc : s = setting /\ sc = conv
  OBVIOUS
<1>4. PICK lines : lines = Ending(s.upstream, more, reason, s.usage, s.withIds)
  OBVIOUS
<1>5. status = "open" /\ said.begun /\ said.reason = NoReason /\ Says(more, lines)
  BY <1>1, <1>2, <1>3, <1>4 DEF Talking
<1>6. /\ IsClient(client) /\ IsTold(s, said) /\ Listening(s, said, sc, client)
      /\ s.upstream \in {"chat", "messages", "responses"}
  BY <1>3 DEF Listening
<1>7. /\ DOMAIN more = {"begun", "items", "reason", "usage", "stopped"}
      /\ more.begun = said.begun /\ more.reason = reason /\ more.items = said.items
      /\ more.usage \in {{}, {s.usage}}
  BY <1>2, <1>3, <1>6 DEF IsTold
<1>8. HasCalls(more) = HasCalls(said) /\ reason # NoReason
  BY <1>7 DEF HasCalls, Reasons, NoReason
<1>9. reason \in Reasons(s.upstream, HasCalls(said))
  BY <1>3
<1>10. IsTold(s, more)
  BY <1>5, <1>6, <1>7, <1>8, <1>9 DEF IsTold
<1>11. PICK line : lines = <<line>> /\ LineServes(s, said, sc, client, more, line)
  <2>1. CASE s.upstream = "chat"
    <3>1. PICK usage : usage = more.usage
      OBVIOUS
    <3>2. usage \in {{}, {s.usage}} /\ reason \in Reasons("chat", HasCalls(said))
      BY <1>7, <1>9, <2>1, <3>1
    <3>3. LineServes(s, said, sc, client, more, Finish(reason, usage))
      BY <1>5, <1>6, <1>7, <1>10, <2>1, <3>1, <3>2, ChatEnds
    <3>4. QED
      BY <1>4, <2>1, <3>1, <3>3 DEF Ending
  <2>2. CASE s.upstream = "messages"
    <3>1. PICK end : end = MessageDelta(reason, {[s.usage EXCEPT !.input = 0]})
      OBVIOUS
    <3>2. reason \in Reasons("messages", HasCalls(said))
      BY <1>9, <2>2
    <3>3. LineServes(s, said, sc, client, more, end)
      BY <1>5, <1>6, <1>7, <1>10, <2>2, <3>1, <3>2, MessagesEnds
    <3>4. QED
      BY <1>4, <2>2, <3>1, <3>3 DEF Ending
  <2>3. CASE s.upstream = "responses"
    <3>1. PICK output : output = [k \in DOMAIN more.items |->
                                    ResponseItem(more.items[k], s.withIds)]
      OBVIOUS
    <3>2. PICK end : end = Completed(reason, s.usage, output)
      OBVIOUS
    <3>3. reason \in Reasons("responses", HasCalls(said))
      BY <1>9, <2>3
    <3>4. LineServes(s, said, sc, client, more, end)
      BY <1>5, <1>6, <1>7, <1>10, <2>3, <3>2, <3>3, ResponsesEnds
    <3>5. QED
      BY <1>4, <2>3, <3>1, <3>2, <3>4 DEF Ending
  <2>4. QED
    BY <1>6, <2>1, <2>2, <2>3
<1>12. QED
  BY <1>3, <1>5, <1>6, <1>10, <1>11, LineKeeps

LEMMA CountsKeeps ==
  ASSUME Listening(setting, said, conv, client), Counts
  PROVE  EndTold'
<1>1. PICK more : more = [said EXCEPT !.usage = {setting.usage}]
  OBVIOUS
<1>2. PICK s, sc : s = setting /\ sc = conv
  OBVIOUS
<1>3. PICK line : line = Trailer(s.usage)
  OBVIOUS
<1>4. PICK lines : lines = <<line>>
  OBVIOUS
<1>5. /\ status = "open" /\ s.upstream = "chat" /\ said.reason # NoReason /\ said.usage = {}
      /\ Says(more, lines)
  BY <1>1, <1>2, <1>3, <1>4 DEF Counts
<1>6. IsClient(client) /\ IsTold(s, said) /\ Listening(s, said, sc, client)
  BY <1>2 DEF Listening
<1>7. /\ DOMAIN more = {"begun", "items", "reason", "usage", "stopped"}
      /\ more.begun = said.begun /\ more.reason = said.reason /\ more.items = said.items
      /\ more.usage = {s.usage}
  BY <1>1, <1>2, <1>6 DEF IsTold
<1>8. HasCalls(more) = HasCalls(said)
  BY <1>7 DEF HasCalls
<1>9. IsTold(s, more)
  BY <1>5, <1>6, <1>7, <1>8 DEF IsTold
<1>10. LineServes(s, said, sc, client, more, Trailer(s.usage))
  BY <1>5, <1>6, <1>7, <1>9, ChatCounts
<1>11. QED
  BY <1>2, <1>3, <1>4, <1>5, <1>6, <1>9, <1>10, LineKeeps

\* The end of the upstream's own, or an error.
LEMMA StoppedIsTold ==
  ASSUME NEW s, NEW told, IsTold(s, told), NEW more, more = [told EXCEPT !.stopped = TRUE]
  PROVE  /\ IsTold(s, more) /\ more.begun = told.begun /\ more.items = told.items
         /\ more.reason = told.reason /\ more.usage = told.usage
<1>1. /\ DOMAIN more = {"begun", "items", "reason", "usage", "stopped"}
      /\ more.begun = told.begun /\ more.items = told.items
      /\ more.reason = told.reason /\ more.usage = told.usage
  BY DEF IsTold
<1>2. HasCalls(more) = HasCalls(told)
  BY <1>1 DEF HasCalls
<1>3. QED
  BY <1>1, <1>2 DEF IsTold

LEMMA StopsKeeps ==
  ASSUME Listening(setting, said, conv, client), Stops
  PROVE  EndTold'
<1>1. PICK more : more = [said EXCEPT !.stopped = TRUE]
  OBVIOUS
<1>2. PICK s, sc : s = setting /\ sc = conv
  OBVIOUS
<1>3. /\ status = "open" /\ s.upstream # "responses" /\ said.reason # NoReason
      /\ Says(more, Stopping(s.upstream))
  BY <1>1, <1>2 DEF Stops
<1>4. /\ IsClient(client) /\ IsTold(s, said) /\ Listening(s, said, sc, client)
      /\ s.upstream \in {"chat", "messages", "responses"}
  BY <1>2 DEF Listening
<1>5. /\ IsTold(s, more) /\ more.begun = said.begun /\ more.items = said.items
      /\ more.reason = said.reason /\ more.usage = said.usage
  BY <1>1, <1>4, StoppedIsTold
<1>6. PICK line : Stopping(s.upstream) = <<line>> /\ LineServes(s, said, sc, client, more, line)
  <2>1. CASE s.upstream = "chat"
    <3>1. PICK end : end = [type |-> "done"]
      OBVIOUS
    <3>2. LineServes(s, said, sc, client, more, end)
      BY <1>3, <1>4, <1>5, <2>1, <3>1, ChatStops
    <3>3. QED
      BY <2>1, <3>1, <3>2 DEF Stopping
  <2>2. CASE s.upstream = "messages"
    <3>1. PICK end : end = MessageStop
      OBVIOUS
    <3>2. end.type = "message_stop"
      BY <3>1 DEF MessageStop
    <3>3. LineServes(s, said, sc, client, more, end)
      BY <1>3, <1>4, <1>5, <2>2, <3>2, MessagesStops
    <3>4. QED
      BY <2>2, <3>1, <3>3 DEF Stopping
  <2>3. QED
    BY <1>3, <1>4, <2>1, <2>2
<1>7. PICK lines : lines = <<line>> /\ Says(more, lines)
  BY <1>3, <1>6
<1>8. QED
  BY <1>2, <1>3, <1>4, <1>5, <1>6, <1>7, LineKeeps

LEMMA FailsKeeps ==
  ASSUME Listening(setting, said, conv, client), Fails
  PROVE  EndTold'
<1>1. PICK more : more = [said EXCEPT !.stopped = TRUE]
  OBVIOUS
<1>2. PICK s, sc : s = setting /\ sc = conv
  OBVIOUS
<1>3. PICK line : line = [type |-> "error"]
  OBVIOUS
<1>4. PICK lines : lines = <<line>>
  OBVIOUS
<1>5. status = "open" /\ Says(more, lines) /\ line.type = "error"
  BY <1>1, <1>3, <1>4 DEF Fails, Error
<1>6. /\ IsClient(client) /\ IsTold(s, said) /\ Listening(s, said, sc, client)
      /\ s.upstream \in {"chat", "messages", "responses"}
  BY <1>2 DEF Listening
<1>7. /\ IsTold(s, more) /\ more.begun = said.begun /\ more.items = said.items
      /\ more.reason = said.reason /\ more.usage = said.usage
  BY <1>1, <1>6, StoppedIsTold
<1>8. LineServes(s, said, sc, client, more, line)
  <2>1. CASE s.upstream = "chat"
    BY <1>5, <1>6, <1>7, <2>1, ChatFails
  <2>2. CASE s.upstream = "messages"
    BY <1>5, <1>6, <1>7, <2>2, MessagesFails
  <2>3. CASE s.upstream = "responses"
    BY <1>5, <1>6, <1>7, <2>3, ResponsesFails
  <2>4. QED
    BY <1>6, <2>1, <2>2, <2>3
<1>9. QED
  BY <1>2, <1>4, <1>5, <1>6, <1>7, <1>8, LineKeeps

\* A stream cut before its reason: if Flush still tells the client its counts, they are those
\* the stream began with.
LEMMA CutCounts ==
  ASSUME NEW s, NEW told, NEW sc, NEW c, Listening(s, told, sc, c), told.reason = NoReason,
         NEW out,
         out = CASE s.upstream = "chat"     -> Chat!Flush(sc)
                 [] s.upstream = "messages" -> Messages!Flush(sc)
                 [] OTHER -> [sc |-> sc, events |-> <<>>]
  PROVE  \E v : /\ Knows(c, v) /\ Events(s.source, {v}, out.events)
                /\ Natural(v.before.usage) /\ Natural(v.after.usage)
<1>1. /\ s.upstream \in {"chat", "messages", "responses"} /\ KnownSource(s.source)
      /\ IsUsage(s.usage) /\ sc.source = s.source /\ Natural(c.usage)
  BY RightIsNatural DEF Listening
<1>2. PICK v : v = Still(c)
  OBVIOUS
<1>3. Knows(c, v) /\ Natural(v.before.usage) /\ Natural(v.after.usage)
  BY <1>1, <1>2, KnowsItself DEF Still, FromTo
<1>4. CASE s.upstream = "chat"
  <2>1. IsChat(sc) /\ ~sc.flushed /\ ChatAhead(s, told, sc, c)
    BY <1>4 DEF Listening, IsConverter, Ahead, ChatAhead
  <2>2. s.source # "openai" => sc.heldFinish = NoReason
    BY <2>1 DEF ChatAhead
  <2>3. Agreed(v, sc)
    BY <1>1, <2>2 DEF Agreed
  <2>4. sc.source = "claude" => ~Due(sc)
    BY <1>1, <2>1, <2>2 DEF ChatAhead, Due
  <2>5. Events(sc.source, {v}, out.events)
    BY <1>1, <1>4, <2>1, <2>3, <2>4, ChatFlushConcludes
  <2>6. QED
    BY <1>1, <1>3, <2>5
<1>5. CASE s.upstream = "messages"
  <2>1. IsMessages(sc) /\ ~sc.flushed /\ MessagesAhead(s, told, sc, c)
    BY <1>5 DEF Listening, IsConverter, Ahead, MessagesAhead
  <2>2. out = Messages!Flush(sc)
    BY <1>5
  <2>3. CASE s.source = "openai-response"
    <3>1. PICK says : says = CompletedSays(sc)
      OBVIOUS
    <3>2. PICK w : w = FromTo(c, says)
      OBVIOUS
    <3>3. /\ sc.promptTokens \in Nat /\ sc.completionTokens \in Nat
          /\ \/ sc.cacheRead = {} /\ sc.cacheCreation = {}
             \/ sc.cacheRead = s.usage.cached /\ sc.cacheCreation = s.usage.written
      BY <2>1, <2>3 DEF MessagesAhead
    <3>4. ValueOrZero(sc.cacheRead) \in Nat /\ ValueOrZero(sc.cacheCreation) \in Nat
      <4>1. ValueOrZero({}) = 0
        BY DEF ValueOrZero
      <4>2. ValueOrZero(s.usage.cached) \in Nat /\ ValueOrZero(s.usage.written) \in Nat
        BY <1>1, CountsOfUsage
      <4>3. PICK read, written : read = sc.cacheRead /\ written = sc.cacheCreation
        OBVIOUS
      <4>4. CASE read = {} /\ written = {}
        BY <4>1, <4>3, <4>4
      <4>5. CASE read = s.usage.cached /\ written = s.usage.written
        BY <4>2, <4>3, <4>5
      <4>6. QED
        BY <3>3, <4>3, <4>4, <4>5
    <3>5. PICK all : all = Messages!AllInput(sc)
      OBVIOUS
    <3>6. all \in Nat
      BY <3>3, <3>4, <3>5
      DEF Messages!AllInput, Messages!ValueOrZero, ValueOrZero, Messages!Max, Max
    <3>7. Natural(says.usage)
      BY <3>1, <3>3, <3>5, <3>6 DEF CompletedSays, NewResponsesUsageFrom, Natural
    <3>8. Knows(c, w) /\ Is(w.after, says) /\ Natural(w.before.usage) /\ Natural(w.after.usage)
      BY <1>1, <3>2, <3>7 DEF Knows, FromTo, Is
    <3>9. PICK V : V = {w}
      OBVIOUS
    <3>10. Events(sc.source, V, out.events)
      BY <1>1, <2>1, <2>2, <3>1, <3>8, <3>9, MessagesFlushConcludes
    <3>11. QED
      BY <1>1, <3>8, <3>9, <3>10
  <2>4. CASE s.source # "openai-response"
    <3>1. Events(sc.source, {v}, out.events)
      BY <1>1, <2>1, <2>2, <2>4, MessagesFlushConcludes
    <3>2. QED
      BY <1>1, <1>3, <3>1
  <2>5. QED
    BY <2>3, <2>4
<1>6. CASE s.upstream = "responses"
  <2>1. out.events = <<>>
    BY <1>6
  <2>2. QED
    BY <1>3, <2>1, NoEvents
<1>7. QED
  BY <1>1, <1>4, <1>5, <1>6

\* The stream is cut: what Flush still has to say comes before the client is left alone.
LEMMA ClosesKeeps ==
  ASSUME Listening(setting, said, conv, client), Closes
  PROVE  EndTold'
<1>1. PICK out : out = CASE setting.upstream = "chat"     -> Chat!Flush(conv)
                         [] setting.upstream = "messages" -> Messages!Flush(conv)
                         [] OTHER -> [sc |-> conv, events |-> <<>>]
  OBVIOUS
<1>2. /\ status' = "closed" /\ client' = Hear(out.events)
      /\ setting' = setting /\ said' = said
  BY <1>1 DEF Closes
<1>3. PICK s, sc, c, d : s = setting /\ sc = conv /\ c = client /\ d = client'
  OBVIOUS
<1>4. /\ IsClient(c) /\ IsTold(s, said) /\ Listening(s, said, sc, c)
      /\ s.upstream \in {"chat", "messages", "responses"}
  BY <1>3 DEF Listening
<1>5. CASE said.reason = NoReason
  <2>1. PICK v : /\ Knows(c, v) /\ Events(s.source, {v}, out.events)
                 /\ Natural(v.before.usage) /\ Natural(v.after.usage)
    BY <1>1, <1>3, <1>4, <1>5, CutCounts
  <2>2. Follows(v, c, d)
    BY <1>2, <1>3, <1>4, <2>1, HearFollows
  <2>3. Natural(d.usage)
    BY <2>1, <2>2 DEF Follows, Knows, Is
  <2>4. QED
    BY <1>2, <1>3, <1>4, <1>5, <2>3 DEF EndTold, EndsWithTerminal
<1>6. CASE said.reason # NoReason
  <2>1. \E v : Serves(s, said, c, v, Flushed(out))
    <3>1. CASE s.upstream = "chat"
      <4>1. out = Chat!Flush(sc)
        BY <1>1, <1>3, <3>1
      <4>2. QED
        BY <1>4, <1>6, <3>1, <4>1, ChatCloses
    <3>2. CASE s.upstream = "messages"
      <4>1. out = Messages!Flush(sc)
        BY <1>1, <1>3, <3>2
      <4>2. QED
        BY <1>4, <1>6, <3>2, <4>1, MessagesCloses
    <3>3. CASE s.upstream = "responses"
      <4>1. out.events = <<>>
        BY <1>1, <1>3, <3>3
      <4>2. QED
        BY <1>4, <1>6, <3>3, <4>1, ResponsesCloses
    <3>4. QED
      BY <1>4, <3>1, <3>2, <3>3
  <2>2. PICK v, next : next = Flushed(out) /\ Serves(s, said, c, v, next)
    BY <2>1
  <2>3. next.events = out.events /\ next.failed = FALSE /\ next.done = TRUE
    BY <2>2 DEF Flushed
  <2>4. /\ Knows(c, v) /\ Events(s.source, {v}, out.events)
        /\ Heard(v, s.source, next, c, d) => Served(s, said, next, d)
    BY <2>2, <2>3 DEF Serves
  <2>5. d = Hear(out.events)
    BY <1>2, <1>3
  <2>6. Heard(v, s.source, next, c, d)
    BY <1>3, <1>4, <2>3, <2>4, <2>5, HearFollows DEF Heard
  <2>7. Served(s, said, next, d)
    BY <2>4, <2>6
  <2>8. /\ Right(s, said, d)
        /\ d.ended \/ (s.upstream = "messages" /\ s.source = "claude")
    BY <1>6, <2>3, <2>7 DEF Served
  <2>9. Natural(d.usage)
    BY <1>4, <2>8, RightIsNatural DEF Listening
  <2>10. QED
    BY <1>2, <1>3, <1>4, <2>8, <2>9 DEF EndTold, EndsWithTerminal
<1>7. QED
  BY <1>5, <1>6

LEMMA NewConverterListens ==
  ASSUME NEW s, NEW names, NEW sc, sc = NewConverter(s.upstream, s.source, names),
         s.upstream \in {"chat", "messages", "responses"}
  PROVE  /\ IsConverter(s.upstream, sc) /\ sc.source = s.source
         /\ ~Seen(s.upstream, sc)
         /\ \A c : Ahead(s, Silent, sc, c)
<1>1. PICK upstream, source : upstream = s.upstream /\ source = s.source
  OBVIOUS
<1>2. /\ ~Silent.begun /\ Silent.reason = NoReason /\ Silent.usage = {}
  BY DEF Silent
<1>3. CASE upstream = "chat"
  <2>1. sc = Chat!NewStreamConverter(source, names)
    BY <1>1, <1>3 DEF NewConverter
  <2>2. IsChat(sc) /\ sc.toolOrder = <<>> /\ sc.source = source
    BY <2>1, EmptyIsSeq DEF Chat!NewStreamConverter, IsChat
  <2>3. ~sc.done /\ ~sc.flushed /\ ~sc.finished /\ ~sc.terminalSent
    BY <2>1 DEF Chat!NewStreamConverter
  <2>4. sc.usage = {} /\ sc.heldFinish = NoReason
    <3>1. sc.usage = {} /\ sc.heldFinish = Chat!NoReason
      BY <2>1 DEF Chat!NewStreamConverter
    <3>2. QED
      BY <3>1 DEF Chat!NoReason, NoReason
  <2>5. ASSUME NEW c PROVE ChatAhead(s, Silent, sc, c)
    BY <1>2, <2>3, <2>4 DEF ChatAhead
  <2>6. QED
    BY <1>1, <1>3, <2>2, <2>5 DEF IsConverter, Seen, Ahead
<1>4. CASE upstream = "messages"
  <2>1. sc = Messages!NewStreamConverter(source, names)
    BY <1>1, <1>4 DEF NewConverter
  <2>2. Bounded(DOMAIN <<>>)
    BY EmptyIsSeq, ListBounded
  <2>3. IsMessages(sc) /\ sc.toolsSeen = FALSE /\ sc.source = source
    BY <2>1, <2>2 DEF Messages!NewStreamConverter, IsMessages
  <2>4. /\ ~sc.flushed /\ sc.promptTokens \in Nat /\ sc.completionTokens \in Nat
        /\ sc.cacheRead = {} /\ sc.cacheCreation = {}
    BY <2>1 DEF Messages!NewStreamConverter
  <2>5. ASSUME NEW c PROVE MessagesAhead(s, Silent, sc, c)
    BY <1>2, <2>4 DEF MessagesAhead
  <2>6. QED
    BY <1>1, <1>4, <2>3, <2>5 DEF IsConverter, Seen, Ahead
<1>5. CASE upstream = "responses"
  <2>1. sc = Responses!NewStreamConverter(source, names)
    BY <1>1, <1>5 DEF NewConverter
  <2>2. IsResponses(sc) /\ sc.toolCallsSeen = FALSE /\ sc.source = source
    BY <2>1, EmptyIsSeq DEF Responses!NewStreamConverter, IsResponses
  <2>3. QED
    BY <1>1, <1>2, <1>5, <2>2 DEF IsConverter, Seen, Ahead
<1>6. QED
  BY <1>1, <1>3, <1>4, <1>5

LEMMA SilentIsTold ==
  ASSUME NEW s, NEW c, c = NewClient
  PROVE  /\ IsTold(s, Silent) /\ ~HasCalls(Silent) /\ Silent.reason = NoReason
         /\ IsClient(c) /\ Right(s, Silent, c) /\ Natural(c.usage)
<1>1. /\ DOMAIN Silent = {"begun", "items", "reason", "usage", "stopped"}
      /\ ~Silent.begun /\ Silent.items = <<>> /\ Silent.reason = NoReason /\ Silent.usage = {}
  BY DEF Silent
<1>2. IsTold(s, Silent)
  BY <1>1, EmptyIsSeq DEF IsTold
<1>3. ~HasCalls(Silent)
  BY <1>1 DEF HasCalls
<1>4. IsClient(c) /\ Is(c, NoneYet) /\ ~c.ended /\ Natural(c.usage)
  BY DEF NewClient, IsClient, Is, NoneYet, NoUsage, Natural
<1>5. Beginning(s, Silent) = NoneYet
  BY <1>1, BeginningIsNone
<1>6. QED
  BY <1>1, <1>2, <1>3, <1>4, <1>5, BeginningRight

LEMMA TranslateKeeps ==
  ASSUME Translated, EndTold, Translate
  PROVE  EndTold'
<1>1. PICK names : names = IF setting.source = "openai-response" THEN sent'.names ELSE <<>>
  OBVIOUS
<1>2. PICK s, sc : s = setting /\ sc = NewConverter(s.upstream, s.source, names)
  OBVIOUS
<1>3. /\ status = "new" /\ conv' = sc /\ setting' = s /\ said' = said /\ client' = client
      /\ status' \in {"rejected", "open"}
  BY <1>1, <1>2 DEF Translate
<1>4. said = Silent /\ client = NewClient
  BY <1>3 DEF EndTold
<1>5. s.upstream \in {"chat", "messages", "responses"} /\ KnownSource(s.source) /\ IsUsage(s.usage)
  BY <1>2, KnownSettings
<1>6. /\ IsConverter(s.upstream, sc) /\ sc.source = s.source
      /\ ~Seen(s.upstream, sc) /\ Ahead(s, said, sc, client)
  BY <1>2, <1>4, <1>5, NewConverterListens
<1>7. /\ IsTold(s, said) /\ ~HasCalls(said) /\ said.reason = NoReason
      /\ IsClient(client) /\ Right(s, said, client) /\ Natural(client.usage)
  BY <1>4, SilentIsTold
<1>8. Listening(s, said, sc, client)
  BY <1>5, <1>6, <1>7 DEF Listening
<1>9. QED
  BY <1>3, <1>7, <1>8 DEF EndTold, EndsWithTerminal

LEMMA EndToldInvariant == Spec => []EndTold
<1>1. Init => EndTold
  BY SilentIsTold DEF Init, EndTold, EndsWithTerminal
<1>2. Translated /\ EndTold /\ [Next]_vars => EndTold'
  <2> SUFFICES ASSUME Translated, EndTold, [Next]_vars PROVE EndTold'
    OBVIOUS
  <2>1. status = "open" => Listening(setting, said, conv, client)
    BY DEF EndTold
  <2>2. CASE Translate
    BY <2>2, TranslateKeeps
  <2>3. CASE Opens
    BY <2>1, <2>3, OpensKeeps DEF Opens
  <2>4. CASE AddsText
    BY <2>1, <2>4, AddsKeeps DEF AddsText, Ready, Talking
  <2>5. CASE AddsCall
    BY <2>1, <2>5, AddsKeeps DEF AddsCall, Ready, Talking
  <2>6. CASE AddsOther
    BY <2>1, <2>6, AddsKeeps DEF AddsOther, Ready, Talking
  <2>7. CASE Continues
    BY <2>1, <2>7, ContinuesKeeps DEF Continues, Talking
  <2>8. CASE EndsItem
    BY <2>1, <2>8, EndsItemKeeps DEF EndsItem, Talking
  <2>9. CASE Ends
    BY <2>1, <2>9, EndsKeeps DEF Ends, Talking
  <2>10. CASE Counts
    BY <2>1, <2>10, CountsKeeps DEF Counts
  <2>11. CASE Stops
    BY <2>1, <2>11, StopsKeeps DEF Stops
  <2>12. CASE Fails
    BY <2>1, <2>12, FailsKeeps DEF Fails
  <2>13. CASE Closes
    BY <2>1, <2>13, ClosesKeeps DEF Closes
  <2>14. CASE UNCHANGED vars
    BY <2>14 DEF vars, EndTold, EndsWithTerminal
  <2>15. QED
    BY <2>2, <2>3, <2>4, <2>5, <2>6, <2>7, <2>8, <2>9, <2>10, <2>11, <2>12, <2>13, <2>14
    DEF Next
<1>3. QED
  BY <1>1, <1>2, TranslatedInvariant, PTL DEF Spec

\* Once the upstream has given its reason, every client is told of the end before its stream
\* is over: by the converter's handler of that reason, when the usage arrives, with the
\* upstream's own end, or by Flush when the upstream is cut; for all three upstreams and
\* clients, and for responses of any length.
THEOREM EveryClientHearsTheEnd == Spec => []EndsWithTerminal
<1>1. EndTold => EndsWithTerminal
  BY DEF EndTold
<1>2. QED
  BY <1>1, EndToldInvariant, PTL

-----------------------------------------------------------------------------
(* What the client is told.                                                *)

LEMMA EndedKnows ==
  ASSUME EndTold, client.ended, said.reason # NoReason
  PROVE  Is(client, Verdict(setting, said)) /\ IsTold(setting, said)
<1>1. PICK s, c : s = setting /\ c = client
  OBVIOUS
<1>2. Right(s, said, c) /\ IsTold(s, said)
  BY <1>1 DEF EndTold
<1>3. c.reason # NoReason
  BY <1>1, <1>2 DEF Right
<1>4. QED
  BY <1>1, <1>2, <1>3, KnownRight

\* What the client is to understand.
Understood(s, told) ==
  IF s.source = "openai-response"
  THEN IF Truncated(told.reason) THEN "cut short" ELSE "finished"
  ELSE IF HasCalls(told) THEN "calls" ELSE Meaning(told.reason)

\* The reason of the verdict means what the upstream's reason means.
LEMMA VerdictMeans ==
  ASSUME NEW s, s.upstream \in {"chat", "messages", "responses"}, KnownSource(s.source),
         ~Passes(s), NEW told, told.reason # NoReason,
         told.reason \in Reasons(s.upstream, HasCalls(told)), NEW v, v = Verdict(s, told)
  PROVE  Meaning(v.reason) = Understood(s, told)
<1>1. PICK reason, calls : reason = told.reason /\ calls = HasCalls(told)
  OBVIOUS
<1>2. HasCalls(told) \in BOOLEAN
  BY DEF HasCalls
<1>3. CASE s.upstream = "chat"
  <2>1. reason \in IF calls THEN {"tool_calls", "length"} ELSE {"stop", "length", "content_filter"}
    BY <1>1, <1>3 DEF Reasons
  <2>2. CASE s.source = "claude"
    <3>1. v.reason = TerminalReason(calls, "tool_use", FinishToClaudeStop(reason))
      BY <1>1, <1>3, <2>2 DEF Verdict
    <3>2. QED
      BY <1>1, <1>2, <2>1, <2>2, <3>1 DEF TerminalReason, FinishToClaudeStop, Meaning, Truncated, Understood
  <2>3. CASE s.source = "openai-response"
    <3>1. v.reason = ResponseStatusFromCCFinish(reason)
      BY <1>1, <1>3, <2>3 DEF Verdict
    <3>2. QED
      BY <1>1, <1>2, <2>1, <2>3, <3>1 DEF ResponseStatusFromCCFinish, Meaning, Truncated, Understood
  <2>4. QED
    BY <1>3, <2>2, <2>3 DEF KnownSource, Passes
<1>4. CASE s.upstream = "messages"
  <2>1. reason \in IF calls THEN {"tool_use", "max_tokens"} ELSE {"end_turn", "max_tokens", "refusal"}
    BY <1>1, <1>4 DEF Reasons
  <2>2. CASE s.source = "openai"
    <3>1. v.reason = TerminalReason(calls, "tool_calls", ClaudeStopToFinish(reason))
      BY <1>1, <1>4, <2>2 DEF Verdict
    <3>2. QED
      BY <1>1, <1>2, <2>1, <2>2, <3>1 DEF TerminalReason, ClaudeStopToFinish, Meaning, Truncated, Understood
  <2>3. CASE s.source = "openai-response"
    <3>1. v.reason = ResponseStatusFromClaudeStop(reason)
      BY <1>1, <1>4, <2>3 DEF Verdict
    <3>2. QED
      BY <1>1, <1>2, <2>1, <2>3, <3>1 DEF ResponseStatusFromClaudeStop, Meaning, Truncated, Understood
  <2>4. QED
    BY <1>4, <2>2, <2>3 DEF KnownSource, Passes
<1>5. CASE s.upstream = "responses"
  <2>1. reason \in {"completed", "incomplete"}
    BY <1>1, <1>5 DEF Reasons
  <2>2. CASE s.source = "openai"
    <3>1. v.reason = TerminalReason(calls, "tool_calls", CCFinishFromResponseStatus(reason))
      BY <1>1, <1>5, <2>2 DEF Verdict
    <3>2. QED
      BY <1>1, <1>2, <2>1, <2>2, <3>1
      DEF TerminalReason, CCFinishFromResponseStatus, Meaning, Truncated, Understood
  <2>3. CASE s.source = "claude"
    <3>1. v.reason = TerminalReason(calls, "tool_use", ClaudeStopFromResponseStatus(reason))
      BY <1>1, <1>5, <2>3 DEF Verdict
    <3>2. QED
      BY <1>1, <1>2, <2>1, <2>3, <3>1
      DEF TerminalReason, ClaudeStopFromResponseStatus, Meaning, Truncated, Understood
  <2>4. QED
    BY <1>5, <2>2, <2>3 DEF KnownSource, Passes
<1>6. QED
  BY <1>3, <1>4, <1>5

LEMMA ClampedDifference ==
  ASSUME NEW value \in Nat, NEW read, NEW written,
         ValueOrZero(read) \in Nat, ValueOrZero(written) \in Nat,
         value >= ValueOrZero(read) + ValueOrZero(written)
  PROVE  ClampSubtract(value, read, written) = value - ValueOrZero(read) - ValueOrZero(written)
<1>1. PICK n \in Nat : n = value - ValueOrZero(read) - ValueOrZero(written)
  OBVIOUS
<1>2. n \in {0, n} /\ \A y \in {0, n} : n >= y
  BY <1>1
<1>3. Max({0, n}) \in {0, n} /\ \A y \in {0, n} : Max({0, n}) >= y
  BY <1>2 DEF Max
<1>4. Max({0, n}) = n
  BY <1>1, <1>3
<1>5. QED
  BY <1>1, <1>4 DEF ClampSubtract

\* The counts of the verdict are those of the upstream.
LEMMA VerdictCounts ==
  ASSUME NEW s, s.upstream \in {"chat", "messages", "responses"}, KnownSource(s.source),
         IsUsage(s.usage), Consistent(s.usage), NEW told, NEW v, v = Verdict(s, told)
  PROVE  /\ TotalInput(s.source = "claude", v.usage)
              = TotalInput(s.upstream = "messages", Tally(s, told))
         /\ v.usage.output = Tally(s, told).output
<1>1. PICK usage : usage = Tally(s, told)
  OBVIOUS
<1>2. PICK read, written : read = ValueOrZero(usage.cached) /\ written = ValueOrZero(usage.written)
  OBVIOUS
<1>3. ValueOrZero({}) = 0
  BY DEF ValueOrZero
<1>4. /\ usage.input \in Nat /\ read \in Nat /\ written \in Nat /\ usage.input >= read + written
  <2>1. CASE usage = NoUsage
    BY <1>2, <1>3, <2>1 DEF NoUsage
  <2>2. CASE usage = s.usage
    <3>1. usage.input \in Nat /\ usage.output \in Nat
      BY <2>2, CountsOfUsage
    <3>2. read \in Nat /\ written \in Nat
      BY <1>2, <2>2, CountsOfUsage
    <3>3. usage.input >= read + written
      BY <1>2, <2>2 DEF Consistent
    <3>4. QED
      BY <3>1, <3>2, <3>3
  <2>3. QED
    BY <1>1, <2>1, <2>2 DEF Tally
<1>5. PICK all : all = Messages!ClaudeInput(usage)
  OBVIOUS
<1>6. all = usage.input + read + written
  BY <1>2, <1>5 DEF Messages!ClaudeInput, Messages!ValueOrZero, ValueOrZero, Messages!Max, Max
<1>7. CASE s.upstream = "chat" /\ s.source = "claude"
  <2>1. PICK fresh : fresh = ClampSubtract(usage.input, usage.cached, {})
    OBVIOUS
  <2>2. fresh = usage.input - read
    BY <1>2, <1>3, <1>4, <2>1, ClampedDifference
  <2>3. v.usage = [input |-> fresh, output |-> usage.output, cached |-> usage.cached,
                   written |-> {}]
    BY <1>1, <1>7, <2>1 DEF Verdict, ClaudeUsage
  <2>4. TotalInput(s.source = "claude", v.usage) = fresh + read
    BY <1>2, <1>3, <1>4, <1>7, <2>2, <2>3 DEF TotalInput
  <2>5. TotalInput(s.upstream = "messages", usage) = usage.input
    BY <1>4, <1>7 DEF TotalInput
  <2>6. fresh + read = usage.input /\ v.usage.output = usage.output
    BY <1>4, <2>2, <2>3
  <2>7. QED
    BY <1>1, <2>4, <2>5, <2>6
<1>8. CASE s.upstream = "responses" /\ s.source = "claude"
  <2>1. PICK fresh : fresh = ClampSubtract(usage.input, usage.cached, usage.written)
    OBVIOUS
  <2>2. fresh = usage.input - read - written
    BY <1>2, <1>4, <2>1, ClampedDifference
  <2>3. v.usage = [input |-> fresh, output |-> usage.output, cached |-> usage.cached,
                   written |-> usage.written]
    BY <1>1, <1>8, <2>1 DEF Verdict, ClaudeUsage
  <2>4. TotalInput(s.source = "claude", v.usage) = fresh + (read + written)
    BY <1>2, <1>8, <2>3 DEF TotalInput
  <2>5. TotalInput(s.upstream = "messages", usage) = usage.input
    BY <1>4, <1>8 DEF TotalInput
  <2>6. fresh + (read + written) = usage.input /\ v.usage.output = usage.output
    BY <1>4, <2>2, <2>3
  <2>7. QED
    BY <1>1, <2>4, <2>5, <2>6
<1>9. CASE s.upstream = "messages" /\ s.source # "claude"
  <2>1. s.source = "openai" \/ s.source = "openai-response"
    BY <1>9 DEF KnownSource
  <2>2. v.usage.input = all /\ v.usage.output = usage.output
    BY <1>1, <1>5, <1>9, <2>1 DEF Verdict, CCUsageFrom, NewResponsesUsageFrom
  <2>3. TotalInput(s.source = "claude", v.usage) = all
    BY <1>4, <1>6, <1>9, <2>2 DEF TotalInput
  <2>4. TotalInput(s.upstream = "messages", usage) = usage.input + (read + written)
    BY <1>2, <1>9 DEF TotalInput
  <2>5. all = usage.input + (read + written)
    BY <1>4, <1>6
  <2>6. QED
    BY <1>1, <2>2, <2>3, <2>4, <2>5
<1>10. CASE s.upstream = "messages" /\ s.source = "claude"
  BY <1>1, <1>10 DEF Verdict
<1>11. CASE s.upstream # "messages" /\ s.source # "claude"
  <2>1. v.usage.input = usage.input /\ v.usage.output = usage.output
    BY <1>1, <1>11 DEF Verdict, CCUsageFrom, NewResponsesUsageFrom
  <2>2. QED
    BY <1>1, <1>11, <2>1 DEF TotalInput
<1>12. QED
  BY <1>7, <1>8, <1>9, <1>10, <1>11

\* Whatever its protocol, the client of a converted stream is told why the response ended,
\* also by the converters that hold the reason back until the usage has come, and although
\* the calls of which a reason speaks may have come long before.
THEOREM ReasonIsHonest == Spec => []ReasonHonest
<1>1. Translated /\ EndTold => ReasonHonest
  <2> SUFFICES ASSUME Translated, EndTold, client.ended, said.reason # NoReason, ~Passthrough
               PROVE  Meaning(client.reason) = Understood(setting, said)
    BY DEF ReasonHonest, Understood
  <2>1. PICK s, v : s = setting /\ v = Verdict(s, said)
    OBVIOUS
  <2>2. client.reason = v.reason /\ said.reason \in Reasons(s.upstream, HasCalls(said))
    BY <2>1, EndedKnows DEF Is, IsTold
  <2>3. /\ s.upstream \in {"chat", "messages", "responses"} /\ KnownSource(s.source)
        /\ ~Passes(s)
    BY <2>1, KnownSettings DEF Passes, Passthrough
  <2>4. Meaning(v.reason) = Understood(s, said)
    BY <2>1, <2>2, <2>3, VerdictMeans
  <2>5. QED
    BY <2>1, <2>2, <2>4
<1>2. QED
  BY <1>1, TranslatedInvariant, EndToldInvariant, PTL

\* No client is ever told a count below zero, whether or not the upstream's counts add up: what
\* a cache holds may be more than all of the input, and is then clamped, not subtracted. The
\* counts of a stream that is cut before its reason are among them.
THEOREM CountsAreNotNegative == Spec => []CountsNotNegative
<1>1. EndTold => CountsNotNegative
  BY DEF EndTold, Natural, CountsNotNegative
<1>2. QED
  BY <1>1, EndToldInvariant, PTL

\* No token is lost or counted twice between the protocols, whichever converter adds up or
\* takes apart what a cache holds, and whenever the upstream reports it: with its reason, in
\* a chunk of its own, or half at the beginning and half at the end; and none is below zero.
THEOREM UsageIsKept == Spec => []UsageKept
<1>1. Translated /\ EndTold /\ CountsNotNegative => UsageKept
  <2> SUFFICES ASSUME Translated, EndTold, client.ended, said.reason # NoReason,
                      Consistent(setting.usage)
               PROVE  /\ TotalInput(setting.source = "claude", client.usage)
                           = TotalInput(setting.upstream = "messages", Reported)
                      /\ client.usage.output = Reported.output
    BY DEF UsageKept
  <2>1. PICK s, v : s = setting /\ v = Verdict(s, said)
    OBVIOUS
  <2>2. client.usage = v.usage
    BY <2>1, EndedKnows DEF Is
  <2>3. /\ s.upstream \in {"chat", "messages", "responses"} /\ KnownSource(s.source)
        /\ IsUsage(s.usage)
    BY <2>1, KnownSettings
  <2>4. Reported = Tally(s, said)
    BY <2>1 DEF Reported, Tally
  <2>5. QED
    BY <2>1, <2>2, <2>3, <2>4, VerdictCounts
<1>2. QED
  BY <1>1, TranslatedInvariant, EndToldInvariant, CountsAreNotNegative, PTL
=============================================================================
