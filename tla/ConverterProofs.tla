---------------------------- MODULE ConverterProofs ----------------------------
(***************************************************************************)
(* What Normalize makes of the tools of any request, that what went        *)
(* upstream stays that, and what each converter tells the client of any    *)
(* one line, of the upstream's end and of a stream that is cut.            *)
(*                                                                         *)
(* The code loops over lists everywhere, and the model folds.  Round names *)
(* all of these loops, so that one lemma, FoldRounds, gives the value of   *)
(* each after every round of it.                                           *)
(***************************************************************************)
EXTENDS StreamConversion, TLAPS, WellFoundedInduction, SequenceTheorems

-----------------------------------------------------------------------------
(* Induction, with a set for a predicate.  The induction theorems of the   *)
(* library take the predicate as an operator, for which the provers find   *)
(* no instance; a set is a value they can be given, and the least-element  *)
(* principle of a well-founded relation takes one as well.                 *)

\* What holds of 0 and of the successor of what it holds of holds up to any bound.
LEMMA IntervalInduction ==
  ASSUME NEW N \in Nat, NEW T, 0 \in T,
         \A n \in 0..N : n \in T /\ n < N => n + 1 \in T
  PROVE  \A n \in 0..N : n \in T
<1> SUFFICES ASSUME NEW k \in 0..N, k \notin T PROVE FALSE
  OBVIOUS
<1> DEFINE M == {n \in 0..N : n \notin T}
           R == {ss \in Nat \X Nat : ss[1] < ss[2]}
<1>1. M \subseteq Nat /\ M # {} /\ IsWellFoundedOn(R, Nat)
  BY NatLessThanWellFounded DEF OpToRel
<1>2. PICK x \in M : \A y \in M : ~(<<y, x>> \in R)
  <2> HIDE DEF M, R
  <2>1. QED
    BY <1>1, WFMin
<1>3. x \in 0..N /\ x \notin T /\ x # 0
  OBVIOUS
<1>4. x - 1 \in 0..N /\ x - 1 < N /\ <<x - 1, x>> \in R
  BY <1>3
<1>5. x - 1 \in T
  BY <1>2, <1>4
<1>6. (x - 1) + 1 \in T
  BY <1>4, <1>5
<1>7. QED
  BY <1>3, <1>6

-----------------------------------------------------------------------------
(* The loops.                                                              *)

\* The rounds of the loops of a converter.
Stop(events, i, sc) ==
  IF sc.tools[i].stopped THEN events
  ELSE Append(events, ContentBlockStop(sc.tools[i].blockIndex))
ClaudeCalled(out, call) == Chat!Then(out, LAMBDA s : Chat!ClaudeCall(s, call))
ResponsesCalled(out, call) == Chat!Then(out, LAMBDA s : Chat!ResponsesCall(s, call))
PlacedCall(oa, i, sc) ==
  AppendFunctionCall(IF sc.msgIndex >= 0 /\ sc.tools[i].blockIndex > sc.msgIndex
                     THEN ReserveTextSlot(oa) ELSE oa,
                     sc.tools[i].id, sc.tools[i].name, DefaultArgs(sc.tools[i].args))
PlacedBlock(oa, bs) ==
  CASE bs.kind = "text"     -> AddText(ReserveTextSlot(oa), bs.text)
    [] bs.kind = "tool_use" -> AppendFunctionCall(oa, bs.id, bs.name, DefaultArgs(bs.args))
    [] OTHER                -> oa
CompletedItem(done, k, items) ==
  done \o (IF items[k].type = "message" THEN MessageDone(k - 1, items[k])
           ELSE ToolDone(k - 1, items[k]))
FeedBy(upstream, sc, line) ==
  CASE upstream = "chat"     -> Chat!Feed(sc, line)
    [] upstream = "messages" -> Messages!Feed(sc, line)
    [] OTHER                 -> Responses!Feed(sc, line)
Fed(out, line, p) ==
  IF out.done \/ out.failed THEN out
  ELSE LET next == FeedBy(p.upstream, out.sc, line)
       IN  [next EXCEPT !.events = out.events \o next.events]

\* A round of a loop: over the tools of a request or those of a name space, over the
\* events that a client reads or the entries of one, over the blocks a converter stops or
\* the calls of a chunk, over what goes into an output array and what completes its items,
\* and over the lines of a chunk.
Round(loop, acc, x, p) ==
  CASE loop = "request"   -> Add(acc, x, p.strip, p.native)
    [] loop = "namespace" -> AddTool(acc, x, p.namespace, p.strip, p.native)
    [] loop = "events"    -> Receive(p, acc, x)
    [] loop = "entries"   -> ReceiveEntry(acc, x)
    [] loop = "stops"     -> Stop(acc, x, p)
    [] loop = "claude"    -> ClaudeCalled(acc, x)
    [] loop = "responses" -> ResponsesCalled(acc, x)
    [] loop = "calls"     -> PlacedCall(acc, x, p)
    [] loop = "blocks"    -> PlacedBlock(acc, x)
    [] loop = "items"     -> CompletedItem(acc, x, p)
    [] loop = "lines"     -> Fed(acc, x, p)
    [] OTHER              -> acc

\* The function on sets of indexes by which a fold is defined.
Fold(f, D, loop, base, list, p) ==
  f = [s \in SUBSET D |->
         IF s = {} THEN base ELSE Round(loop, f[s \ {Max(s)}], list[Max(s)], p)]
Folded(loop, base, list, p) ==
  (CHOOSE f : Fold(f, DOMAIN list, loop, base, list, p))[DOMAIN list]

LEMMA MaxOfInitial ==
  ASSUME NEW n \in Nat, NEW s \in SUBSET (0..n), n \in s
  PROVE  Max(s) = n
<1>1. \A y \in s : n >= y
  OBVIOUS
<1>2. \A x \in s : (\A y \in s : x >= y) => x = n
  OBVIOUS
<1>3. QED
  BY <1>1, <1>2 DEF Max

\* Such a function exists: it is extended by one index at a time.
LEMMA FoldExists ==
  ASSUME NEW N \in Nat, NEW D \in SUBSET (0..N), NEW loop, NEW base, NEW list, NEW p
  PROVE  \E f : Fold(f, D, loop, base, list, p)
<1> DEFINE F(f, n) == Fold(f, D \cap (0..(n - 1)), loop, base, list, p)
           T == {n \in 0..(N + 1) : \E f : F(f, n)}
<1>1. 0 \in T
  <2>1. SUBSET (D \cap (0..(0 - 1))) = {{}}
    OBVIOUS
  <2>2. F([s \in {{}} |-> base], 0)
    BY <2>1 DEF Fold
  <2>3. QED
    BY <2>2
<1>2. ASSUME NEW n \in 0..(N + 1), n \in T, n < N + 1
      PROVE  n + 1 \in T
  <2>1. n \in Nat /\ (n + 1) - 1 = n
    OBVIOUS
  <2>2. PICK f : F(f, n)
    BY <1>2
  <2> DEFINE E == D \cap (0..(n - 1))
             G == D \cap (0..n)
             g == [s \in SUBSET G |->
                     IF n \in s THEN Round(loop, f[s \ {n}], list[n], p) ELSE f[s]]
             h == [s \in SUBSET G |->
                     IF s = {} THEN base ELSE Round(loop, g[s \ {Max(s)}], list[Max(s)], p)]
  <2>3. ASSUME NEW s \in SUBSET E
        PROVE  f[s] = IF s = {} THEN base ELSE Round(loop, f[s \ {Max(s)}], list[Max(s)], p)
    BY <2>2 DEF Fold
  <2>4. ASSUME NEW s \in SUBSET G
        PROVE  g[s] = h[s]
    <3>1. CASE n \in s
      <4>1. Max(s) = n /\ s # {}
        BY <2>1, <3>1, MaxOfInitial
      <4>2. s \ {n} \in SUBSET G /\ n \notin s \ {n}
        OBVIOUS
      <4>3. g[s \ {n}] = f[s \ {n}]
        BY <4>2
      <4> HIDE DEF Round
      <4>4. QED
        BY <3>1, <4>1, <4>3
    <3>2. CASE n \notin s
      <4>1. s \in SUBSET E
        BY <2>1, <3>2
      <4>2. s \ {Max(s)} \in SUBSET G /\ n \notin s \ {Max(s)}
        BY <3>2
      <4>3. g[s \ {Max(s)}] = f[s \ {Max(s)}] /\ g[s] = f[s]
        BY <3>2, <4>2
      <4>4. QED
        BY <2>3, <4>1, <4>3
    <3>3. QED
      BY <3>1, <3>2
  <2>5. g = h
    BY <2>4
  <2> HIDE DEF g
  <2>6. F(g, n + 1)
    BY <2>1, <2>5 DEF Fold
  <2>7. n + 1 \in 0..(N + 1)
    BY <1>2, <2>1
  <2>8. QED
    BY <2>6, <2>7
<1> HIDE DEF T, F
<1>3. N + 1 \in T
  <2>1. PICK M \in Nat : M = N + 1
    OBVIOUS
  <2>2. 0 \in T /\ \A n \in 0..M : n \in T /\ n < M => n + 1 \in T
    BY <1>1, <1>2, <2>1
  <2>3. \A n \in 0..M : n \in T
    BY <2>2, IntervalInduction
  <2>4. QED
    BY <2>1, <2>3
<1>4. PICK f : F(f, N + 1)
  BY <1>3 DEF T
<1>5. (N + 1) - 1 = N /\ D \cap (0..N) = D
  <2>1. (N + 1) - 1 = N
    OBVIOUS
  <2>2. \A x \in D : x \in 0..N
    OBVIOUS
  <2>3. D \cap (0..N) = D
    BY <2>2, Zenon
  <2>4. QED
    BY <2>1, <2>3
<1>6. Fold(f, D \cap (0..((N + 1) - 1)), loop, base, list, p)
  BY <1>4 DEF F
<1>7. Fold(f, D, loop, base, list, p)
  BY <1>5, <1>6
<1>8. QED
  BY <1>7

\* What the loop has made of the first k elements of the list.
Rounds(g, loop, base, list, p) ==
  /\ g[0] = base
  /\ \A k \in 1..Len(list) : g[k] = Round(loop, g[k - 1], list[k], p)

LEMMA FoldRounds ==
  ASSUME NEW X, NEW list \in Seq(X), NEW loop, NEW base, NEW p
  PROVE  \E g : Rounds(g, loop, base, list, p) /\ Folded(loop, base, list, p) = g[Len(list)]
<1>1. PICK N \in Nat : N = Len(list) /\ DOMAIN list = 1..N
  OBVIOUS
<1>2. PICK f : Fold(f, 1..N, loop, base, list, p) /\ Folded(loop, base, list, p) = f[1..N]
  <2>1. 1..N \in SUBSET (0..N)
    BY <1>1
  <2>2. \E f : Fold(f, 1..N, loop, base, list, p)
    BY <1>1, <2>1, FoldExists
  <2>3. QED
    BY <1>1, <2>2 DEF Folded
<1> DEFINE g == [k \in 0..N |-> f[1..k]]
<1>3. \A s \in SUBSET (1..N) :
        f[s] = IF s = {} THEN base ELSE Round(loop, f[s \ {Max(s)}], list[Max(s)], p)
  BY <1>2 DEF Fold
<1>4. g[0] = base
  <2>1. 1..0 = {} /\ {} \in SUBSET (1..N) /\ 0 \in 0..N
    OBVIOUS
  <2>2. QED
    BY <1>3, <2>1
<1>5. ASSUME NEW k \in 1..N
      PROVE  g[k] = Round(loop, g[k - 1], list[k], p)
  <2>1. k \in Nat /\ 1..k \in SUBSET (0..k) /\ k \in 1..k
    OBVIOUS
  <2>2. Max(1..k) = k
    BY <2>1, MaxOfInitial
  <2>3. 1..k \in SUBSET (1..N) /\ 1..k # {} /\ (1..k) \ {k} = 1..(k - 1)
    <3>1. 1..k \in SUBSET (1..N) /\ 1..k # {}
      OBVIOUS
    <3>2. (1..k) \ {k} = 1..(k - 1)
      BY <2>1
    <3>3. QED
      BY <3>1, <3>2
  <2>4. f[1..k] = Round(loop, f[1..(k - 1)], list[k], p)
    BY <1>3, <2>2, <2>3
  <2>5. g[k] = f[1..k] /\ g[k - 1] = f[1..(k - 1)]
    BY <1>1
  <2>6. QED
    BY <2>4, <2>5
<1>6. g[N] = f[1..N]
  BY <1>1
<1> HIDE DEF g
<1>7. Rounds(g, loop, base, list, p) /\ Folded(loop, base, list, p) = g[Len(list)]
  <2>1. \A k \in 1..N : g[k] = Round(loop, g[k - 1], list[k], p)
    BY <1>5
  <2>2. N = Len(list)
    BY <1>1
  <2>3. Rounds(g, loop, base, list, p)
    BY <1>4, <2>1, <2>2 DEF Rounds
  <2>4. QED
    BY <1>2, <1>6, <2>2, <2>3
<1>8. QED
  BY <1>7

-----------------------------------------------------------------------------
(* The two loops of Normalize.                                             *)

AllAdded(base, list, strip, native) ==
  FoldLeft(LAMBDA a, tool : Add(a, tool, strip, native), base, list)
ChildrenAdded(base, list, namespace, strip, native) ==
  FoldLeft(LAMBDA a, child : AddTool(a, child, namespace, strip, native), base, list)

LEMMA ToolsFold ==
  ASSUME NEW X, NEW list \in Seq(X), NEW base, NEW strip, NEW native
  PROVE  \E g : /\ g[0] = base /\ AllAdded(base, list, strip, native) = g[Len(list)]
                /\ \A k \in 1..Len(list) : g[k] = Add(g[k - 1], list[k], strip, native)
<1> DEFINE p == [strip |-> strip, native |-> native]
<1>1. AllAdded(base, list, strip, native) = Folded("request", base, list, p)
  BY DEF AllAdded, FoldLeft, MapThenFoldSet, Folded, Fold, Round
<1>2. PICK g : /\ Rounds(g, "request", base, list, p)
               /\ Folded("request", base, list, p) = g[Len(list)]
  BY FoldRounds
<1>3. QED
  BY <1>1, <1>2 DEF Rounds, Round

LEMMA ChildrenFold ==
  ASSUME NEW X, NEW list \in Seq(X), NEW base, NEW namespace, NEW strip, NEW native
  PROVE  \E g : /\ g[0] = base /\ ChildrenAdded(base, list, namespace, strip, native) = g[Len(list)]
                /\ \A k \in 1..Len(list) :
                     g[k] = AddTool(g[k - 1], list[k], namespace, strip, native)
<1> DEFINE p == [namespace |-> namespace, strip |-> strip, native |-> native]
<1>1. ChildrenAdded(base, list, namespace, strip, native) = Folded("namespace", base, list, p)
  BY DEF ChildrenAdded, FoldLeft, MapThenFoldSet, Folded, Fold, Round
<1>2. PICK g : /\ Rounds(g, "namespace", base, list, p)
               /\ Folded("namespace", base, list, p) = g[Len(list)]
  BY FoldRounds
<1>3. QED
  BY <1>1, <1>2 DEF Rounds, Round

-----------------------------------------------------------------------------
(* One tool.                                                               *)

Wire(identity) == QualifiedResponseToolName(identity.name, identity.namespace)

\* What Normalize has made of some declarations.
IsAcc(acc) ==
  /\ DOMAIN acc = {"error", "names", "tools", "stripped"}
  /\ \E X : acc.tools \in Seq(X)
  /\ \A wire \in DOMAIN acc.names : acc.tools # <<>>

\* Hosted tools are stripped or native, never both.
NotBoth(strip, native) == ~(strip /\ native)

KnownAs(names, identity) ==
  Wire(identity) \in DOMAIN names /\ names[Wire(identity)] = identity

\* From acc to t the identities of I were declared: nothing was forgotten or renamed,
\* every new name stands for one of them, and without an error every one of them that
\* has a name is known by it.
Declares(acc, t, I) ==
  /\ IsAcc(t)
  /\ acc.error => t.error
  /\ acc.stripped => t.stripped
  /\ acc.tools # <<>> => t.tools # <<>>
  /\ \A wire \in DOMAIN acc.names : wire \in DOMAIN t.names /\ t.names[wire] = acc.names[wire]
  /\ \A wire \in DOMAIN t.names \ DOMAIN acc.names :
       t.names[wire] \in I /\ Wire(t.names[wire]) = wire /\ wire # <<>>
  /\ ~t.error => \A i \in I : IF Wire(i) = <<>> THEN ~i.custom ELSE KnownAs(t.names, i)

LEMMA NothingIsAcc == IsAcc(Nothing) /\ DOMAIN Nothing.names = {} /\ ~Nothing.error
BY DEF IsAcc, Nothing

LEMMA DeclaresNothing ==
  ASSUME NEW acc, IsAcc(acc)
  PROVE  Declares(acc, acc, {})
BY DEF Declares

LEMMA DeclaresBoth ==
  ASSUME NEW a, NEW b, NEW c, NEW I, NEW J, Declares(a, b, I), Declares(b, c, J)
  PROVE  Declares(a, c, I \cup J)
<1>1. /\ IsAcc(c)
      /\ a.error => c.error
      /\ a.stripped => c.stripped
      /\ a.tools # <<>> => c.tools # <<>>
  BY DEF Declares
<1>2. \A wire \in DOMAIN a.names : wire \in DOMAIN c.names /\ c.names[wire] = a.names[wire]
  BY DEF Declares
<1>3. \A wire \in DOMAIN c.names \ DOMAIN a.names :
        c.names[wire] \in I \cup J /\ Wire(c.names[wire]) = wire /\ wire # <<>>
  BY DEF Declares
<1>4. ASSUME ~c.error, NEW i \in I \cup J
      PROVE  IF Wire(i) = <<>> THEN ~i.custom ELSE KnownAs(c.names, i)
  <2>1. CASE i \in J
    BY <1>4, <2>1 DEF Declares
  <2>2. CASE i \in I
    <3>1. IF Wire(i) = <<>> THEN ~i.custom ELSE KnownAs(b.names, i)
      BY <1>4, <2>2 DEF Declares
    <3>2. KnownAs(b.names, i) => KnownAs(c.names, i)
      BY DEF Declares, KnownAs
    <3>3. QED
      BY <3>1, <3>2
  <2>3. QED
    BY <1>4, <2>1, <2>2
<1>5. QED
  BY <1>1, <1>2, <1>3, <1>4 DEF Declares

\* What is refused, or was before, declares whatever one likes.
LEMMA RejectedDeclares ==
  ASSUME NEW acc, IsAcc(acc), NEW I
  PROVE  Declares(acc, Rejected(acc), I) /\ Rejected(acc).error
         /\ (acc.error => Declares(acc, acc, I))
<1> DEFINE r == Rejected(acc)
<1>1. /\ DOMAIN r = DOMAIN acc /\ r.error = TRUE /\ r.names = acc.names
      /\ r.tools = acc.tools /\ r.stripped = acc.stripped
  BY DEF Rejected, IsAcc
<1> HIDE DEF r
<1>2. Declares(acc, r, I)
  BY <1>1 DEF Declares, IsAcc
<1>3. QED
  BY <1>1, <1>2 DEF Declares, r

LEMMA AppendedTools ==
  ASSUME NEW X, NEW tools \in Seq(X), NEW x
  PROVE  Append(tools, x) # <<>> /\ \E Y : Append(tools, x) \in Seq(Y)
<1>1. tools \in Seq(X \cup {x})
  OBVIOUS
<1>2. Append(tools, x) \in Seq(X \cup {x}) /\ Len(Append(tools, x)) = Len(tools) + 1
  BY <1>1
<1>3. QED
  BY <1>2

LEMMA WireOf ==
  ASSUME NEW name \in Seq(STRING), name # <<>>, NEW namespace
  PROVE  QualifiedResponseToolName(name, namespace) # <<>>
<1>1. ASSUME NEW s \in Seq(STRING) PROVE <<namespace>> \o s # <<>>
  <2>1. <<namespace>> \in Seq({namespace} \cup STRING) /\ s \in Seq({namespace} \cup STRING)
    OBVIOUS
  <2>2. Len(<<namespace>> \o s) = 1 + Len(s)
    BY <2>1
  <2>3. QED
    BY <2>2
<1>2. QED
  BY <1>1 DEF QualifiedResponseToolName

\* A function is declared under its name, unless that name stands for another.
LEMMA RegisterDeclares ==
  ASSUME NEW acc, IsAcc(acc), NEW tool, NEW namespace,
         tool.name \in Seq(STRING), tool.name # <<>>,
         NEW t, t = Register(acc, tool.type, tool.name, namespace)
  PROVE  Declares(acc, t, {Identified(tool, namespace)}) /\ (t.error \/ t.tools # <<>>)
<1> DEFINE i == Identified(tool, namespace)
           w == QualifiedResponseToolName(tool.name, namespace)
<1>1. Wire(i) = w /\ w # <<>>
  BY WireOf DEF Wire, Identified
<1>2. t = IF w \in DOMAIN acc.names
          THEN IF acc.names[w] = i THEN acc ELSE Rejected(acc)
          ELSE [acc EXCEPT !.names = Put(@, w, i), !.tools = Append(@, w)]
  BY DEF Register, Identified
<1> HIDE DEF i, w
<1>3. CASE w \in DOMAIN acc.names /\ acc.names[w] = i
  <2>1. t = acc
    BY <1>2, <1>3
  <2>2. QED
    BY <1>1, <1>3, <2>1 DEF Declares, KnownAs, IsAcc, i
<1>4. CASE w \in DOMAIN acc.names /\ acc.names[w] # i
  <2>1. t = Rejected(acc)
    BY <1>2, <1>4
  <2>2. QED
    BY <2>1, RejectedDeclares
<1>5. CASE w \notin DOMAIN acc.names
  <2>1. t = [acc EXCEPT !.names = Put(@, w, i), !.tools = Append(@, w)]
    BY <1>2, <1>5
  <2>2. /\ DOMAIN t = DOMAIN acc /\ t.error = acc.error /\ t.stripped = acc.stripped
        /\ t.names = Put(acc.names, w, i) /\ t.tools = Append(acc.tools, w)
    BY <2>1 DEF IsAcc
  <2>3. /\ DOMAIN t.names = DOMAIN acc.names \cup {w}
        /\ t.names[w] = i
        /\ \A v \in DOMAIN acc.names : t.names[v] = acc.names[v]
    BY <1>5, <2>2 DEF Put
  <2>4. t.tools # <<>> /\ \E Y : t.tools \in Seq(Y)
    <3>1. PICK X : acc.tools \in Seq(X)
      BY DEF IsAcc
    <3>2. QED
      BY <2>2, <3>1, AppendedTools
  <2>5. IsAcc(t)
    BY <2>2, <2>4 DEF IsAcc
  <2>6. KnownAs(t.names, i)
    BY <1>1, <2>3 DEF KnownAs
  <2>7. Declares(acc, t, {i})
    BY <1>1, <2>2, <2>3, <2>4, <2>5, <2>6 DEF Declares
  <2>8. QED
    BY <2>4, <2>7 DEF i
<1>6. QED
  BY <1>3, <1>4, <1>5

\* Whatever the tool and the route, on which hosted tools are stripped or native but not
\* both.  Outside a name space it may also be stripped,
\* passed as it is, or dropped.
NamedByType(tool) == tool.type \notin {"function", "custom"} => tool.name = <<>>
Droppable(tool) == tool.type \in {"tool_search", "image_generation"}
\* The upstream is offered something, or the client is told why not.
Offers(acc) == acc.error \/ acc.tools # <<>> \/ acc.stripped

LEMMA AddToolDeclares ==
  ASSUME NEW acc, IsAcc(acc), NEW tool, NEW namespace, NEW strip, NEW native,
         NotBoth(strip, native), tool.name \in Seq(STRING),
         namespace = NoNamespace => NamedByType(tool),
         NEW t, t = AddTool(acc, tool, namespace, strip, native)
  PROVE  /\ Declares(acc, t, {Identified(tool, namespace)})
         /\ Offers(t) \/ (namespace = NoNamespace /\ Droppable(tool))
<1> DEFINE I == {Identified(tool, namespace)}
<1>1. CASE acc.error
  <2>1. t = acc
    BY <1>1 DEF AddTool
  <2>2. QED
    BY <1>1, <2>1, RejectedDeclares DEF Offers
<1> DEFINE top == namespace = NoNamespace
<1>2. ASSUME top, tool.type \notin {"function", "custom"}, IsAcc(t),
             acc.error => t.error, acc.stripped => t.stripped,
             acc.tools # <<>> => t.tools # <<>>, t.names = acc.names
      PROVE  Declares(acc, t, I)
  <2>1. Wire(Identified(tool, namespace)) = <<>> /\ ~Identified(tool, namespace).custom
    BY <1>2 DEF NamedByType, Wire, Identified, QualifiedResponseToolName
  <2>2. QED
    BY <1>2, <2>1 DEF Declares
<1>3. CASE ~acc.error /\ strip /\ top /\ IsOptionalHostedTool(tool.type)
  <2>1. t = [acc EXCEPT !.stripped = TRUE]
    <3>1. ~native /\ tool.type \notin {"function", "custom"}
      BY <1>3 DEF IsOptionalHostedTool, NotBoth
    <3>2. QED
      BY <1>3, <3>1 DEF AddTool
  <2>2. /\ DOMAIN t = DOMAIN acc /\ t.error = acc.error /\ t.stripped = TRUE
        /\ t.names = acc.names /\ t.tools = acc.tools
    BY <2>1 DEF IsAcc
  <2>3. IsAcc(t)
    BY <2>2 DEF IsAcc
  <2>4. tool.type \notin {"function", "custom"}
    BY <1>3 DEF IsOptionalHostedTool
  <2>5. QED
    BY <1>2, <1>3, <2>2, <2>3, <2>4 DEF Offers
<1>4. CASE ~acc.error /\ native /\ top /\ tool.type \notin {"function", "custom"}
           /\ ~(strip /\ top /\ IsOptionalHostedTool(tool.type))
  <2>1. t = IF tool.type \in {"tool_search", "image_generation"} THEN acc
            ELSE [acc EXCEPT !.tools = Append(@, <<tool.type>>)]
    BY <1>4 DEF AddTool
  <2>2. CASE tool.type \in {"tool_search", "image_generation"}
    BY <1>2, <1>4, <2>1, <2>2 DEF Droppable
  <2>3. CASE tool.type \notin {"tool_search", "image_generation"}
    <3>1. t = [acc EXCEPT !.tools = Append(@, <<tool.type>>)]
      BY <2>1, <2>3
    <3>2. /\ DOMAIN t = DOMAIN acc /\ t.error = acc.error /\ t.stripped = acc.stripped
          /\ t.names = acc.names /\ t.tools = Append(acc.tools, <<tool.type>>)
      BY <3>1 DEF IsAcc
    <3>3. t.tools # <<>> /\ \E Y : t.tools \in Seq(Y)
      <4>1. PICK X : acc.tools \in Seq(X)
        BY DEF IsAcc
      <4>2. QED
        BY <3>2, <4>1, AppendedTools
    <3>4. IsAcc(t)
      BY <3>2, <3>3 DEF IsAcc
    <3>5. QED
      BY <1>2, <1>4, <3>2, <3>3, <3>4 DEF Offers
  <2>4. QED
    BY <2>2, <2>3
<1>5. CASE /\ ~acc.error
           /\ ~(native /\ top /\ tool.type \notin {"function", "custom"})
           /\ ~(strip /\ top /\ IsOptionalHostedTool(tool.type))
  <2>1. t = IF tool.type \notin {"function", "custom"} \/ tool.name = <<>>
            THEN Rejected(acc) ELSE Register(acc, tool.type, tool.name, namespace)
    BY <1>5 DEF AddTool
  <2>2. QED
    BY <2>1, RejectedDeclares, RegisterDeclares DEF Offers
<1>6. QED
  BY <1>1, <1>3, <1>4, <1>5

-----------------------------------------------------------------------------
(* All tools of a name space, and of a request.                            *)

LEMMA StillOffers ==
  ASSUME NEW a, NEW b, NEW I, Declares(a, b, I), Offers(a)
  PROVE  Offers(b)
BY DEF Declares, Offers

LEMMA ChildDeclares ==
  ASSUME NEW acc, IsAcc(acc), NEW child, child.name \in Seq(STRING),
         NEW namespace, namespace # NoNamespace,
         NEW strip, NEW native, NotBoth(strip, native),
         NEW t, t = AddTool(acc, child, namespace, strip, native)
  PROVE  Declares(acc, t, {Identified(child, namespace)}) /\ Offers(t)
BY AddToolDeclares

ChildrenUpTo(children, namespace, k) == {Identified(children[j], namespace) : j \in 1..k}

LEMMA ChildrenDeclare ==
  ASSUME NEW acc, IsAcc(acc), NEW X, NEW children \in Seq(X), children # <<>>,
         \A k \in 1..Len(children) : children[k].name \in Seq(STRING),
         NEW namespace, namespace # NoNamespace,
         NEW strip, NEW native, NotBoth(strip, native),
         NEW t, t = ChildrenAdded(acc, children, namespace, strip, native)
  PROVE  /\ Declares(acc, t, ChildrenUpTo(children, namespace, Len(children)))
         /\ Offers(t)
<1> DEFINE N == Len(children)
           U(k) == ChildrenUpTo(children, namespace, k)
<1>1. N \in Nat /\ N # 0
  OBVIOUS
<1>2. PICK g : /\ g[0] = acc
               /\ \A k \in 1..Len(children) :
                    g[k] = AddTool(g[k - 1], children[k], namespace, strip, native)
               /\ t = g[N]
  BY ChildrenFold
<1> DEFINE T == {k \in 0..N : Declares(acc, g[k], U(k)) /\ (k = 0 \/ Offers(g[k]))}
<1>3. 0 \in T
  <2>1. g[0] = acc
    BY <1>2
  <2>2. U(0) = {}
    BY DEF ChildrenUpTo
  <2>3. Declares(acc, g[0], U(0))
    BY <2>1, <2>2, DeclaresNothing
  <2> HIDE DEF U
  <2>4. QED
    BY <1>1, <2>3
<1>4. ASSUME NEW k \in 0..N, k \in T, k < N
      PROVE  k + 1 \in T
  <2>1. PICK m \in 1..N : m = k + 1
    BY <1>1, <1>4
  <2>2. m - 1 = k
    BY <2>1
  <2>3. g[m] = AddTool(g[k], children[m], namespace, strip, native)
    BY <1>2, <2>2
  <2>4. Declares(acc, g[k], U(k)) /\ IsAcc(g[k])
    BY <1>4 DEF Declares
  <2> DEFINE i == Identified(children[m], namespace)
  <2>5. Declares(g[k], g[m], {i}) /\ Offers(g[m])
    <3>1. children[m].name \in Seq(STRING)
      OBVIOUS
    <3>2. QED
      BY <2>3, <2>4, <3>1, ChildDeclares
  <2>6. U(m) = U(k) \cup {i}
    <3>1. 1..m = (1..k) \cup {m}
      BY <2>1
    <3>2. QED
      BY <3>1 DEF ChildrenUpTo
  <2> HIDE DEF U, i
  <2>7. Declares(acc, g[m], U(m))
    BY <2>4, <2>5, <2>6, DeclaresBoth
  <2>8. QED
    BY <2>1, <2>5, <2>7
<1> HIDE DEF T
<1>5. \A k \in 0..N : k \in T
  BY <1>1, <1>3, <1>4, IntervalInduction
<1>6. N \in T
  BY <1>1, <1>5
<1>7. QED
  BY <1>1, <1>2, <1>6 DEF T

LEMMA AddDeclares ==
  ASSUME NEW acc, IsAcc(acc), NEW tool \in ResponseTool, NamedByKind(tool),
         NEW strip, NEW native, NotBoth(strip, native),
         NEW t, t = Add(acc, tool, strip, native)
  PROVE  /\ Declares(acc, t, IdentitiesOf(tool))
         /\ Offers(t) \/ Droppable(tool)
<1>1. tool.name \in Seq(STRING)
  BY DEF ResponseTool
<1>2. CASE tool.type # "namespace"
  <2>1. t = AddTool(acc, tool, NoNamespace, strip, native)
    BY <1>2 DEF Add
  <2>2. NamedByType(tool)
    BY <1>2 DEF NamedByKind, NamedByType
  <2>3. IdentitiesOf(tool) = {Identified(tool, NoNamespace)}
    BY <1>2 DEF IdentitiesOf
  <2>4. QED
    BY <1>1, <2>1, <2>2, <2>3, AddToolDeclares
<1>3. CASE tool.type = "namespace" /\ (tool.name = <<>> \/ tool.children = <<>>)
  <2>1. t = Rejected(acc)
    BY <1>3 DEF Add
  <2>2. QED
    BY <2>1, RejectedDeclares DEF Offers
<1>4. CASE tool.type = "namespace" /\ tool.name # <<>> /\ tool.children # <<>>
  <2> DEFINE L == tool.children
             n == tool.name[1]
  <2>1. t = ChildrenAdded(acc, L, n, strip, native)
    BY <1>4 DEF Add, ChildrenAdded
  <2>2. n # NoNamespace
    BY <1>4 DEF NamedByKind
  <2>3. L \in Seq([type : STRING, name : Seq(STRING), children : {<<>>}])
    BY DEF ResponseTool
  <2>4. \A k \in 1..Len(L) : L[k].name \in Seq(STRING)
    <3> DEFINE S == [type : STRING, name : Seq(STRING), children : {<<>>}]
    <3>1. L \in Seq(S)
      BY <2>3
    <3>2. \A x \in S : x.name \in Seq(STRING)
      OBVIOUS
    <3> HIDE DEF L, S
    <3>3. QED
      BY <3>1, <3>2
  <2>5. IdentitiesOf(tool) = ChildrenUpTo(L, n, Len(L))
    <3>1. DOMAIN L = 1..Len(L)
      BY <2>3
    <3>2. IdentitiesOf(tool) = {Identified(L[k], n) : k \in DOMAIN L}
      BY <1>4 DEF IdentitiesOf
    <3> HIDE DEF L, n
    <3>3. QED
      BY <3>1, <3>2 DEF ChildrenUpTo
  <2> HIDE DEF L, n
  <2>6. QED
    BY <1>4, <2>1, <2>2, <2>3, <2>4, <2>5, ChildrenDeclare DEF L
<1>5. QED
  BY <1>2, <1>3, <1>4

ToolsUpTo(list, k) == UNION {IdentitiesOf(list[j]) : j \in 1..k}

LEMMA ToolsDeclare ==
  ASSUME NEW list \in Seq(ResponseTool), \A k \in 1..Len(list) : NamedByKind(list[k]),
         NEW strip, NEW native, NotBoth(strip, native),
         NEW t, t = AllAdded(Nothing, list, strip, native)
  PROVE  /\ Declares(Nothing, t, ToolsUpTo(list, Len(list)))
         /\ (\E k \in 1..Len(list) : ~Droppable(list[k]))
              => Offers(t)
<1> DEFINE N == Len(list)
           U(k) == ToolsUpTo(list, k)
           Named(k) == \E j \in 1..k : ~Droppable(list[j])
<1>1. N \in Nat
  OBVIOUS
<1>2. PICK g : /\ g[0] = Nothing
               /\ \A k \in 1..Len(list) : g[k] = Add(g[k - 1], list[k], strip, native)
               /\ t = g[N]
  BY ToolsFold
<1> DEFINE T == {k \in 0..N : Declares(Nothing, g[k], U(k)) /\ (Named(k) => Offers(g[k]))}
<1>3. 0 \in T
  <2>1. g[0] = Nothing
    BY <1>2
  <2>2. U(0) = {} /\ ~Named(0)
    BY DEF ToolsUpTo
  <2>3. Declares(Nothing, g[0], U(0))
    BY <2>1, <2>2, DeclaresNothing, NothingIsAcc
  <2> HIDE DEF U, Named
  <2>4. QED
    BY <1>1, <2>2, <2>3
<1>4. ASSUME NEW k \in 0..N, k \in T, k < N
      PROVE  k + 1 \in T
  <2>1. PICK m \in 1..N : m = k + 1
    BY <1>1, <1>4
  <2>2. m - 1 = k
    BY <2>1
  <2>3. g[m] = Add(g[k], list[m], strip, native)
    BY <1>2, <2>2
  <2>4. Declares(Nothing, g[k], U(k)) /\ IsAcc(g[k])
    BY <1>4 DEF Declares
  <2> DEFINE I == IdentitiesOf(list[m])
  <2>5. /\ Declares(g[k], g[m], I)
        /\ Offers(g[m]) \/ Droppable(list[m])
    BY <2>3, <2>4, AddDeclares
  <2>6. 1..m = (1..k) \cup {m}
    BY <2>1
  <2>7. U(m) = U(k) \cup I
    BY <2>6 DEF ToolsUpTo
  <2>8. Named(m) => Offers(g[m])
    <3>1. Named(m) => Named(k) \/ ~Droppable(list[m])
      BY <2>6
    <3>2. Offers(g[k]) => Offers(g[m])
      BY <2>5, StillOffers
    <3>3. QED
      BY <1>4, <2>5, <3>1, <3>2
  <2> HIDE DEF U, I, Named
  <2>9. Declares(Nothing, g[m], U(m))
    BY <2>4, <2>5, <2>7, DeclaresBoth
  <2>10. QED
    BY <2>1, <2>8, <2>9
<1> HIDE DEF T
<1>5. \A k \in 0..N : k \in T
  BY <1>1, <1>3, <1>4, IntervalInduction
<1>6. N \in T
  BY <1>1, <1>5
<1>7. QED
  BY <1>1, <1>2, <1>6 DEF T

-----------------------------------------------------------------------------
(* Normalize.                                                              *)

Strips(stripHosted, native) == stripHosted /\ ~native
Taken(r, stripHosted, native) ==
  AllAdded(Nothing, DeclarationsOf(r), Strips(stripHosted, native), native)
Accepts(acc, r, strip) == ~acc.error /\ ~BadChoice(acc, QualifiedChoice(r.choice), strip)
SentChoice(acc, r) ==
  IF acc.stripped /\ acc.tools = <<>>
  THEN Choice("absent", <<>>, NoNamespace) ELSE QualifiedChoice(r.choice)
SentCalls(r) == [k \in DOMAIN r.history |-> QualifiedCall(r.history[k])]

LEMMA NormalizeParts ==
  ASSUME NEW r, NEW stripHosted, NEW native,
         NEW n, n = Normalize(r, stripHosted, native),
         NEW acc, acc = Taken(r, stripHosted, native)
  PROVE  /\ n.names = acc.names /\ n.tools = acc.tools
         /\ n.error \/ Accepts(acc, r, Strips(stripHosted, native))
         /\ n.choice = SentChoice(acc, r)
         /\ n.conversation = SentCalls(r)
<1> DEFINE strip == stripHosted /\ ~native
           choice == QualifiedChoice(r.choice)
           bad == \/ strip /\ \E k \in DOMAIN r.history : r.history[k].type = "web_search_call"
                  \/ BadChoice(acc, choice, strip)
           chosen == IF acc.stripped /\ acc.tools = <<>>
                   THEN Choice("absent", <<>>, NoNamespace) ELSE choice
           calls == [k \in DOMAIN r.history |-> QualifiedCall(r.history[k])]
           error == acc.error \/ bad
<1>1. acc = FoldLeft(LAMBDA a, tool : Add(a, tool, strip, native), Nothing,
                     r.tools \o r.more)
  BY DEF Taken, AllAdded, DeclarationsOf, Strips
<1>2. n = [error |-> error, names |-> acc.names, tools |-> acc.tools,
           choice |-> chosen, conversation |-> calls]
  BY <1>1 DEF Normalize
<1> HIDE DEF chosen, calls, error
<1>3. /\ n.names = acc.names /\ n.tools = acc.tools
      /\ n.choice = chosen /\ n.conversation = calls
      /\ n.error = error
  BY <1>2
<1>4. ~n.error => ~acc.error /\ ~BadChoice(acc, choice, strip)
  BY <1>3 DEF error
<1>5. QED
  BY <1>3, <1>4 DEF chosen, calls, Accepts, SentChoice, SentCalls, Strips

\* The fold over the declarations of a request.
LEMMA TakenDeclares ==
  ASSUME NEW r, WellFormed(r), NEW stripHosted, NEW native,
         NEW acc, acc = Taken(r, stripHosted, native)
  PROVE  /\ Declares(Nothing, acc, DeclaredBy(r))
         /\ (\E k \in DOMAIN DeclarationsOf(r) : ~Droppable(DeclarationsOf(r)[k])) => Offers(acc)
<1> DEFINE list == DeclarationsOf(r)
           strip == Strips(stripHosted, native)
<1>1. list \in Seq(ResponseTool)
  BY DEF WellFormed, DeclarationsOf
<1>2. DOMAIN list = 1..Len(list)
  BY <1>1
<1>3. \A k \in 1..Len(list) : NamedByKind(list[k])
  BY <1>2 DEF WellFormed
<1>4. NotBoth(strip, native)
  BY DEF NotBoth, Strips
<1>5. acc = AllAdded(Nothing, list, strip, native)
  BY DEF Taken
<1>6. DeclaredBy(r) = ToolsUpTo(list, Len(list))
  BY <1>2 DEF DeclaredBy, ToolsUpTo
<1> HIDE DEF list, strip
<1>7. QED
  BY <1>1, <1>2, <1>3, <1>4, <1>5, <1>6, ToolsDeclare DEF list

\* Every name that travels upstream stands for exactly one of the identities the client
\* declared, and each of those that has a name travels: names of name spaces, of custom
\* tools and of functions never get mixed up, however they are declared.
THEOREM NamesAreIdentities ==
  ASSUME NEW r, WellFormed(r), NEW stripHosted, NEW native,
         NEW n, n = Normalize(r, stripHosted, native), ~n.error
  PROVE  /\ \A wire \in DOMAIN n.names :
              {i \in DeclaredBy(r) : Wire(i) = wire} = {n.names[wire]}
         /\ \A i \in DeclaredBy(r) : IF Wire(i) = <<>> THEN ~i.custom ELSE KnownAs(n.names, i)
         /\ <<>> \notin DOMAIN n.names
<1> DEFINE acc == Taken(r, stripHosted, native)
<1>1. n.names = acc.names /\ ~acc.error
  BY NormalizeParts DEF Accepts
<1>2. Declares(Nothing, acc, DeclaredBy(r))
  BY TakenDeclares
<1> HIDE DEF acc
<1>3. /\ \A wire \in DOMAIN n.names :
           n.names[wire] \in DeclaredBy(r) /\ Wire(n.names[wire]) = wire /\ wire # <<>>
      /\ \A i \in DeclaredBy(r) : IF Wire(i) = <<>> THEN ~i.custom ELSE KnownAs(n.names, i)
  BY <1>1, <1>2, NothingIsAcc DEF Declares
<1>4. ASSUME NEW wire \in DOMAIN n.names
      PROVE  {i \in DeclaredBy(r) : Wire(i) = wire} = {n.names[wire]}
  <2>1. \A i \in DeclaredBy(r) : Wire(i) = wire => i = n.names[wire]
    BY <1>3 DEF KnownAs
  <2>2. QED
    BY <1>3, <2>1
<1>5. QED
  BY <1>3, <1>4

\* An earlier call goes up under the name that its identity is known by.
LEMMA CallsReturnByName ==
  ASSUME NEW r, WellFormed(r), NEW stripHosted, NEW native,
         NEW n, n = Normalize(r, stripHosted, native), ~n.error,
         NEW k \in DOMAIN n.conversation,
         NEW identity \in DeclaredBy(r),
         identity = [name |-> r.history[k].name, namespace |-> r.history[k].namespace,
                     custom |-> r.history[k].type = "custom_tool_call"]
  PROVE  Identity(n.names, n.conversation[k].name) = identity
<1> DEFINE item == r.history[k]
<1>1. k \in DOMAIN r.history /\ n.conversation[k] = QualifiedCall(item)
  <2>1. PICK acc : acc = Taken(r, stripHosted, native)
    OBVIOUS
  <2>2. n.conversation = SentCalls(r)
    BY <2>1, NormalizeParts
  <2>3. QED
    BY <2>2 DEF SentCalls
<1>2. /\ identity.name = item.name /\ identity.namespace = item.namespace
      /\ identity.custom = (item.type = "custom_tool_call")
      /\ Wire(identity) = QualifiedResponseToolName(item.name, item.namespace)
  BY DEF Wire
<1>3. \/ item.type \in {"function_call", "custom_tool_call"}
      \/ item.name = <<>> /\ item.namespace = NoNamespace
  BY <1>1 DEF WellFormed
<1>4. n.conversation[k].name = Wire(identity)
  BY <1>1, <1>2, <1>3 DEF QualifiedCall, QualifiedResponseToolName
<1>5. CASE Wire(identity) # <<>>
  <2>1. KnownAs(n.names, identity)
    BY <1>5, NamesAreIdentities
  <2>2. QED
    BY <1>4, <2>1 DEF KnownAs, Identity
<1>6. CASE Wire(identity) = <<>>
  <2>1. ~identity.custom /\ <<>> \notin DOMAIN n.names
    BY <1>6, NamesAreIdentities
  <2>2. item.name = <<>> /\ item.namespace = NoNamespace
    <3>1. item \in ResponseCall
      BY <1>1 DEF WellFormed
    <3>2. item.name \in Seq(STRING)
      BY <3>1 DEF ResponseCall
    <3>3. item.name = <<>>
      BY <1>2, <1>6, <3>2, WireOf
    <3>4. \A namespace : <<namespace>> \o <<>> # <<>>
      OBVIOUS
    <3>5. QED
      BY <1>2, <1>6, <3>3, <3>4 DEF QualifiedResponseToolName
  <2>3. Identity(n.names, n.conversation[k].name)
          = [name |-> <<>>, namespace |-> NoNamespace, custom |-> FALSE]
    BY <1>4, <1>6, <2>1 DEF Identity
  <2>4. QED
    BY <1>2, <2>1, <2>2, <2>3
<1>7. QED
  BY <1>5, <1>6

\* A tool that is demanded of the client's side is demanded of the upstream, under a name
\* that the upstream knows, and never of an upstream that was told of no tools.
LEMMA ChoiceKept ==
  ASSUME NEW r, WellFormed(r), NEW stripHosted, NEW native,
         NEW n, n = Normalize(r, stripHosted, native), ~n.error
  PROVE  /\ r.choice.kind \in {"function", "required"} =>
              n.choice.kind = r.choice.kind /\ n.tools # <<>>
         /\ n.choice.kind = "function" => n.choice.name \in DOMAIN n.names
<1> DEFINE choice == QualifiedChoice(r.choice)
<1>1. PICK acc : acc = Taken(r, stripHosted, native)
  OBVIOUS
<1>2. /\ n.names = acc.names /\ n.tools = acc.tools
      /\ Accepts(acc, r, Strips(stripHosted, native))
      /\ n.choice = SentChoice(acc, r)
  BY <1>1, NormalizeParts
<1>3. /\ Declares(Nothing, acc, DeclaredBy(r))
      /\ (\E k \in DOMAIN DeclarationsOf(r) : ~Droppable(DeclarationsOf(r)[k])) => Offers(acc)
  BY <1>1, TakenDeclares
<1>4. choice.kind = r.choice.kind
  BY DEF QualifiedChoice, Choice
<1>5. acc.stripped /\ r.choice.kind \in {"function", "required"} => acc.tools # <<>>
  BY <1>2, <1>4 DEF Accepts, BadChoice
<1>6. /\ r.choice.kind \in {"function", "required"} => n.choice = choice
      /\ n.choice.kind = "function" => n.choice = choice
  BY <1>2, <1>5 DEF SentChoice, Choice
<1>7. CASE r.choice.kind = "function"
  <2>1. PICK i \in DeclaredBy(r) : i.name = r.choice.name /\ i.namespace = r.choice.namespace
    BY <1>7 DEF WellFormed
  <2>2. r.choice.name \in Seq(STRING) /\ r.choice.name # <<>>
    BY <1>7 DEF WellFormed
  <2>3. choice.name = Wire(i)
    BY <1>7, <2>1 DEF QualifiedChoice, Choice, Wire, QualifiedResponseToolName
  <2>4. Wire(i) # <<>>
    <3>1. Wire(i) = QualifiedResponseToolName(r.choice.name, r.choice.namespace)
      BY <2>1 DEF Wire
    <3>2. QED
      BY <2>2, <3>1, WireOf
  <2>5. KnownAs(n.names, i)
    BY <2>1, <2>4, NamesAreIdentities
  <2>6. choice.name \in DOMAIN n.names
    BY <2>3, <2>5 DEF KnownAs
  <2>7. n.tools # <<>>
    BY <1>2, <1>3, <2>6 DEF Declares, IsAcc
  <2> HIDE DEF choice
  <2>8. QED
    BY <1>4, <1>6, <1>7, <2>6, <2>7
<1>8. CASE r.choice.kind = "required"
  <2>1. PICK k \in DOMAIN DeclarationsOf(r) : ~Droppable(DeclarationsOf(r)[k])
    BY <1>8 DEF WellFormed, Droppable
  <2>2. Offers(acc) /\ ~acc.error
    BY <1>2, <1>3, <2>1 DEF Accepts
  <2>3. n.tools # <<>>
    BY <1>2, <1>5, <1>8, <2>2 DEF Offers
  <2> HIDE DEF choice
  <2>4. QED
    BY <1>4, <1>6, <1>8, <2>3
<1>9. CASE r.choice.kind \notin {"function", "required"}
  <2> HIDE DEF choice
  <2>1. QED
    BY <1>4, <1>6, <1>9
<1>10. QED
  BY <1>7, <1>8, <1>9

-----------------------------------------------------------------------------
(* What went upstream stays what Normalize made of the client's request.   *)

Translated ==
  /\ setting \in Settings /\ Distinct(setting)
  /\ status \notin {"new", "rejected"} =>
       /\ sent = Normalize(setting.request, setting.strip, Native)
       /\ ~sent.error

\* Only Translate sets what goes upstream, and nothing returns to the time before.
LEMMA TranslatedInvariant == Spec => []Translated
<1>1. Init => Translated
  BY DEF Init, Translated
<1>2. Translated /\ [Next]_vars => Translated'
  <2> SUFFICES ASSUME Translated, [Next]_vars PROVE Translated'
    OBVIOUS
  <2> USE DEF Translated
  <2>1. ASSUME NEW more, NEW lines, status = "open", Says(more, lines)
        PROVE  Translated'
    BY <2>1 DEF Says, Native
  <2>2. CASE Translate
    BY <2>2 DEF Translate, Native
  <2>3. CASE Opens
    BY <2>1, <2>3 DEF Opens
  <2>4. CASE AddsText
    BY <2>1, <2>4 DEF AddsText, Ready, Talking, Adds
  <2>5. CASE AddsCall
    BY <2>1, <2>5 DEF AddsCall, Ready, Talking, Adds
  <2>6. CASE AddsOther
    BY <2>1, <2>6 DEF AddsOther, Ready, Talking, Adds
  <2>7. CASE Continues
    BY <2>1, <2>7 DEF Continues, Talking
  <2>8. CASE EndsItem
    BY <2>1, <2>8 DEF EndsItem, Talking
  <2>9. CASE Ends
    BY <2>1, <2>9 DEF Ends, Talking
  <2>10. CASE Counts
    BY <2>1, <2>10 DEF Counts
  <2>11. CASE Stops
    BY <2>1, <2>11 DEF Stops
  <2>12. CASE Fails
    BY <2>1, <2>12 DEF Fails
  <2>13. CASE Closes
    BY <2>13 DEF Closes, Native
  <2>14. CASE UNCHANGED vars
    BY <2>14 DEF vars, Native
  <2>15. QED
    BY <2>2, <2>3, <2>4, <2>5, <2>6, <2>7, <2>8, <2>9, <2>10, <2>11, <2>12, <2>13, <2>14
    DEF Next
<1>3. QED
  BY <1>1, <1>2, PTL DEF Spec

\* Whatever tools a Responses client declares, and in whatever way: an earlier call goes
\* upstream under the very name that Normalize will restore to its identity, and a tool
\* that is demanded is demanded of the upstream, which was told of it.
THEOREM NamesRoundTrip == Spec => []ToolNamesRoundTrip
<1>1. Translated => ToolNamesRoundTrip
  <2> SUFFICES ASSUME Translated, status \notin {"new", "rejected"},
                      setting.source = "openai-response"
               PROVE  ToolNamesRoundTrip
    BY DEF ToolNamesRoundTrip
  <2>1. PICK r : r = setting.request
    OBVIOUS
  <2>2. r \in Requests
    BY <2>1 DEF Translated, Settings, Distinct
  <2>3. WellFormed(r)
    BY <2>2, ConversionAssumption DEF ConversionAssumption
  <2>4. PICK stripHosted : stripHosted = setting.strip
    OBVIOUS
  <2>5. PICK native : native = Native
    OBVIOUS
  <2>6. sent = Normalize(r, stripHosted, native) /\ ~sent.error
    BY <2>1, <2>4, <2>5 DEF Translated
  <2>7. ASSUME NEW k \in DOMAIN sent.conversation,
               NEW identity \in Declared,
               identity = [name |-> r.history[k].name, namespace |-> r.history[k].namespace,
                           custom |-> r.history[k].type = "custom_tool_call"]
        PROVE  Identity(sent.names, sent.conversation[k].name) = identity
    BY <2>1, <2>3, <2>6, <2>7, CallsReturnByName DEF Declared
  <2>8. /\ r.choice.kind \in {"function", "required"} =>
             sent.choice.kind = r.choice.kind /\ sent.tools # <<>>
        /\ sent.choice.kind = "function" => sent.choice.name \in DOMAIN sent.names
    BY <2>3, <2>6, ChoiceKept
  <2>9. QED
    BY <2>1, <2>7, <2>8 DEF ToolNamesRoundTrip
<1>2. QED
  BY <1>1, TranslatedInvariant, PTL
-----------------------------------------------------------------------------
(* What the loops of a stream keep.                                        *)

IsSeq(s) == \E X : s \in Seq(X)
Bounded(D) == \E N \in Nat : D \subseteq 0..N

-----------------------------------------------------------------------------
(* What a client knows of the end of a response, its reason and its usage, *)
(* and the events that tell it.                                            *)

Is(c, w) == c.reason = w.reason /\ c.usage = w.usage
NoneYet == [reason |-> NoReason, usage |-> NoUsage]

\* A step of the upstream, by what there was to know before it and is after it.
FromTo(w, x) == [before |-> w, after |-> x]
Still(w) == FromTo(w, w)
Knows(c, v) == Is(c, v.before) \/ Is(c, v.after)

\* An event that tells nothing of it.
Mute(source, e) ==
  CASE source = "openai" ->
         e.type = "error" \/ (IsSeq(e.calls) /\ e.finish = NoReason /\ e.usage = {})
    [] source = "claude" -> e.type \notin {"message_start", "message_delta", "message_stop"}
    [] OTHER             -> e.type # "response.completed"

\* Usage of which the client makes u, whichever side of the step it is on.
Settles(v, u) ==
  MergedUsage(v.before.usage, u) = v.after.usage /\ MergedUsage(v.after.usage, u) = v.after.usage

\* An event that tells what there is to know after the step.
Truthful(source, v, e) ==
  CASE source = "openai" ->
         /\ e.type # "error" /\ IsSeq(e.calls)
         /\ IF e.finish = NoReason THEN v.before.reason = v.after.reason
            ELSE e.finish = v.after.reason
         /\ IF e.usage = {} THEN v.before.usage = v.after.usage
            ELSE e.usage = {v.after.usage}
    [] source = "claude" ->
         \/ /\ e.type = "message_start"
            /\ v.before.reason = v.after.reason /\ e.usage = {v.after.usage}
         \/ /\ e.type = "message_delta"
            /\ e.reason = v.after.reason /\ e.reason # NoReason
            /\ \E u : e.usage = {u} /\ Settles(v, u)
         \/ e.type = "message_stop" /\ v.after.reason # NoReason
    [] OTHER ->
         /\ e.type = "response.completed"
         /\ e.status = v.after.reason /\ e.status # NoReason /\ e.usage = {v.after.usage}

\* Events in a step out of V, that has one member or none.
Readable(source, V, e) == Mute(source, e) \/ \E v \in V : Truthful(source, v, e)
Events(source, V, events) ==
  \E X : events \in Seq(X) /\ \A e \in X : Readable(source, V, e)

\* The event that ends a response, and those after which the client knows all.
Final(source, e) ==
  CASE source = "openai" -> e.type # "error" /\ e.finish # NoReason
    [] source = "claude" -> e.type = "message_stop"
    [] OTHER             -> e.type = "response.completed"
Informs(source, e) ==
  CASE source = "openai" -> e.type # "error" /\ (e.finish # NoReason \/ e.usage # {})
    [] source = "claude" -> e.type \in {"message_start", "message_delta"}
    [] OTHER             -> e.type = "response.completed"

IsClient(c) == {"ended", "reason", "usage"} \subseteq DOMAIN c

\* The client knows what it knew.
Unmoved(c, d) == IsClient(d) /\ (d.ended <=> c.ended) /\ Is(d, c)

\* It may have come to know what there is to know; it is told the end only
\* when there is a reason, and keeps it.
Follows(v, c, d) ==
  /\ IsClient(d) /\ Knows(d, v)
  /\ Is(c, v.after) => Is(d, v.after)
  /\ c.ended => d.ended
  /\ d.ended => c.ended \/ v.after.reason # NoReason

-----------------------------------------------------------------------------
(* The converters, and what their loops keep.                              *)

IsAssembler(oa) ==
  DOMAIN oa = {"names", "items", "textSlot", "text"} /\ IsSeq(oa.items)

\* The converters by their fields.
IsChat(sc) ==
  /\ DOMAIN sc = {"source", "names", "done", "started", "textOpen", "textIndex", "nextIndex",
                  "msgIndex", "tools", "toolOrder", "usage", "finished", "heldFinish",
                  "terminalSent", "flushed", "respText"}
  /\ IsSeq(sc.toolOrder) /\ (sc.toolOrder = <<>> => DOMAIN sc.tools = {})
IsMessages(sc) ==
  /\ DOMAIN sc = {"source", "names", "blocks", "toolOrdinal", "promptTokens",
                  "completionTokens", "cacheRead", "cacheCreation", "stopReason",
                  "toolsSeen", "roleSent", "msgIdx", "outCount", "emitted", "flushed"}
  /\ Bounded(DOMAIN sc.blocks) /\ sc.toolsSeen \in BOOLEAN
IsResponses(sc) ==
  /\ DOMAIN sc = {"source", "names", "customItems", "toolCallsSeen", "textIndex", "textOpen",
                  "nextIndex", "openBlocks", "calls", "delivered"}
  /\ IsSeq(sc.openBlocks)
IsConverter(upstream, sc) ==
  CASE upstream = "chat"     -> IsChat(sc)
    [] upstream = "messages" -> IsMessages(sc)
    [] OTHER                 -> IsResponses(sc)

\* What decides on the end is as it was, ...
SameEnd(sc, d) ==
  /\ IsChat(d)
  /\ d.source = sc.source /\ d.done = sc.done /\ d.flushed = sc.flushed
  /\ d.finished = sc.finished /\ d.heldFinish = sc.heldFinish
  /\ d.terminalSent = sc.terminalSent /\ d.usage = sc.usage
  /\ sc.started => d.started
SameTools(sc, d) == d.toolOrder = <<>> <=> sc.toolOrder = <<>>
Tells(sc, out) == SameEnd(sc, out.sc) /\ Events(sc.source, {}, out.events)

SameCounts(sc, d) ==
  /\ IsMessages(d)
  /\ d.source = sc.source /\ d.flushed = sc.flushed /\ (sc.emitted => d.emitted)
  /\ d.promptTokens = sc.promptTokens /\ d.completionTokens = sc.completionTokens
  /\ d.cacheRead = sc.cacheRead /\ d.cacheCreation = sc.cacheCreation
  /\ d.stopReason = sc.stopReason
SameStream(sc, d) == SameCounts(sc, d) /\ d.toolsSeen = sc.toolsSeen
SameSource(sc, d) ==
  IsResponses(d) /\ d.source = sc.source /\ d.toolCallsSeen = sc.toolCallsSeen

\* The converter has seen a call; a line that has one.
Seen(upstream, sc) ==
  CASE upstream = "chat"     -> sc.toolOrder # <<>>
    [] upstream = "messages" -> sc.toolsSeen = TRUE
    [] OTHER                 -> sc.toolCallsSeen = TRUE
Carries(upstream, line) ==
  CASE upstream = "chat"     -> line.calls # <<>>
    [] upstream = "messages" -> line.type = "content_block_start" /\ line.kind = "tool_use"
    [] OTHER ->
         \/ line.type = "response.function_call_arguments.delta"
         \/ /\ line.type \in {"response.output_item.added", "response.output_item.done"}
            /\ line.item.type = "function_call"

\* ... or at least what an upstream that goes on talking leaves of it.
SameHold(sc, d) ==
  /\ d.done = sc.done /\ d.flushed = sc.flushed
  /\ d.finished = sc.finished /\ d.heldFinish = sc.heldFinish /\ d.usage = sc.usage
  /\ sc.started => d.started
  /\ sc.source = "claude" => (d.terminalSent <=> sc.terminalSent)
Kept(upstream, c, d) ==
  /\ IsConverter(upstream, d) /\ d.source = c.source
  /\ CASE upstream = "chat"     -> SameHold(c, d)
       [] upstream = "messages" -> SameCounts(c, d)
       [] OTHER                 -> TRUE
  /\ Seen(upstream, c) => Seen(upstream, d)
Talks(upstream, c, lines, out) ==
  /\ DOMAIN out = {"sc", "events", "done", "failed"}
  /\ Kept(upstream, c, out.sc)
  /\ Seen(upstream, out.sc) =>
       Seen(upstream, c) \/ \E i \in DOMAIN lines : Carries(upstream, lines[i])
  /\ \A v : Events(c.source, {v}, out.events)

\* What each loop keeps, of what it began with.
Good(loop, acc, p) ==
  CASE loop = "entries"            -> Unmoved(p, acc)
    [] loop = "stops"              -> Events("claude", {}, acc)
    [] loop = "items"              -> Events("openai-response", {}, acc)
    [] loop \in {"calls", "blocks"} -> IsAssembler(acc)
    [] loop = "lines"              -> Talks(p.upstream, p.conv, p.lines, acc)
    [] OTHER                       -> TRUE

Keeps(loop, x, p) == \A acc : Good(loop, acc, p) => Good(loop, Round(loop, acc, x, p), p)

\* A loop keeps what each round of it keeps, over a list as over numbered blocks.
LEMMA FoldKeeps ==
  ASSUME NEW list, Bounded(DOMAIN list), NEW loop, NEW base, NEW p, Good(loop, base, p),
         \A i \in DOMAIN list : Keeps(loop, list[i], p)
  PROVE  Good(loop, Folded(loop, base, list, p), p)
<1>1. PICK N \in Nat : DOMAIN list \in SUBSET (0..N)
  BY DEF Bounded
<1>2. PICK D \in SUBSET (0..N) : D = DOMAIN list
  BY <1>1
<1>3. PICK f : Fold(f, D, loop, base, list, p) /\ Folded(loop, base, list, p) = f[D]
  <2>1. \E f : Fold(f, D, loop, base, list, p)
    BY FoldExists
  <2>2. QED
    BY <1>2, <2>1 DEF Folded
<1> DEFINE T == {n \in 0..N + 1 : \A s \in SUBSET D :
                   s \subseteq 0..n - 1 => Good(loop, f[s], p)}
<1>4. f[{}] = base
  BY <1>3 DEF Fold
<1>5. 0 \in T
  <2>1. \A s \in SUBSET D : s \subseteq 0..0 - 1 => s = {}
    OBVIOUS
  <2>2. 0 \in 0..N + 1 /\ Good(loop, f[{}], p)
    BY <1>4
  <2>3. \A s \in SUBSET D : s \subseteq 0..0 - 1 => Good(loop, f[s], p)
    BY <2>1, <2>2, Zenon
  <2>4. QED
    BY <2>2, <2>3
<1>6. ASSUME NEW n \in 0..N + 1, n \in T, n < N + 1
      PROVE  n + 1 \in T
  <2>1. n \in Nat /\ n + 1 \in 0..N + 1 /\ (n + 1) - 1 = n
    BY <1>6
  <2>2. ASSUME NEW s \in SUBSET D, s \subseteq 0..n
        PROVE  Good(loop, f[s], p)
    <3>1. CASE n \in s
      <4>1. Max(s) = n /\ s # {} /\ n \in D
        BY <2>1, <2>2, <3>1, MaxOfInitial
      <4>2. f[s] = Round(loop, f[s \ {n}], list[n], p)
        BY <1>3, <4>1 DEF Fold
      <4>3. s \ {n} \in SUBSET D /\ s \ {n} \subseteq 0..n - 1
        BY <2>1, <2>2
      <4>4. Good(loop, f[s \ {n}], p)
        BY <1>6, <4>3
      <4>5. Keeps(loop, list[n], p)
        BY <1>2, <4>1
      <4>6. QED
        BY <4>2, <4>4, <4>5 DEF Keeps
    <3>2. CASE n \notin s
      <4>1. s \subseteq 0..n - 1
        BY <2>1, <2>2, <3>2
      <4>2. QED
        BY <1>6, <4>1
    <3>3. QED
      BY <3>1, <3>2
  <2>3. QED
    BY <2>1, <2>2
<1> HIDE DEF T
<1>7. N + 1 \in T
  <2>1. PICK M \in Nat : M = N + 1
    OBVIOUS
  <2>2. \A n \in 0..M : n \in T /\ n < M => n + 1 \in T
    BY <1>6, <2>1
  <2>3. QED
    BY <1>5, <2>1, <2>2, IntervalInduction
<1>8. D \subseteq 0..(N + 1) - 1
  OBVIOUS
<1>9. Good(loop, f[D], p)
  BY <1>7, <1>8 DEF T
<1>10. QED
  BY <1>3, <1>9

LEMMA ListBounded ==
  ASSUME NEW list, IsSeq(list)
  PROVE  Bounded(DOMAIN list)
<1>1. PICK N \in Nat : DOMAIN list = 1..N
  BY DEF IsSeq
<1>2. 1..N \subseteq 0..N
  OBVIOUS
<1>3. QED
  BY <1>1, <1>2 DEF Bounded

LEMMA NoEvents ==
  ASSUME NEW source, NEW V PROVE Events(source, V, <<>>)
<1>1. PICK X : X = {}
  OBVIOUS
<1>2. <<>> \in Seq(X) /\ \A e \in X : Readable(source, V, e)
  BY <1>1
<1>3. QED
  BY <1>2 DEF Events

LEMMA OneEvent ==
  ASSUME NEW source, NEW V, NEW e, Readable(source, V, e) PROVE Events(source, V, <<e>>)
<1>1. PICK X : X = {e}
  OBVIOUS
<1>2. <<e>> \in Seq(X) /\ \A d \in X : Readable(source, V, d)
  BY <1>1
<1>3. QED
  BY <1>2 DEF Events

LEMMA MoreEvents ==
  ASSUME NEW source, NEW V, NEW s, NEW t, Events(source, V, s), Events(source, V, t)
  PROVE  Events(source, V, s \o t)
<1>1. PICK X : s \in Seq(X) /\ \A e \in X : Readable(source, V, e)
  BY DEF Events
<1>2. PICK Y : t \in Seq(Y) /\ \A e \in Y : Readable(source, V, e)
  BY DEF Events
<1>3. s \o t \in Seq(X \cup Y) /\ \A e \in X \cup Y : Readable(source, V, e)
  BY <1>1, <1>2
<1>4. QED
  BY <1>3 DEF Events

LEMMA OneMore ==
  ASSUME NEW source, NEW V, NEW s, NEW e, Events(source, V, s), Readable(source, V, e)
  PROVE  Events(source, V, Append(s, e))
<1>1. PICK X : s \in Seq(X) /\ \A d \in X : Readable(source, V, d)
  BY DEF Events
<1>2. Append(s, e) \in Seq(X \cup {e}) /\ \A d \in X \cup {e} : Readable(source, V, d)
  BY <1>1
<1>3. QED
  BY <1>2 DEF Events

\* Events that tell nothing belong into any step.
LEMMA MuteEvents ==
  ASSUME NEW source, NEW s, Events(source, {}, s), NEW V PROVE Events(source, V, s)
<1>1. PICK X : s \in Seq(X) /\ \A e \in X : Readable(source, {}, e)
  BY DEF Events
<1>2. \A e \in X : Readable(source, V, e)
  BY <1>1 DEF Readable
<1>3. QED
  BY <1>1, <1>2 DEF Events

LEMMA EventsIsSeq ==
  ASSUME NEW source, NEW V, NEW s, Events(source, V, s) PROVE IsSeq(s)
BY DEF Events, IsSeq

LEMMA WiderEvents ==
  ASSUME NEW source, NEW V, NEW v \in V, NEW s, Events(source, {v}, s)
  PROVE  Events(source, V, s)
<1>1. PICK X : s \in Seq(X) /\ \A e \in X : Readable(source, {v}, e)
  BY DEF Events
<1>2. \A e \in X : Readable(source, V, e)
  BY <1>1 DEF Readable
<1>3. QED
  BY <1>1, <1>2 DEF Events

-----------------------------------------------------------------------------
(* Sequences.                                                              *)

LEMMA EmptyIsSeq == IsSeq(<<>>)
<1>1. <<>> \in Seq({})
  OBVIOUS
<1>2. QED
  BY <1>1 DEF IsSeq

LEMMA SingleIsSeq ==
  ASSUME NEW e PROVE IsSeq(<<e>>)
<1>1. PICK X : X = {e}
  OBVIOUS
<1>2. <<e>> \in Seq(X)
  BY <1>1
<1>3. QED
  BY <1>2 DEF IsSeq

LEMMA JoinedIsSeq ==
  ASSUME NEW s, NEW t, IsSeq(s), IsSeq(t) PROVE IsSeq(s \o t)
<1>1. PICK X, Y : s \in Seq(X) /\ t \in Seq(Y)
  BY DEF IsSeq
<1>2. s \o t \in Seq(X \cup Y)
  BY <1>1
<1>3. QED
  BY <1>2 DEF IsSeq

LEMMA AppendedIsSeq ==
  ASSUME NEW s, NEW e, IsSeq(s) PROVE IsSeq(Append(s, e))
<1>1. PICK X : s \in Seq(X)
  BY DEF IsSeq
<1>2. Append(s, e) \in Seq(X \cup {e})
  BY <1>1
<1>3. QED
  BY <1>2 DEF IsSeq

LEMMA AppendedNotEmpty ==
  ASSUME NEW s, NEW e, IsSeq(s) PROVE Append(s, e) # <<>>
<1>1. PICK X : s \in Seq(X)
  BY DEF IsSeq
<1>2. Len(Append(s, e)) = Len(s) + 1 /\ Len(s) \in Nat
  BY <1>1
<1>3. QED
  BY <1>2

\* A loop over a list of none or of one.
LEMMA FoldOfNone ==
  ASSUME NEW loop, NEW base, NEW p PROVE Folded(loop, base, <<>>, p) = base
<1>1. PICK X, list : X = {} /\ list = <<>>
  OBVIOUS
<1>2. list \in Seq(X) /\ Len(list) = 0
  BY <1>1
<1>3. PICK g : Rounds(g, loop, base, list, p) /\ Folded(loop, base, list, p) = g[Len(list)]
  BY <1>2, FoldRounds
<1>4. QED
  BY <1>1, <1>2, <1>3 DEF Rounds

LEMMA FoldOfOne ==
  ASSUME NEW loop, NEW base, NEW x, NEW p
  PROVE  Folded(loop, base, <<x>>, p) = Round(loop, base, x, p)
<1>1. PICK X, list : X = {x} /\ list = <<x>>
  OBVIOUS
<1>2. list \in Seq(X) /\ Len(list) = 1 /\ list[1] = x
  BY <1>1
<1>3. PICK g : Rounds(g, loop, base, list, p) /\ Folded(loop, base, list, p) = g[1]
  BY <1>2, FoldRounds
<1>4. 1 \in 1..1 /\ 1 - 1 = 0
  OBVIOUS
<1>5. g[0] = base /\ g[1] = Round(loop, g[0], list[1], p)
  BY <1>2, <1>3, <1>4 DEF Rounds
<1>6. QED
  BY <1>1, <1>2, <1>3, <1>5

-----------------------------------------------------------------------------
(* What a client makes of events.                                          *)

LEMMA RequireUnmoved ==
  ASSUME NEW c, IsClient(c), NEW ok, NEW rule
  PROVE  Unmoved(c, Require(c, ok, rule)) /\ IsClient(Require(c, ok, rule))
BY DEF Require, IsClient, Unmoved, Is

LEMMA UnmovedTransitive ==
  ASSUME NEW a, NEW b, NEW c, Unmoved(a, b), Unmoved(b, c) PROVE Unmoved(a, c)
BY DEF Unmoved, Is

LEMMA RequiredTwice ==
  ASSUME NEW c, IsClient(c), NEW ok, NEW rule, NEW well, NEW other, NEW d,
         d = Require(Require(c, ok, rule), well, other)
  PROVE  Unmoved(c, d) /\ IsClient(d)
<1>1. PICK b : b = Require(c, ok, rule)
  OBVIOUS
<1>2. Unmoved(c, b) /\ IsClient(b)
  BY <1>1, RequireUnmoved
<1>3. Unmoved(b, d) /\ IsClient(d)
  BY <1>1, <1>2, RequireUnmoved
<1>4. QED
  BY <1>2, <1>3, UnmovedTransitive

LEMMA EntryUnmoved ==
  ASSUME NEW c, IsClient(c), NEW entry
  PROVE  Unmoved(c, ReceiveEntry(c, entry))
<1> DEFINE ok == entry.index = Len(c.calls)
           b  == Require(c, ok, "index")
<1>1. Unmoved(c, b)
  BY RequireUnmoved
<1> HIDE DEF b
<1>2. Unmoved(c, AddCall(b, entry.id, entry.name, NoNamespace, FALSE, entry.args))
  BY <1>1 DEF AddCall, Unmoved, IsClient, Is
<1>3. Unmoved(c, ExtendCall(c, entry.index + 1, entry.args))
  BY DEF ExtendCall, Unmoved, IsClient, Is
<1>4. Unmoved(c, Require(c, FALSE, "unknown call"))
  BY RequireUnmoved
<1>5. QED
  BY <1>2, <1>3, <1>4 DEF ReceiveEntry, b

EntriesRead(c, calls) == FoldLeft(ReceiveEntry, c, calls)

LEMMA EntriesUnmoved ==
  ASSUME NEW calls, IsSeq(calls), NEW c, IsClient(c)
  PROVE  Unmoved(c, EntriesRead(c, calls))
<1>1. EntriesRead(c, calls) = Folded("entries", c, calls, c)
  BY DEF EntriesRead, FoldLeft, MapThenFoldSet, Folded, Fold, Round
<1>2. Bounded(DOMAIN calls)
  BY ListBounded
<1>3. Good("entries", c, c)
  BY DEF Good, Unmoved, Is
<1>4. ASSUME NEW i \in DOMAIN calls
      PROVE  Keeps("entries", calls[i], c)
  <2>1. ASSUME NEW acc, Unmoved(c, acc)
        PROVE  Unmoved(c, ReceiveEntry(acc, calls[i]))
    <3>1. Unmoved(acc, ReceiveEntry(acc, calls[i]))
      BY <2>1, EntryUnmoved DEF Unmoved
    <3>2. QED
      BY <2>1, <3>1, UnmovedTransitive
  <2>2. QED
    BY <2>1 DEF Keeps, Good, Round
<1>5. Good("entries", EntriesRead(c, calls), c)
  BY <1>1, <1>2, <1>3, <1>4, FoldKeeps
<1>6. QED
  BY <1>5 DEF Good

\* A chunk of a Chat Completions client, mute or not.
LEMMA ChunkReceived ==
  ASSUME NEW c, IsClient(c), NEW e, IsSeq(e.calls), NEW d, d = ReceiveChunk(c, e)
  PROVE  /\ IsClient(d)
         /\ d.reason = IF e.finish = NoReason THEN c.reason ELSE e.finish
         /\ d.ended <=> c.ended \/ e.finish # NoReason
         /\ d.usage = IF e.usage = {} THEN c.usage ELSE CHOOSE u \in e.usage : TRUE
<1> DEFINE speaks  == e.content # <<>> \/ e.calls # <<>> \/ e.finish # NoReason
           a == Require(c, c.started # e.role \/ ~e.choices, "role")
           b == Require(a, speaks => c.reason = NoReason, "after the end")
           started == [b EXCEPT !.started = @ \/ e.role, !.text = @ \o e.content]
           called  == EntriesRead(started, e.calls)
<1>1. Unmoved(c, a) /\ IsClient(a)
  BY RequireUnmoved
<1> HIDE DEF a
<1>2. Unmoved(a, b) /\ IsClient(b)
  BY <1>1, RequireUnmoved
<1> HIDE DEF b
<1>3. Unmoved(b, started) /\ IsClient(started)
  BY <1>2 DEF Unmoved, IsClient, Is
<1> HIDE DEF started
<1>4. Unmoved(started, called)
  BY <1>3, EntriesUnmoved
<1> HIDE DEF called
<1>5. Unmoved(c, called)
  BY <1>1, <1>2, <1>3, <1>4, UnmovedTransitive
<1>6. d = [called EXCEPT !.reason = IF e.finish = NoReason THEN @ ELSE e.finish,
                         !.ended = @ \/ e.finish # NoReason,
                         !.usage = IF e.usage = {} THEN @ ELSE CHOOSE u \in e.usage : TRUE]
  BY DEF ReceiveChunk, EntriesRead, called, started, b, a
<1>7. IsClient(called) /\ (called.ended <=> c.ended) /\ called.reason = c.reason /\ called.usage = c.usage
  BY <1>5 DEF Unmoved, Is
<1>8. /\ IsClient(d)
      /\ d.reason = IF e.finish = NoReason THEN called.reason ELSE e.finish
      /\ d.ended = (called.ended \/ e.finish # NoReason)
      /\ d.usage = IF e.usage = {} THEN called.usage ELSE CHOOSE u \in e.usage : TRUE
  BY <1>6, <1>7 DEF IsClient
<1>9. QED
  BY <1>7, <1>8

LEMMA MuteClaude ==
  ASSUME NEW c, IsClient(c), NEW e, Mute("claude", e), NEW d, d = ReceiveClaude(c, e)
  PROVE  Unmoved(c, d)
<1> DEFINE started == Require(c, c.started # (e.type = "message_start"), "start")
           begun   == Require(started, ~c.ended, "after the end")
<1>1. Unmoved(c, begun) /\ IsClient(begun)
  BY RequiredTwice
<1> HIDE DEF begun
<1>2. CASE e.type = "content_block_start"
  <2>1. d = ReceiveStart(begun, e)
    BY <1>2 DEF ReceiveClaude, begun
  <2>2. QED
    BY <1>1, <2>1 DEF ReceiveStart, AddBlock, AddCall, Require, Unmoved, IsClient, Is
<1>3. CASE e.type = "content_block_delta"
  <2>1. d = ReceiveDelta(begun, e)
    BY <1>3 DEF ReceiveClaude, begun
  <2>2. QED
    BY <1>1, <2>1 DEF ReceiveDelta, ExtendCall, Require, Unmoved, IsClient, Is
<1>4. CASE e.type = "content_block_stop"
  <2>1. d = [Require(begun, e.index \in c.open, "stop") EXCEPT !.open = @ \ {e.index}]
    BY <1>4 DEF ReceiveClaude, begun
  <2>2. QED
    BY <1>1, <2>1 DEF Require, Unmoved, IsClient, Is
<1>5. CASE e.type \notin {"content_block_start", "content_block_delta", "content_block_stop"}
  <2>1. d = Require(begun, FALSE, "unknown event")
    BY <1>5 DEF ReceiveClaude, begun, Mute
  <2>2. QED
    BY <1>1, <2>1, RequireUnmoved, UnmovedTransitive
<1>6. QED
  BY <1>2, <1>3, <1>4, <1>5

LEMMA MuteResponses ==
  ASSUME NEW c, IsClient(c), NEW e, e.type # "response.completed", NEW d, d = ReceiveResponses(c, e)
  PROVE  Unmoved(c, d)
<1> DEFINE started == Require(c, c.started # (e.type = "response.created"), "start")
           begun   == Require(started, ~c.ended, "after the end")
<1>1. Unmoved(c, begun) /\ IsClient(begun)
  BY RequiredTwice
<1> HIDE DEF begun
<1>2. Unmoved(begun, ReceiveItem(begun, e))
  BY <1>1 DEF ReceiveItem, AddBlock, AddCall, Require, Unmoved, IsClient, Is
<1>3. Unmoved(begun, ReceiveText(begun, e))
  BY <1>1 DEF ReceiveText, Require, Unmoved, IsClient, Is
<1>4. ASSUME NEW kind PROVE Unmoved(begun, ReceivePiece(begun, e, kind))
  BY <1>1 DEF ReceivePiece, ExtendCall, Require, Unmoved, IsClient, Is
<1>5. ASSUME NEW b, Unmoved(begun, b), NEW content
      PROVE  Unmoved(begun, FinishedWith(b, e.index, content))
  BY <1>1, <1>5 DEF FinishedWith, Require, Unmoved, IsClient, Is
<1>6. Unmoved(begun, ReceiveItemDone(begun, e))
  <2> DEFINE b == Require(begun, e.index \in begun.open, "done twice")
             f == FinishedWith(b, e.index, e.item.content)
  <2>1. Unmoved(begun, b)
    BY <1>1, RequireUnmoved
  <2> HIDE DEF b
  <2>2. Unmoved(begun, f)
    BY <1>5, <2>1
  <2> HIDE DEF f
  <2>3. Unmoved(begun, [f EXCEPT !.open = @ \ {e.index}])
    BY <2>2 DEF Unmoved, IsClient, Is
  <2>4. Unmoved(begun, Require(begun, FALSE, "another item"))
    BY <1>1, RequireUnmoved
  <2>5. QED
    BY <2>3, <2>4 DEF ReceiveItemDone, f, b
<1>7. /\ Unmoved(begun, Require(begun, FALSE, "unknown item"))
      /\ Unmoved(begun, Require(begun, FALSE, "unknown event"))
      /\ Unmoved(begun, [begun EXCEPT !.started = TRUE])
      /\ Unmoved(begun, begun)
  BY <1>1, RequireUnmoved DEF Unmoved, IsClient, Is
<1>8. Unmoved(begun, FinishedWith(begun, e.index, e.content))
  BY <1>5, <1>7
<1>9. Unmoved(begun, d)
  BY <1>2, <1>3, <1>4, <1>6, <1>7, <1>8 DEF ReceiveResponses, begun
<1>10. QED
  BY <1>1, <1>9, UnmovedTransitive

LEMMA MuteReceived ==
  ASSUME NEW source, NEW c, IsClient(c), NEW e, Mute(source, e), NEW d, d = Receive(source, c, e)
  PROVE  Unmoved(c, d)
<1>1. CASE source = "openai"
  <2>1. CASE e.type = "error"
    BY <1>1, <2>1 DEF Receive, ReceiveChat, Unmoved, Is
  <2>2. CASE e.type # "error"
    <3>1. d = ReceiveChunk(c, e) /\ IsSeq(e.calls) /\ e.finish = NoReason /\ e.usage = {}
      BY <1>1, <2>2 DEF Receive, ReceiveChat, Mute
    <3>2. QED
      BY <3>1, ChunkReceived DEF Unmoved, Is
  <2>3. QED
    BY <2>1, <2>2
<1>2. CASE source = "claude"
  BY <1>2, MuteClaude DEF Receive
<1>3. CASE source \notin {"openai", "claude"}
  BY <1>3, MuteResponses DEF Receive, Mute
<1>4. QED
  BY <1>1, <1>2, <1>3

LEMMA OnlyMember == ASSUME NEW x PROVE (CHOOSE u \in {x} : TRUE) = x
OBVIOUS

\* An event that tells the truth makes the client know it; the last event of a Messages
\* response has nothing more to tell.
LEMMA TruthReceived ==
  ASSUME NEW source, NEW v, NEW c, IsClient(c), Knows(c, v), NEW e, Truthful(source, v, e),
         NEW d, d = Receive(source, c, e)
  PROVE  /\ Follows(v, c, d)
         /\ Final(source, e) => d.ended
         /\ Informs(source, e) => Is(d, v.after)
<1>1. CASE source = "openai"
  <2>1. d = ReceiveChunk(c, e) /\ IsSeq(e.calls) /\ e.type # "error"
    BY <1>1 DEF Receive, ReceiveChat, Truthful
  <2>2. /\ IsClient(d)
        /\ d.reason = IF e.finish = NoReason THEN c.reason ELSE e.finish
        /\ d.ended <=> c.ended \/ e.finish # NoReason
        /\ d.usage = IF e.usage = {} THEN c.usage ELSE CHOOSE u \in e.usage : TRUE
    BY <2>1, ChunkReceived
  <2>3. d.reason = v.after.reason
    BY <1>1, <2>2 DEF Truthful, Knows, Is
  <2>4. d.usage = v.after.usage
    BY <1>1, <2>2, OnlyMember DEF Truthful, Knows, Is
  <2>5. e.finish # NoReason => v.after.reason # NoReason
    BY <1>1 DEF Truthful
  <2>6. QED
    BY <1>1, <2>2, <2>3, <2>4, <2>5 DEF Follows, Knows, Is, Final
<1>2. CASE source = "claude"
  <2>1. d = ReceiveClaude(c, e)
    BY <1>2 DEF Receive
  <2> DEFINE started == Require(c, c.started # (e.type = "message_start"), "start")
             begun   == Require(started, ~c.ended, "after the end")
             usage   == CHOOSE u \in e.usage : TRUE
  <2>2. Unmoved(c, begun) /\ IsClient(begun)
    BY RequiredTwice
  <2> HIDE DEF begun
  <2>3. CASE e.type = "message_start"
    <3>1. d = [begun EXCEPT !.started = TRUE, !.usage = usage]
      BY <2>1, <2>3 DEF ReceiveClaude, begun
    <3>2. v.before.reason = v.after.reason /\ usage = v.after.usage
      BY <1>2, <2>3, OnlyMember DEF Truthful
    <3> HIDE DEF usage
    <3>3. IsClient(d) /\ d.reason = c.reason /\ d.usage = usage /\ (d.ended <=> c.ended)
      BY <2>2, <3>1 DEF Unmoved, IsClient, Is
    <3>4. QED
      BY <1>2, <2>3, <3>2, <3>3 DEF Follows, Knows, Is, Final
  <2>4. CASE e.type = "message_delta"
    <3> DEFINE r == Require(begun, c.open = {} /\ c.reason = NoReason, "finish")
    <3>1. d = [r EXCEPT !.reason = e.reason, !.usage = MergedUsage(@, usage)]
      BY <2>1, <2>4 DEF ReceiveClaude, begun
    <3>2. PICK u : e.usage = {u} /\ Settles(v, u)
      BY <1>2, <2>4 DEF Truthful
    <3>3. usage = u /\ e.reason = v.after.reason /\ e.reason # NoReason
      BY <1>2, <2>4, <3>2, OnlyMember DEF Truthful
    <3> HIDE DEF usage
    <3>4. Unmoved(c, r) /\ IsClient(r)
      BY <2>2, RequireUnmoved, UnmovedTransitive
    <3> HIDE DEF r
    <3>5. /\ IsClient(d) /\ d.reason = e.reason /\ (d.ended <=> c.ended)
          /\ d.usage = MergedUsage(c.usage, u)
      BY <3>1, <3>3, <3>4 DEF Unmoved, IsClient, Is
    <3>6. d.usage = v.after.usage
      BY <3>2, <3>5 DEF Settles, Knows, Is
    <3>7. QED
      BY <1>2, <2>4, <3>3, <3>5, <3>6 DEF Follows, Knows, Is, Final
  <2>5. CASE e.type = "message_stop"
    <3> DEFINE r == Require(begun, c.reason # NoReason, "stop before finish")
    <3>1. d = [r EXCEPT !.ended = TRUE]
      BY <2>1, <2>5 DEF ReceiveClaude, begun
    <3>2. Unmoved(c, r) /\ IsClient(r)
      BY <2>2, RequireUnmoved, UnmovedTransitive
    <3> HIDE DEF r
    <3>3. IsClient(d) /\ d.ended /\ Is(d, c) /\ v.after.reason # NoReason
      BY <1>2, <2>5, <3>1, <3>2 DEF Unmoved, IsClient, Is, Truthful
    <3>4. QED
      BY <1>2, <2>5, <3>3 DEF Follows, Knows, Is, Informs
  <2>6. QED
    BY <1>2, <2>3, <2>4, <2>5 DEF Truthful
<1>3. CASE source \notin {"openai", "claude"}
  <2>1. d = ReceiveResponses(c, e) /\ e.type = "response.completed"
    BY <1>3 DEF Receive, Truthful
  <2> DEFINE started == Require(c, c.started # (e.type = "response.created"), "start")
             begun   == Require(started, ~c.ended, "after the end")
  <2>2. d = ReceiveCompleted(begun, e)
    BY <2>1 DEF ReceiveResponses
  <2>3. IsClient(begun)
    BY RequireUnmoved
  <2> HIDE DEF begun
  <2>4. /\ IsClient(d) /\ d.ended /\ d.reason = e.status
        /\ d.usage = CHOOSE u \in e.usage : TRUE
    BY <2>2, <2>3 DEF ReceiveCompleted, Require, IsClient
  <2>5. Is(d, v.after) /\ v.after.reason # NoReason
    BY <1>3, <2>4, OnlyMember DEF Truthful, Is
  <2>6. QED
    BY <2>4, <2>5 DEF Follows, Knows
<1>4. QED
  BY <1>1, <1>2, <1>3

\* A final event ends the response, no event takes the end back, and what the client comes
\* to know is true.
LEMMA ReceiveFollows ==
  ASSUME NEW source, NEW v, NEW c, IsClient(c), Knows(c, v), NEW e, Readable(source, {v}, e),
         NEW d, d = Receive(source, c, e)
  PROVE  /\ Follows(v, c, d)
         /\ Final(source, e) => d.ended
         /\ Informs(source, e) => Is(d, v.after)
<1>1. CASE Truthful(source, v, e)
  BY <1>1, TruthReceived
<1>2. CASE Mute(source, e)
  <2>1. Unmoved(c, d)
    BY <1>2, MuteReceived
  <2>2. ~Final(source, e) /\ ~Informs(source, e)
    BY <1>2 DEF Mute, Final, Informs
  <2>3. QED
    BY <2>1, <2>2 DEF Unmoved, Follows, Knows, Is
<1>3. QED
  BY <1>1, <1>2 DEF Readable

-----------------------------------------------------------------------------
(* The converter of a Chat Completions stream, to Messages.                *)

LEMMA SameEndTransitive ==
  ASSUME NEW a, NEW b, NEW c, SameEnd(a, b), SameEnd(b, c) PROVE SameEnd(a, c)
BY DEF SameEnd

LEMMA BlockEventsMute ==
  ASSUME NEW index, NEW kind, NEW id, NEW name, NEW delta, NEW piece
  PROVE  /\ Readable("claude", {}, ContentBlockStart(index, kind, id, name))
         /\ Readable("claude", {}, ContentBlockDelta(index, delta, piece))
         /\ Readable("claude", {}, ContentBlockStop(index))
BY DEF Readable, Mute, ContentBlockStart, ContentBlockDelta, ContentBlockStop

Stopped(sc, text) == FoldLeft(LAMBDA events, i : Stop(events, i, sc), text, sc.toolOrder)

LEMMA StoppedEvents ==
  ASSUME NEW sc
  PROVE  Chat!StopBlocks(sc).events
           = Stopped(sc, IF sc.textOpen THEN <<ContentBlockStop(sc.textIndex)>> ELSE <<>>)
BY DEF Chat!StopBlocks, Chat!FoldLeft, Chat!MapThenFoldSet, Chat!Max, FoldLeft,
       MapThenFoldSet, Max, Stopped, Stop, ContentBlockStop, Chat!ContentBlockStop

LEMMA StopBlocksTells ==
  ASSUME NEW sc, IsChat(sc), sc.source = "claude", NEW out, out = Chat!StopBlocks(sc)
  PROVE  Tells(sc, out) /\ SameTools(sc, out.sc)
<1> DEFINE text == IF sc.textOpen THEN <<ContentBlockStop(sc.textIndex)>> ELSE <<>>
<1>1. SameEnd(sc, out.sc) /\ SameTools(sc, out.sc)
  BY DEF Chat!StopBlocks, SameEnd, SameTools, IsChat
<1>2. out.events = Folded("stops", text, sc.toolOrder, sc)
  <2>1. out.events = Stopped(sc, text)
    BY StoppedEvents
  <2> HIDE DEF text
  <2>2. QED
    BY <2>1 DEF Stopped, FoldLeft, MapThenFoldSet, Folded, Fold, Round
<1>3. Good("stops", text, sc)
  BY NoEvents, OneEvent, BlockEventsMute DEF Good
<1> HIDE DEF text
<1>4. Bounded(DOMAIN sc.toolOrder)
  BY ListBounded DEF IsChat
<1>5. ASSUME NEW i \in DOMAIN sc.toolOrder
      PROVE  Keeps("stops", sc.toolOrder[i], sc)
  <2>1. ASSUME NEW acc, Events("claude", {}, acc), NEW tool
        PROVE  Events("claude", {}, Stop(acc, tool, sc))
    BY <2>1, OneMore, BlockEventsMute DEF Stop
  <2>2. QED
    BY <2>1 DEF Keeps, Good, Round
<1>6. Good("stops", out.events, sc)
  BY <1>2, <1>3, <1>4, <1>5, FoldKeeps
<1>7. QED
  BY <1>1, <1>6 DEF Good, Tells

LEMMA ClaudeTextTells ==
  ASSUME NEW sc, IsChat(sc), sc.source = "claude",
         NEW text, NEW out, out = Chat!ClaudeText(sc, text)
  PROVE  Tells(sc, out) /\ SameTools(sc, out.sc)
<1> DEFINE stopped == Chat!StopBlocks(sc)
           index   == IF sc.textOpen THEN sc.textIndex ELSE sc.nextIndex
           delta   == ContentBlockDelta(index, "text_delta", text)
           start   == ContentBlockStart(index, "text", NoId, <<>>)
           opened  == [stopped.sc EXCEPT !.textOpen = TRUE, !.textIndex = index,
                                         !.nextIndex = index + 1]
<1>1. Tells(sc, stopped) /\ SameTools(sc, stopped.sc)
  BY StopBlocksTells
<1>9. Readable("claude", {}, start) /\ Readable("claude", {}, delta)
  BY BlockEventsMute
<1> HIDE DEF stopped, index, delta, start
<1>2. SameEnd(sc, opened) /\ SameTools(sc, opened)
  BY <1>1 DEF Tells, SameEnd, SameTools, IsChat
<1>3. /\ Events("claude", {}, stopped.events \o <<start>> \o <<delta>>)
      /\ Events("claude", {}, <<delta>>) /\ Events("claude", {}, <<>>)
  BY <1>1, <1>9, NoEvents, OneEvent, MoreEvents DEF Tells
<1>4. SameEnd(sc, sc) /\ SameTools(sc, sc)
  BY DEF SameEnd, SameTools
<1> HIDE DEF opened
<1>5. CASE text = <<>>
  <2>1. out.sc = sc /\ out.events = <<>>
    BY <1>5 DEF Chat!ClaudeText, Chat!Quiet
  <2>2. QED
    BY <1>3, <1>4, <2>1 DEF Tells
<1>6. CASE text # <<>> /\ sc.textOpen
  <2>1. out.sc = sc /\ out.events = <<delta>>
    BY <1>6 DEF Chat!ClaudeText, Chat!ContentBlockDelta, ContentBlockDelta, delta, index
  <2>2. QED
    BY <1>3, <1>4, <2>1 DEF Tells
<1>7. CASE text # <<>> /\ ~sc.textOpen
  <2>1. out.sc = opened
    BY <1>7 DEF Chat!ClaudeText, opened, stopped, index
  <2>2. out.events = stopped.events \o <<start>> \o <<delta>>
    BY <1>7 DEF Chat!ClaudeText, Chat!ContentBlockDelta, ContentBlockDelta, delta, index,
                Chat!ContentBlockStart, ContentBlockStart, start, stopped, NoId, Chat!NoId
  <2>3. QED
    BY <1>2, <1>3, <2>1, <2>2 DEF Tells
<1>8. QED
  BY <1>5, <1>6, <1>7

LEMMA ClaudeCallTells ==
  ASSUME NEW sc, IsChat(sc), sc.source = "claude",
         NEW call, NEW out, out = Chat!ClaudeCall(sc, call)
  PROVE  Tells(sc, out) /\ out.sc.toolOrder # <<>>
<1> DEFINE isNew   == call.index \notin DOMAIN sc.tools
           stopped == IF isNew THEN Chat!StopBlocks(sc) ELSE Chat!Quiet(sc)
           tool    == IF isNew THEN Chat!NewTool(sc.nextIndex, call) ELSE sc.tools[call.index]
           start   == Chat!ContentBlockStart(tool.blockIndex, "tool_use", tool.id, tool.name)
           delta   == Chat!ContentBlockDelta(tool.blockIndex, "input_json_delta", call.args)
           opened  == [stopped.sc EXCEPT !.nextIndex = @ + 1,
                                         !.tools = Chat!Put(@, call.index, tool),
                                         !.toolOrder = Append(@, call.index)]
<1>1. SameEnd(sc, sc)
  BY DEF SameEnd
<1>2. Tells(sc, stopped)
  <2>1. Tells(sc, Chat!StopBlocks(sc))
    BY StopBlocksTells
  <2>2. Tells(sc, Chat!Quiet(sc))
    BY <1>1, NoEvents DEF Chat!Quiet, Tells
  <2>3. QED
    BY <2>1, <2>2
<1>3. /\ out.sc = IF isNew THEN opened ELSE sc
      /\ out.events = stopped.events \o (IF isNew THEN <<start>> ELSE <<>>)
                        \o (IF call.args = <<>> THEN <<>> ELSE <<delta>>)
  BY DEF Chat!ClaudeCall
<1>4. SameEnd(sc, opened) /\ opened.toolOrder # <<>>
  <2>1. DOMAIN Chat!Put(stopped.sc.tools, call.index, tool)
          = DOMAIN stopped.sc.tools \cup {call.index}
    BY DEF Chat!Put
  <2>2. /\ IsSeq(Append(stopped.sc.toolOrder, call.index))
        /\ Append(stopped.sc.toolOrder, call.index) # <<>>
    BY <1>2, AppendedIsSeq, AppendedNotEmpty DEF Tells, SameEnd, IsChat
  <2> HIDE DEF stopped, tool
  <2>3. QED
    BY <1>2, <2>1, <2>2 DEF Tells, SameEnd, IsChat
<1>5. ~isNew => sc.toolOrder # <<>>
  BY DEF IsChat
<1>6. Readable("claude", {}, start) /\ Readable("claude", {}, delta)
  BY BlockEventsMute
     DEF Chat!ContentBlockStart, ContentBlockStart, Chat!ContentBlockDelta, ContentBlockDelta
<1> HIDE DEF isNew, stopped, tool, start, delta, opened
<1>7. Events("claude", {}, out.events)
  <2>1. Events("claude", {}, stopped.events)
    BY <1>2 DEF Tells
  <2>2. Events("claude", {}, IF isNew THEN <<start>> ELSE <<>>)
    BY <1>6, NoEvents, OneEvent
  <2>3. Events("claude", {}, IF call.args = <<>> THEN <<>> ELSE <<delta>>)
    BY <1>6, NoEvents, OneEvent
  <2>4. QED
    BY <1>3, <2>1, <2>2, <2>3, MoreEvents
<1>8. QED
  BY <1>1, <1>3, <1>4, <1>5, <1>7 DEF Tells

\* One step after another.
LEMMA ThenTells ==
  ASSUME NEW sc, NEW out, Tells(sc, out), NEW next, Tells(out.sc, next), NEW both,
         both = [sc |-> next.sc, events |-> out.events \o next.events]
  PROVE  Tells(sc, both)
<1>1. SameEnd(sc, next.sc) /\ out.sc.source = sc.source
  BY SameEndTransitive DEF Tells, SameEnd
<1>2. Events(sc.source, {}, out.events \o next.events)
  BY <1>1, MoreEvents DEF Tells
<1>3. QED
  BY <1>1, <1>2 DEF Tells

\* The entries of a chunk: none or one.
AtMostOne(calls) == calls = <<>> \/ \E call : calls = <<call>>

LEMMA ClaudeCallsTell ==
  ASSUME NEW sc, sc.source = "claude", NEW text, Tells(sc, text), SameTools(sc, text.sc),
         NEW calls, AtMostOne(calls), NEW out, out = FoldLeft(ClaudeCalled, text, calls)
  PROVE  /\ Tells(sc, out)
         /\ out.sc.toolOrder # <<>> <=> sc.toolOrder # <<>> \/ calls # <<>>
<1>1. out = Folded("claude", text, calls, sc)
  BY DEF FoldLeft, MapThenFoldSet, Folded, Fold, Round
<1>2. CASE calls = <<>>
  <2>1. out = text
    BY <1>1, <1>2, FoldOfNone
  <2>2. QED
    BY <1>2, <2>1 DEF SameTools
<1>3. ASSUME NEW call, calls = <<call>>
      PROVE  Tells(sc, out) /\ out.sc.toolOrder # <<>> /\ calls # <<>>
  <2>1. out = ClaudeCalled(text, call)
    BY <1>1, <1>3, FoldOfOne DEF Round
  <2>2. PICK next : next = Chat!ClaudeCall(text.sc, call)
    OBVIOUS
  <2>3. Tells(text.sc, next) /\ next.sc.toolOrder # <<>>
    BY <2>2, ClaudeCallTells DEF Tells, SameEnd
  <2>4. PICK both : both = [sc |-> next.sc, events |-> text.events \o next.events]
    OBVIOUS
  <2>5. out = both
    BY <2>1, <2>2, <2>4 DEF ClaudeCalled, Chat!Then
  <2>6. Tells(sc, both)
    BY <2>3, <2>4, ThenTells
  <2>7. calls # <<>>
    BY <1>3
  <2>8. QED
    BY <2>3, <2>4, <2>5, <2>6, <2>7
<1>4. QED
  BY <1>2, <1>3 DEF AtMostOne

-----------------------------------------------------------------------------
(* What the events of a list amount to.                                    *)

\* One of them ends the response; after one of them the client knows all.
Concluded(source, events) == \E i \in DOMAIN events : Final(source, events[i])
Informed(source, events) == \E i \in DOMAIN events : Informs(source, events[i])

\* What is in one of two lists is in both together.
LEMMA JoinedMembers ==
  ASSUME NEW s, NEW t, IsSeq(s), IsSeq(t)
  PROVE  /\ \A i \in DOMAIN s : i \in DOMAIN (s \o t) /\ (s \o t)[i] = s[i]
         /\ \A i \in DOMAIN t : \E j \in DOMAIN (s \o t) : (s \o t)[j] = t[i]
<1>1. PICK X, Y : s \in Seq(X) /\ t \in Seq(Y)
  BY DEF IsSeq
<1>2. PICK Z : Z = X \cup Y
  OBVIOUS
<1>3. s \in Seq(Z) /\ t \in Seq(Z)
  BY <1>1, <1>2
<1>4. ASSUME NEW i \in DOMAIN s PROVE i \in DOMAIN (s \o t) /\ (s \o t)[i] = s[i]
  BY <1>3
<1>5. ASSUME NEW i \in DOMAIN t PROVE \E j \in DOMAIN (s \o t) : (s \o t)[j] = t[i]
  <2>1. PICK n \in Nat, k \in Nat : n = Len(s) /\ k = i
    BY <1>3
  <2>2. n + k \in DOMAIN (s \o t) /\ (s \o t)[n + k] = t[k]
    BY <1>3, <2>1
  <2>3. QED
    BY <2>1, <2>2
<1>6. QED
  BY <1>4, <1>5

LEMMA JoinedConclude ==
  ASSUME NEW source, NEW s, NEW t, IsSeq(s), IsSeq(t)
  PROVE  /\ Concluded(source, s) \/ Concluded(source, t) => Concluded(source, s \o t)
         /\ Informed(source, s) \/ Informed(source, t) => Informed(source, s \o t)
<1>1. ASSUME Concluded(source, s) \/ Concluded(source, t)
      PROVE  Concluded(source, s \o t)
  BY <1>1, JoinedMembers DEF Concluded
<1>2. ASSUME Informed(source, s) \/ Informed(source, t)
      PROVE  Informed(source, s \o t)
  BY <1>2, JoinedMembers DEF Informed
<1>3. QED
  BY <1>1, <1>2

LEMMA OneConcludes ==
  ASSUME NEW source, NEW e
  PROVE  /\ Final(source, e) => Concluded(source, <<e>>)
         /\ Informs(source, e) => Informed(source, <<e>>)
<1>1. PICK s : s = <<e>>
  OBVIOUS
<1>2. 1 \in DOMAIN s /\ s[1] = e
  BY <1>1
<1>3. QED
  BY <1>1, <1>2 DEF Concluded, Informed

\* message_stop is the last event, after [DONE] as after a stream that was cut.
LEMMA StopConcludes ==
  ASSUME NEW v, v.after.reason # NoReason, NEW s, Events("claude", {v}, s),
         NEW t, t = Append(s, MessageStop)
  PROVE  /\ Events("claude", {v}, t) /\ Concluded("claude", t)
         /\ Informed("claude", s) => Informed("claude", t)
<1>1. Truthful("claude", v, MessageStop) /\ Final("claude", MessageStop)
  BY DEF Truthful, Final, MessageStop
<1>2. Events("claude", {v}, t)
  BY <1>1, OneMore DEF Readable
<1>3. PICK X : s \in Seq(X)
  BY DEF Events
<1>4. /\ Len(s) + 1 \in DOMAIN t /\ t[Len(s) + 1] = MessageStop
      /\ \A i \in DOMAIN s : i \in DOMAIN t /\ t[i] = s[i]
  BY <1>3
<1>5. Concluded("claude", t)
  BY <1>1, <1>4 DEF Concluded
<1>6. Informed("claude", s) => Informed("claude", t)
  BY <1>4 DEF Informed
<1>7. QED
  BY <1>2, <1>5, <1>6

-----------------------------------------------------------------------------
(* The end of a Chat Completions stream, to Messages.                      *)

\* The finish reason is held until the terminal event is out.
Due(sc) == sc.heldFinish # NoReason \/ sc.terminalSent

\* What the converter makes of the reason it holds and the usage it has seen.
ClaudeSays(sc) ==
  LET usage == Chat!UsageSeen(sc)
  IN  [reason |-> TerminalReason(sc.toolOrder # <<>>, "tool_use", FinishToClaudeStop(sc.heldFinish)),
       usage |-> ClaudeUsage(ClampSubtract(usage.input, usage.cached, {}), usage.output,
                             usage.cached, {})]
Telling(v, says) == Is(v.after, says) /\ Settles(v, v.after.usage)

\* What was held is out.
Released(sc, d) ==
  /\ IsChat(d)
  /\ d.source = sc.source /\ d.done = sc.done /\ d.flushed = sc.flushed
  /\ d.finished = sc.finished /\ d.heldFinish = NoReason /\ d.usage = sc.usage
  /\ sc.started => d.started
  /\ SameTools(sc, d)

LEMMA ClaudeTerminalTells ==
  ASSUME NEW sc, IsChat(sc), NEW v, sc.heldFinish # NoReason => Telling(v, ClaudeSays(sc)),
         NEW out, out = Chat!ClaudeTerminal(sc)
  PROVE  /\ Released(sc, out.sc)
         /\ out.sc.terminalSent <=> Due(sc)
         /\ Events("claude", {v}, out.events)
         /\ sc.heldFinish # NoReason => Informed("claude", out.events) /\ out.events # <<>>
<1>1. CASE sc.heldFinish = NoReason
  <2>1. out.sc = sc /\ out.events = <<>>
    BY <1>1 DEF Chat!ClaudeTerminal, Chat!Quiet, NoReason, Chat!NoReason
  <2>2. QED
    BY <1>1, <2>1, NoEvents DEF Released, SameTools, Due
<1>2. CASE sc.heldFinish # NoReason
  <2>1. out.sc = [sc EXCEPT !.heldFinish = NoReason, !.terminalSent = TRUE]
    BY <1>2 DEF Chat!ClaudeTerminal, NoReason, Chat!NoReason
  <2> DEFINE says == ClaudeSays(sc)
             e == MessageDelta(says.reason, {says.usage})
  <2>2. out.events = <<e>>
    BY <1>2 DEF Chat!ClaudeTerminal, NoReason, Chat!NoReason, ClaudeSays, MessageDelta,
                Chat!MessageDelta, Chat!TerminalReason, TerminalReason, Chat!ToolsSeen,
                Chat!FinishToClaudeStop, FinishToClaudeStop, Chat!ClaudeUsage, ClaudeUsage,
                Chat!ClampSubtract, ClampSubtract, Chat!ValueOrZero, ValueOrZero, Chat!Max, Max
  <2>3. says.reason # NoReason
    BY DEF ClaudeSays, TerminalReason, FinishToClaudeStop, NoReason
  <2> HIDE DEF says
  <2>4. Truthful("claude", v, e) /\ Informs("claude", e)
    BY <1>2, <2>3 DEF Telling, Is, Truthful, Informs, MessageDelta, says
  <2> HIDE DEF e
  <2>5. Events("claude", {v}, out.events) /\ Informed("claude", out.events) /\ out.events # <<>>
    BY <2>2, <2>4, OneEvent, OneConcludes DEF Readable
  <2>6. QED
    BY <1>2, <2>1, <2>5 DEF Released, SameTools, IsChat, Due
<1>3. QED
  BY <1>1, <1>2

\* message_start is due when the stream begins and nothing is known yet.
Early(sc, chunk, v) ==
  ~sc.started /\ chunk.choices =>
    chunk.usage = {} /\ v.before.reason = v.after.reason /\ v.after.usage = NoUsage

LEMMA ClaudeStartTells ==
  ASSUME NEW sc, IsChat(sc), NEW chunk, NEW v, Early(sc, chunk, v),
         NEW out, out = Chat!ClaudeStart(sc, chunk)
  PROVE  /\ SameEnd(sc, out.sc) /\ SameTools(sc, out.sc) /\ (chunk.choices => out.sc.started)
         /\ Events("claude", {v}, out.events)
<1>1. CASE sc.started \/ ~chunk.choices
  <2>1. out.sc = sc /\ out.events = <<>>
    BY <1>1 DEF Chat!ClaudeStart, Chat!Quiet
  <2>2. QED
    BY <1>1, <2>1, NoEvents DEF SameTools, SameEnd
<1>2. CASE ~(sc.started \/ ~chunk.choices)
  <2>1. out.sc = [sc EXCEPT !.started = TRUE]
    BY <1>2 DEF Chat!ClaudeStart
  <2>2. out.events = <<MessageStart({[NoUsage EXCEPT !.input = NoUsage.input]})>>
    BY <1>2 DEF Chat!ClaudeStart, Chat!MessageStart, MessageStart, Chat!NoUsage, NoUsage, Early
  <2>3. [NoUsage EXCEPT !.input = NoUsage.input] = NoUsage
    BY DEF NoUsage
  <2>4. Truthful("claude", v, MessageStart({NoUsage}))
    BY <1>2 DEF Early, Truthful, MessageStart
  <2>5. Events("claude", {v}, out.events)
    BY <2>2, <2>3, <2>4, OneEvent DEF Readable
  <2>6. QED
    BY <2>1, <2>5 DEF SameTools, SameEnd, IsChat
<1>3. QED
  BY <1>1, <1>2

\* The first finish reason is held.
Finishes(sc, d, finish) ==
  /\ IsChat(d)
  /\ d.source = sc.source /\ d.done = sc.done /\ d.flushed = sc.flushed
  /\ d.terminalSent = sc.terminalSent /\ d.usage = sc.usage
  /\ sc.started => d.started
  /\ IF finish = NoReason \/ sc.finished
     THEN d.finished = sc.finished /\ d.heldFinish = sc.heldFinish
     ELSE d.finished = TRUE /\ d.heldFinish = finish

LEMMA ClaudeFinishes ==
  ASSUME NEW sc, IsChat(sc), sc.source = "claude", NEW finish,
         NEW out, out = Chat!ClaudeFinish(sc, finish)
  PROVE  Finishes(sc, out.sc, finish) /\ SameTools(sc, out.sc) /\ Events("claude", {}, out.events)
<1>1. CASE finish = NoReason \/ sc.finished
  <2>1. out.sc = sc /\ out.events = <<>>
    BY <1>1 DEF Chat!ClaudeFinish, Chat!Quiet, NoReason, Chat!NoReason
  <2>2. QED
    BY <1>1, <2>1, NoEvents DEF Finishes, SameTools
<1>2. CASE ~(finish = NoReason \/ sc.finished)
  <2>1. PICK held : held = [sc EXCEPT !.finished = TRUE, !.heldFinish = finish]
    OBVIOUS
  <2>2. IsChat(held) /\ held.finished = TRUE /\ held.heldFinish = finish
        /\ held.source = sc.source /\ held.done = sc.done /\ held.flushed = sc.flushed
        /\ held.terminalSent = sc.terminalSent /\ held.usage = sc.usage
        /\ held.started = sc.started /\ held.toolOrder = sc.toolOrder
    BY <2>1 DEF IsChat
  <2>3. out = Chat!StopBlocks(held)
    BY <1>2, <2>1 DEF Chat!ClaudeFinish, NoReason, Chat!NoReason
  <2>4. Tells(held, out) /\ SameTools(held, out.sc)
    BY <2>2, <2>3, StopBlocksTells
  <2>5. QED
    BY <1>2, <2>2, <2>4 DEF Tells, SameEnd, SameTools, Finishes
<1>3. QED
  BY <1>1, <1>2

\* Whether the converter has seen a call, after a list of them.
Learns(sc, d, calls) == d.toolOrder # <<>> <=> sc.toolOrder # <<>> \/ calls # <<>>

LEMMA ClaudeChoiceFinishes ==
  ASSUME NEW sc, IsChat(sc), sc.source = "claude", NEW chunk, AtMostOne(chunk.calls),
         NEW out, out = Chat!ClaudeChoice(sc, chunk)
  PROVE  /\ Finishes(sc, out.sc, chunk.finish) /\ Learns(sc, out.sc, chunk.calls)
         /\ Events("claude", {}, out.events)
<1>1. PICK text : text = Chat!ClaudeText(sc, chunk.content)
  OBVIOUS
<1>2. PICK called : called = FoldLeft(ClaudeCalled, text, chunk.calls)
  OBVIOUS
<1>3. PICK ended : ended = Chat!ClaudeFinish(called.sc, chunk.finish)
  OBVIOUS
<1>4. called = Chat!FoldLeft(LAMBDA o, call : Chat!Then(o, LAMBDA s : Chat!ClaudeCall(s, call)),
                             text, chunk.calls)
  BY <1>2 DEF FoldLeft, MapThenFoldSet, Max, Chat!FoldLeft, Chat!MapThenFoldSet, Chat!Max,
              ClaudeCalled
<1>5. out.sc = ended.sc /\ out.events = called.events \o ended.events
  BY <1>1, <1>3, <1>4 DEF Chat!ClaudeChoice, Chat!Then
<1>6. Tells(sc, called) /\ Learns(sc, called.sc, chunk.calls)
  BY <1>1, <1>2, ClaudeTextTells, ClaudeCallsTell DEF Learns
<1>7. /\ Finishes(called.sc, ended.sc, chunk.finish) /\ SameTools(called.sc, ended.sc)
      /\ Events("claude", {}, ended.events)
  BY <1>3, <1>6, ClaudeFinishes DEF Tells, SameEnd
<1>8. QED
  BY <1>5, <1>6, <1>7, MoreEvents DEF Tells, SameEnd, SameTools, Finishes, Learns

\* A chunk: what was held is out, and a first finish reason is held.
Noted(sc, d, chunk) ==
  /\ IsChat(d)
  /\ d.source = sc.source /\ d.done = sc.done /\ d.flushed = sc.flushed /\ d.usage = sc.usage
  /\ sc.started \/ chunk.choices => d.started
  /\ Learns(sc, d, IF chunk.choices THEN chunk.calls ELSE <<>>)
  /\ IF chunk.choices /\ chunk.finish # NoReason /\ ~sc.finished
     THEN d.finished = TRUE /\ d.heldFinish = chunk.finish
     ELSE d.finished = sc.finished /\ d.heldFinish = NoReason

LEMMA ClaudeChunkTells ==
  ASSUME NEW sc, IsChat(sc), sc.source = "claude", NEW chunk, AtMostOne(chunk.calls),
         NEW v, Early(sc, chunk, v), sc.heldFinish # NoReason => Telling(v, ClaudeSays(sc)),
         NEW out, out = Chat!ClaudeChunk(sc, chunk)
  PROVE  /\ Noted(sc, out.sc, chunk) /\ (out.sc.terminalSent <=> Due(sc))
         /\ Events("claude", {v}, out.events)
         /\ sc.heldFinish # NoReason => Informed("claude", out.events)
<1>1. PICK told : told = Chat!ClaudeTerminal(sc)
  OBVIOUS
<1>2. PICK start : start = Chat!ClaudeStart(told.sc, chunk)
  OBVIOUS
<1>3. PICK begun : begun = [sc |-> start.sc, events |-> told.events \o start.events]
  OBVIOUS
<1>4. PICK choice : choice = Chat!ClaudeChoice(begun.sc, chunk)
  OBVIOUS
<1>5. /\ Released(sc, told.sc) /\ (told.sc.terminalSent <=> Due(sc))
      /\ Events("claude", {v}, told.events)
      /\ sc.heldFinish # NoReason => Informed("claude", told.events)
  BY <1>1, ClaudeTerminalTells
<1>6. /\ SameEnd(told.sc, start.sc) /\ SameTools(told.sc, start.sc)
      /\ chunk.choices => start.sc.started
      /\ Events("claude", {v}, start.events)
  <2>1. Early(told.sc, chunk, v)
    BY <1>5 DEF Early, Released
  <2>2. QED
    BY <1>2, <1>5, <2>1, ClaudeStartTells DEF Released
<1>7. /\ Released(sc, begun.sc) /\ (begun.sc.terminalSent <=> Due(sc))
      /\ sc.started \/ chunk.choices => begun.sc.started
  BY <1>3, <1>5, <1>6 DEF Released, SameEnd, SameTools
<1>8. /\ Events("claude", {v}, begun.events)
      /\ sc.heldFinish # NoReason => Informed("claude", begun.events)
  BY <1>3, <1>5, <1>6, MoreEvents, JoinedConclude, EventsIsSeq
<1>9. Chat!Then(Chat!ClaudeTerminal(sc), LAMBDA s : Chat!ClaudeStart(s, chunk)) = begun
  BY <1>1, <1>2, <1>3 DEF Chat!Then
<1>10. CASE ~chunk.choices
  <2>1. out = begun
    BY <1>9, <1>10 DEF Chat!ClaudeChunk
  <2>2. QED
    BY <1>7, <1>8, <1>10, <2>1 DEF Noted, Released, SameTools, Learns
<1>11. CASE chunk.choices
  <2>1. begun.sc = start.sc /\ begun.events = told.events \o start.events
    BY <1>3
  <2>2. out.sc = choice.sc /\ out.events = begun.events \o choice.events
    BY <1>1, <1>2, <1>4, <1>11, <2>1 DEF Chat!ClaudeChunk, Chat!Then
  <2>3. /\ Finishes(begun.sc, choice.sc, chunk.finish) /\ Learns(begun.sc, choice.sc, chunk.calls)
        /\ Events("claude", {}, choice.events)
    BY <1>4, <1>7, ClaudeChoiceFinishes DEF Released
  <2>4. /\ Events("claude", {v}, out.events)
        /\ sc.heldFinish # NoReason => Informed("claude", out.events)
    BY <1>8, <2>2, <2>3, MuteEvents, MoreEvents, JoinedConclude, EventsIsSeq
  <2>5. Noted(sc, out.sc, chunk) /\ (out.sc.terminalSent <=> Due(sc))
    BY <1>7, <1>11, <2>2, <2>3 DEF Noted, Released, SameTools, Learns, Finishes
  <2>6. QED
    BY <2>4, <2>5
<1>12. QED
  BY <1>10, <1>11

LEMMA ClaudeDoneConcludes ==
  ASSUME NEW sc, IsChat(sc), sc.source = "claude", NEW v, v.after.reason # NoReason,
         sc.heldFinish # NoReason => Telling(v, ClaudeSays(sc)),
         NEW out, out = Chat!ClaudeDone(sc)
  PROVE  /\ IsChat(out.sc) /\ out.sc.source = "claude" /\ out.sc.done
         /\ Events("claude", {v}, out.events) /\ Concluded("claude", out.events)
         /\ sc.heldFinish # NoReason => Informed("claude", out.events)
<1>1. PICK once : once = [sc EXCEPT !.done = TRUE]
  OBVIOUS
<1>2. PICK stopped : stopped = Chat!StopBlocks(once)
  OBVIOUS
<1>3. PICK told : told = Chat!ClaudeTerminal(stopped.sc)
  OBVIOUS
<1>4. /\ IsChat(once) /\ once.source = "claude" /\ once.done = TRUE /\ once.usage = sc.usage
      /\ once.heldFinish = sc.heldFinish /\ once.toolOrder = sc.toolOrder
  BY <1>1 DEF IsChat
<1>5. Tells(once, stopped) /\ SameTools(once, stopped.sc)
  BY <1>2, <1>4, StopBlocksTells
<1>6. /\ IsChat(stopped.sc) /\ stopped.sc.source = "claude" /\ stopped.sc.done
      /\ stopped.sc.heldFinish = sc.heldFinish /\ stopped.sc.usage = sc.usage
      /\ stopped.sc.toolOrder # <<>> <=> sc.toolOrder # <<>>
  BY <1>4, <1>5 DEF Tells, SameEnd, SameTools
<1>7. ClaudeSays(stopped.sc) = ClaudeSays(sc)
  BY <1>6 DEF ClaudeSays, Chat!UsageSeen, TerminalReason
<1>8. /\ Released(stopped.sc, told.sc) /\ Events("claude", {v}, told.events)
      /\ sc.heldFinish # NoReason => Informed("claude", told.events)
  BY <1>3, <1>6, <1>7, ClaudeTerminalTells
<1>9. out.sc = told.sc /\ out.events = Append(stopped.events \o told.events, MessageStop)
  BY <1>1, <1>2, <1>3 DEF Chat!ClaudeDone, Chat!Then, Chat!MessageStop, MessageStop
<1>10. /\ Events("claude", {v}, stopped.events \o told.events)
       /\ sc.heldFinish # NoReason => Informed("claude", stopped.events \o told.events)
  <2>1. Events("claude", {v}, stopped.events)
    BY <1>4, <1>5, MuteEvents DEF Tells
  <2>2. QED
    BY <1>8, <2>1, MoreEvents, JoinedConclude, EventsIsSeq
<1>11. /\ Events("claude", {v}, out.events) /\ Concluded("claude", out.events)
       /\ sc.heldFinish # NoReason => Informed("claude", out.events)
  BY <1>9, <1>10, StopConcludes
<1>12. QED
  BY <1>6, <1>8, <1>9, <1>11 DEF Released

\* A stream that was cut: a Messages client is told what is due, and the end.
LEMMA ClaudeFlushConcludes ==
  ASSUME NEW sc, IsChat(sc), sc.source = "claude", ~sc.flushed,
         NEW v, Due(sc) => v.after.reason # NoReason,
         sc.heldFinish # NoReason => Telling(v, ClaudeSays(sc)),
         NEW out, out = Chat!Flush(sc)
  PROVE  /\ Events("claude", {v}, out.events)
         /\ Due(sc) => Concluded("claude", out.events)
         /\ sc.heldFinish # NoReason => Informed("claude", out.events)
<1>1. PICK once : once = [sc EXCEPT !.flushed = TRUE]
  OBVIOUS
<1>2. PICK told : told = Chat!ClaudeTerminal(once)
  OBVIOUS
<1>3. /\ IsChat(once) /\ once.source = "claude" /\ once.heldFinish = sc.heldFinish
      /\ once.usage = sc.usage /\ once.toolOrder = sc.toolOrder
      /\ once.terminalSent = sc.terminalSent
  BY <1>1 DEF IsChat
<1>4. ClaudeSays(once) = ClaudeSays(sc)
  BY <1>3 DEF ClaudeSays, Chat!UsageSeen
<1>5. /\ Events("claude", {v}, told.events)
      /\ sc.heldFinish # NoReason => Informed("claude", told.events) /\ told.events # <<>>
      /\ sc.heldFinish = NoReason => told.events = <<>>
  <2>1. sc.heldFinish = NoReason => told.events = <<>>
    BY <1>2, <1>3 DEF Chat!ClaudeTerminal, Chat!Quiet, NoReason, Chat!NoReason
  <2>2. QED
    BY <1>2, <1>3, <1>4, <2>1, ClaudeTerminalTells
<1>6. CASE told.events = <<>> /\ ~sc.terminalSent
  <2>1. out = told
    BY <1>1, <1>2, <1>6 DEF Chat!Flush
  <2>2. ~Due(sc)
    BY <1>5, <1>6 DEF Due
  <2>3. QED
    BY <1>5, <2>1, <2>2
<1>7. CASE ~(told.events = <<>> /\ ~sc.terminalSent)
  <2>1. out = [told EXCEPT !.events = Append(@, Chat!MessageStop)]
    BY <1>1, <1>2, <1>7 DEF Chat!Flush
  <2>2. DOMAIN told = {"sc", "events"}
    BY <1>2 DEF Chat!ClaudeTerminal, Chat!Quiet
  <2>3. out.events = Append(told.events, MessageStop)
    BY <2>1, <2>2 DEF Chat!MessageStop, MessageStop
  <2>4. Due(sc)
    BY <1>5, <1>7 DEF Due
  <2>5. QED
    BY <1>5, <2>3, <2>4, StopConcludes
<1>8. QED
  BY <1>6, <1>7

-----------------------------------------------------------------------------
(* Output arrays and the completion of their items.                        *)

LEMMA ReservedIsAssembler ==
  ASSUME NEW oa, IsAssembler(oa)
  PROVE  IsAssembler(ReserveTextSlot(oa))
<1>1. IsSeq(Append(oa.items, Message(<<>>)))
  BY AppendedIsSeq DEF IsAssembler
<1>2. QED
  BY <1>1 DEF ReserveTextSlot, IsAssembler

LEMMA WithTextIsAssembler ==
  ASSUME NEW oa, IsAssembler(oa), NEW text
  PROVE  IsAssembler(AddText(oa, text))
BY DEF AddText, IsAssembler

LEMMA WithCallIsAssembler ==
  ASSUME NEW oa, IsAssembler(oa), NEW id, NEW name, NEW args
  PROVE  IsAssembler(AppendFunctionCall(oa, id, name, args))
<1>1. PICK item : item = RestoreCall(oa.names, FunctionCall(id, name, args))
  OBVIOUS
<1>2. IsSeq(Append(oa.items, item))
  BY AppendedIsSeq DEF IsAssembler
<1>3. AppendFunctionCall(oa, id, name, args) = [oa EXCEPT !.items = Append(@, item)]
  BY <1>1 DEF AppendFunctionCall
<1>4. QED
  BY <1>2, <1>3 DEF IsAssembler

LEMMA NewIsAssembler ==
  ASSUME NEW names PROVE IsAssembler(NewOutputAssembler(names))
BY EmptyIsSeq DEF NewOutputAssembler, IsAssembler

LEMMA ReplacedIsSeq ==
  ASSUME NEW s, IsSeq(s), NEW k, NEW e PROVE IsSeq([s EXCEPT ![k] = e])
<1>1. PICK X : s \in Seq(X)
  BY DEF IsSeq
<1>2. s \in Seq(X \cup {e})
  BY <1>1
<1>3. CASE k \in 1..Len(s)
  <2>1. [s EXCEPT ![k] = e] \in Seq(X \cup {e})
    BY <1>2, <1>3, ExceptSeq
  <2>2. QED
    BY <2>1 DEF IsSeq
<1>4. CASE k \notin 1..Len(s)
  <2>1. [s EXCEPT ![k] = e] = s
    BY <1>1, <1>4
  <2>2. QED
    BY <2>1
<1>5. QED
  BY <1>3, <1>4

LEMMA RenderedIsSeq ==
  ASSUME NEW oa, IsAssembler(oa) PROVE IsSeq(Render(oa))
<1>1. PICK item : item = Message(oa.text)
  OBVIOUS
<1>2. IsSeq([oa.items EXCEPT ![oa.textSlot] = item])
  BY ReplacedIsSeq DEF IsAssembler
<1>3. IsSeq(<<item>> \o oa.items)
  BY SingleIsSeq, JoinedIsSeq DEF IsAssembler
<1>4. QED
  BY <1>1, <1>2, <1>3 DEF Render, IsAssembler

LEMMA ThreeEvents ==
  ASSUME NEW source, NEW V, NEW a, NEW b, NEW c,
         Readable(source, V, a), Readable(source, V, b), Readable(source, V, c)
  PROVE  Events(source, V, <<a, b, c>>) /\ Events(source, V, <<a, b>>)
<1>1. PICK X : X = {a, b, c}
  OBVIOUS
<1>2. <<a, b, c>> \in Seq(X) /\ <<a, b>> \in Seq(X)
  BY <1>1
<1>3. QED
  BY <1>1, <1>2 DEF Events

\* The completion of the items, and then response.completed.
LEMMA ItemsDoneMute ==
  ASSUME NEW items, IsSeq(items) PROVE Events("openai-response", {}, ItemsDone(items))
<1> DEFINE list == [i \in DOMAIN items |-> i]
<1>1. ItemsDone(items) = Folded("items", <<>>, list, items)
  BY DEF ItemsDone, FoldLeftDomain, FoldLeft, MapThenFoldSet, Folded, Fold, Round, CompletedItem
<1>2. Good("items", <<>>, items)
  BY NoEvents DEF Good
<1>3. Bounded(DOMAIN list)
  BY ListBounded
<1>4. ASSUME NEW i \in DOMAIN list
      PROVE  Keeps("items", list[i], items)
  <2>1. ASSUME NEW acc, Events("openai-response", {}, acc), NEW k
        PROVE  Events("openai-response", {}, CompletedItem(acc, k, items))
    <3>1. ASSUME NEW id, NEW index, NEW content, NEW item
          PROVE  /\ Readable("openai-response", {}, TextDone(id, index, content))
                 /\ Readable("openai-response", {}, ContentPartDone(id, index, content))
                 /\ Readable("openai-response", {}, InputDone(id, index, content))
                 /\ Readable("openai-response", {}, ArgsDone(id, index, content))
                 /\ Readable("openai-response", {}, ItemDone(index, item))
      BY DEF Readable, Mute, TextDone, ContentPartDone, InputDone, ArgsDone, ItemDone, About
    <3>2. Events("openai-response", {}, MessageDone(k - 1, items[k]))
      BY <3>1, ThreeEvents DEF MessageDone
    <3>3. Events("openai-response", {}, ToolDone(k - 1, items[k]))
      BY <3>1, ThreeEvents DEF ToolDone
    <3>4. QED
      BY <2>1, <3>2, <3>3, MoreEvents DEF CompletedItem
  <2>2. QED
    BY <2>1 DEF Keeps, Good, Round
<1> HIDE DEF list
<1>5. Good("items", ItemsDone(items), items)
  BY <1>1, <1>2, <1>3, <1>4, FoldKeeps
<1>6. QED
  BY <1>5 DEF Good

LEMMA ToolDeltaMute ==
  ASSUME NEW names, NEW id, NEW index, NEW name, NEW fragment, NEW accumulated, NEW emitted
  PROVE  Events("openai-response", {},
                ToolDelta(names, id, index, name, fragment, accumulated, emitted).events)
<1> DEFINE delta == ToolDelta(names, id, index, name, fragment, accumulated, emitted)
<1>1. delta.events = <<>> \/ \E e : delta.events = <<e>> /\ Readable("openai-response", {}, e)
  BY DEF ToolDelta, Readable, Mute, ArgsDelta, InputDelta, About
<1>2. QED
  BY <1>1, NoEvents, OneEvent

\* response.completed is the last event.
LEMMA CompletedConcludes ==
  ASSUME NEW v, NEW items, IsSeq(items), NEW e, Truthful("openai-response", v, e),
         NEW t, t = ItemsDone(items) \o <<e>>
  PROVE  /\ Events("openai-response", {v}, t)
         /\ Concluded("openai-response", t) /\ Informed("openai-response", t)
<1>1. Events("openai-response", {v}, ItemsDone(items))
  BY ItemsDoneMute, MuteEvents
<1>2. Events("openai-response", {v}, <<e>>)
  BY OneEvent DEF Readable
<1>3. Final("openai-response", e) /\ Informs("openai-response", e)
  BY DEF Truthful, Final, Informs
<1>4. QED
  BY <1>1, <1>2, <1>3, MoreEvents, OneConcludes, JoinedConclude, EventsIsSeq

-----------------------------------------------------------------------------
(* The converter of a Chat Completions stream, to Responses.               *)

CallsPlaced(sc) ==
  FoldLeft(LAMBDA oa, i : PlacedCall(oa, i, sc), NewOutputAssembler(sc.names), sc.toolOrder)

LEMMA CallsPlacedIsAssembler ==
  ASSUME NEW sc, IsChat(sc)
  PROVE  IsAssembler(CallsPlaced(sc))
<1>1. PICK base : base = NewOutputAssembler(sc.names)
  OBVIOUS
<1>2. CallsPlaced(sc) = Folded("calls", base, sc.toolOrder, sc)
  BY <1>1 DEF CallsPlaced, FoldLeft, MapThenFoldSet, Folded, Fold, Round
<1>3. Good("calls", base, sc)
  BY <1>1, NewIsAssembler DEF Good
<1>4. Bounded(DOMAIN sc.toolOrder)
  BY ListBounded DEF IsChat
<1>5. ASSUME NEW i \in DOMAIN sc.toolOrder
      PROVE  Keeps("calls", sc.toolOrder[i], sc)
  <2>1. ASSUME NEW acc, IsAssembler(acc), NEW x
        PROVE  IsAssembler(PlacedCall(acc, x, sc))
    BY <2>1, ReservedIsAssembler, WithCallIsAssembler DEF PlacedCall
  <2>2. QED
    BY <2>1 DEF Keeps, Good, Round
<1>6. Good("calls", CallsPlaced(sc), sc)
  BY <1>2, <1>3, <1>4, <1>5, FoldKeeps
<1>7. QED
  BY <1>6 DEF Good

LEMMA ChatCallsPlaced ==
  ASSUME NEW sc
  PROVE  Chat!Output(sc)
           = Render(AddText(IF sc.msgIndex >= 0 THEN ReserveTextSlot(CallsPlaced(sc))
                            ELSE CallsPlaced(sc), sc.respText))
BY DEF Chat!Output, CallsPlaced, PlacedCall, Chat!FoldLeft, Chat!MapThenFoldSet, Chat!Max,
       FoldLeft, MapThenFoldSet, Max, Chat!Render, Render, Chat!AddText, AddText,
       Chat!ReserveTextSlot, ReserveTextSlot, Chat!AppendFunctionCall, AppendFunctionCall,
       Chat!NewOutputAssembler, NewOutputAssembler, Chat!DefaultArgs, DefaultArgs,
       Chat!RestoreCall, RestoreCall, Chat!FunctionCall, FunctionCall, Chat!Item, Item,
       Chat!Message, Message, Chat!Identity, Identity, Chat!UnwrapCustomToolInput,
       UnwrapCustomToolInput, Chat!EmptyObject, EmptyObject, Chat!Whole, Whole, Chat!Input,
       Input, Chat!NoId, NoId, Chat!NoNamespace, NoNamespace, Chat!MessageId, MessageId

LEMMA ChatOutputIsSeq ==
  ASSUME NEW sc, IsChat(sc)
  PROVE  IsSeq(Chat!Output(sc))
BY ChatCallsPlaced, CallsPlacedIsAssembler, ReservedIsAssembler, WithTextIsAssembler,
   RenderedIsSeq

LEMMA ChatItemsDone ==
  ASSUME NEW items
  PROVE  Chat!ItemsDone(items) = ItemsDone(items)
BY DEF Chat!ItemsDone, ItemsDone, Chat!FoldLeftDomain, FoldLeftDomain, Chat!FoldLeft,
       FoldLeft, Chat!MapThenFoldSet, MapThenFoldSet, Chat!Max, Max,
       Chat!MessageDone, MessageDone, Chat!ToolDone, ToolDone, Chat!TextDone, TextDone,
       Chat!ContentPartDone, ContentPartDone, Chat!ItemDone, ItemDone, Chat!InputDone,
       InputDone, Chat!ArgsDone, ArgsDone, Chat!About, About

\* What the converter makes of the reason it holds and the usage it has seen.
ResponsesSays(sc) ==
  LET usage == Chat!UsageSeen(sc)
  IN  [reason |-> ResponseStatusFromCCFinish(sc.heldFinish),
       usage |-> NewResponsesUsageFrom(usage.input, usage.output, usage.cached, {})]

LEMMA ResponsesTerminalConcludes ==
  ASSUME NEW sc, IsChat(sc), NEW v, sc.heldFinish # NoReason => Is(v.after, ResponsesSays(sc)),
         NEW out, out = Chat!ResponsesTerminal(sc)
  PROVE  /\ Released(sc, out.sc)
         /\ Events("openai-response", {v}, out.events)
         /\ sc.heldFinish # NoReason =>
              /\ Concluded("openai-response", out.events)
              /\ Informed("openai-response", out.events)
<1>1. CASE sc.heldFinish = NoReason
  <2>1. out.sc = sc /\ out.events = <<>>
    BY <1>1 DEF Chat!ResponsesTerminal, Chat!Quiet, NoReason, Chat!NoReason
  <2>2. QED
    BY <1>1, <2>1, NoEvents DEF Released, SameTools
<1>2. CASE sc.heldFinish # NoReason
  <2>1. PICK items : items = Chat!Output(sc)
    OBVIOUS
  <2>2. IsSeq(items)
    BY <2>1, ChatOutputIsSeq
  <2> DEFINE says == ResponsesSays(sc)
             e == Completed(says.reason, says.usage, items)
  <2>3. out.events = Chat!ItemsDone(items) \o <<e>>
    BY <1>2, <2>1 DEF Chat!ResponsesTerminal, NoReason, Chat!NoReason, ResponsesSays,
       Chat!Completed, Completed, Chat!ResponseStatusFromCCFinish, ResponseStatusFromCCFinish,
       Chat!NewResponsesUsageFrom, NewResponsesUsageFrom
  <2>4. says.reason # NoReason
    BY DEF ResponsesSays, ResponseStatusFromCCFinish, NoReason
  <2> HIDE DEF says
  <2>5. Truthful("openai-response", v, e)
    BY <1>2, <2>4 DEF Is, Truthful, Completed, says
  <2> HIDE DEF e
  <2>6. out.events = ItemsDone(items) \o <<e>>
    BY <2>3, ChatItemsDone
  <2>7. /\ Events("openai-response", {v}, out.events)
        /\ Concluded("openai-response", out.events) /\ Informed("openai-response", out.events)
    BY <2>2, <2>5, <2>6, CompletedConcludes
  <2>8. out.sc = [sc EXCEPT !.heldFinish = NoReason]
    BY <1>2 DEF Chat!ResponsesTerminal, NoReason, Chat!NoReason
  <2>9. Released(sc, out.sc)
    BY <2>8 DEF Released, SameTools, IsChat
  <2>10. QED
    BY <2>7, <2>9
<1>3. QED
  BY <1>1, <1>2

LEMMA ItemAddedMute ==
  ASSUME NEW names, NEW index, NEW item
  PROVE  Readable("openai-response", {}, Chat!ItemAdded(names, index, item))
BY DEF Readable, Mute, Chat!ItemAdded, Chat!RawItemAdded

LEMMA ResponsesTextTells ==
  ASSUME NEW sc, IsChat(sc), sc.source = "openai-response",
         NEW text, NEW out, out = Chat!ResponsesText(sc, text)
  PROVE  Tells(sc, out) /\ SameTools(sc, out.sc)
<1> DEFINE first == sc.msgIndex < 0
           index == IF first THEN sc.nextIndex ELSE sc.msgIndex
           d == Chat!ItemAdded(sc.names, index, Chat!Message(<<>>))
           e == Chat!TextDelta(Chat!MessageId, index, text)
<1>1. CASE text = <<>>
  <2>1. out.sc = sc /\ out.events = <<>>
    BY <1>1 DEF Chat!ResponsesText, Chat!Quiet
  <2>2. QED
    BY <2>1, NoEvents DEF Tells, SameEnd, SameTools
<1>2. CASE text # <<>>
  <2>1. out.sc = [sc EXCEPT !.msgIndex = index, !.respText = @ \o text,
                            !.nextIndex = IF first THEN @ + 1 ELSE @]
    BY <1>2 DEF Chat!ResponsesText
  <2>2. out.events = (IF first THEN <<d>> ELSE <<>>) \o <<e>>
    BY <1>2 DEF Chat!ResponsesText
  <2>3. Readable("openai-response", {}, d)
    BY ItemAddedMute
  <2>4. Readable("openai-response", {}, e)
    BY DEF Readable, Mute, Chat!TextDelta, Chat!About
  <2> HIDE DEF first, index, d, e
  <2>5. /\ Events("openai-response", {}, IF first THEN <<d>> ELSE <<>>)
        /\ Events("openai-response", {}, <<e>>)
    BY <2>3, <2>4, NoEvents, OneEvent
  <2>6. Events("openai-response", {}, out.events)
    BY <2>2, <2>5, MoreEvents
  <2>7. SameEnd(sc, out.sc) /\ SameTools(sc, out.sc)
    BY <2>1 DEF SameEnd, SameTools, IsChat
  <2>8. QED
    BY <2>6, <2>7 DEF Tells
<1>3. QED
  BY <1>1, <1>2

LEMMA ChatToolDelta ==
  ASSUME NEW names, NEW id, NEW index, NEW name, NEW fragment, NEW accumulated, NEW emitted
  PROVE  Chat!ToolDelta(names, id, index, name, fragment, accumulated, emitted)
           = ToolDelta(names, id, index, name, fragment, accumulated, emitted)
BY DEF Chat!ToolDelta, ToolDelta, Chat!Identity, Identity, Chat!UnwrapCustomToolInput,
       UnwrapCustomToolInput, Chat!ArgsDelta, ArgsDelta, Chat!InputDelta, InputDelta,
       Chat!About, About, Chat!Whole, Whole, Chat!Input, Input, Chat!NoNamespace, NoNamespace

LEMMA ResponsesCallTells ==
  ASSUME NEW sc, IsChat(sc), sc.source = "openai-response",
         NEW call, NEW out, out = Chat!ResponsesCall(sc, call)
  PROVE  Tells(sc, out) /\ out.sc.toolOrder # <<>>
<1> DEFINE isNew == call.index \notin DOMAIN sc.tools
           tool  == IF isNew THEN Chat!NewTool(sc.nextIndex, call) ELSE sc.tools[call.index]
           args  == tool.args \o call.args
           delta == IF call.args = <<>> THEN [events |-> <<>>, emitted |-> tool.inputEmitted]
                    ELSE Chat!ToolDelta(sc.names, tool.id, tool.blockIndex, tool.name,
                                        call.args, args, tool.inputEmitted)
           added == Chat!ItemAdded(sc.names, tool.blockIndex,
                                   Chat!FunctionCall(tool.id, tool.name, <<>>))
           put   == [tool EXCEPT !.args = args, !.inputEmitted = delta.emitted]
<1>1. /\ out.sc = [sc EXCEPT !.nextIndex = IF isNew THEN @ + 1 ELSE @,
                             !.toolOrder = IF isNew THEN Append(@, call.index) ELSE @,
                             !.tools = Chat!Put(@, call.index, put)]
      /\ out.events = (IF isNew THEN <<added>> ELSE <<>>) \o delta.events
  BY DEF Chat!ResponsesCall
<1>2. Events("openai-response", {}, delta.events)
  BY NoEvents, ToolDeltaMute, ChatToolDelta
<1>3. Readable("openai-response", {}, added)
  BY ItemAddedMute
<1>4. ~isNew => sc.toolOrder # <<>>
  BY DEF IsChat
<1>5. DOMAIN Chat!Put(sc.tools, call.index, put) = DOMAIN sc.tools \cup {call.index}
  BY DEF Chat!Put
<1> HIDE DEF isNew, tool, args, delta, added, put
<1>6. Events("openai-response", {}, out.events)
  <2>1. Events("openai-response", {}, IF isNew THEN <<added>> ELSE <<>>)
    BY <1>3, NoEvents, OneEvent
  <2>2. QED
    BY <1>1, <1>2, <2>1, MoreEvents
<1>7. SameEnd(sc, out.sc) /\ out.sc.toolOrder # <<>>
  <2> DEFINE order == IF isNew THEN Append(sc.toolOrder, call.index) ELSE sc.toolOrder
  <2>1. IsSeq(order) /\ order # <<>>
    BY <1>4, AppendedIsSeq, AppendedNotEmpty DEF IsChat
  <2>2. out.sc.toolOrder = order
    BY <1>1 DEF IsChat
  <2> HIDE DEF order
  <2>3. QED
    BY <1>1, <2>1, <2>2 DEF SameEnd, IsChat
<1>8. QED
  BY <1>6, <1>7 DEF Tells

LEMMA ResponsesCallsTell ==
  ASSUME NEW sc, sc.source = "openai-response", NEW text, Tells(sc, text), SameTools(sc, text.sc),
         NEW calls, AtMostOne(calls), NEW out, out = FoldLeft(ResponsesCalled, text, calls)
  PROVE  Tells(sc, out) /\ Learns(sc, out.sc, calls)
<1>1. out = Folded("responses", text, calls, sc)
  BY DEF FoldLeft, MapThenFoldSet, Folded, Fold, Round
<1>2. CASE calls = <<>>
  <2>1. out = text
    BY <1>1, <1>2, FoldOfNone
  <2>2. QED
    BY <1>2, <2>1 DEF SameTools, Learns
<1>3. ASSUME NEW call, calls = <<call>>
      PROVE  Tells(sc, out) /\ out.sc.toolOrder # <<>> /\ calls # <<>>
  <2>1. out = ResponsesCalled(text, call)
    BY <1>1, <1>3, FoldOfOne DEF Round
  <2>2. PICK next : next = Chat!ResponsesCall(text.sc, call)
    OBVIOUS
  <2>3. Tells(text.sc, next) /\ next.sc.toolOrder # <<>>
    BY <2>2, ResponsesCallTells DEF Tells, SameEnd
  <2>4. PICK both : both = [sc |-> next.sc, events |-> text.events \o next.events]
    OBVIOUS
  <2>5. out = both
    BY <2>1, <2>2, <2>4 DEF ResponsesCalled, Chat!Then
  <2>6. Tells(sc, both)
    BY <2>3, <2>4, ThenTells
  <2>7. calls # <<>>
    BY <1>3
  <2>8. QED
    BY <2>3, <2>4, <2>5, <2>6, <2>7
<1>4. QED
  BY <1>2, <1>3 DEF AtMostOne, Learns

LEMMA ResponsesFinishes ==
  ASSUME NEW sc, IsChat(sc), NEW finish, NEW out, out = Chat!ResponsesFinish(sc, finish)
  PROVE  Finishes(sc, out.sc, finish) /\ SameTools(sc, out.sc) /\ out.events = <<>>
<1>1. CASE finish = NoReason \/ sc.finished
  <2>1. out.sc = sc /\ out.events = <<>>
    BY <1>1 DEF Chat!ResponsesFinish, Chat!Quiet, NoReason, Chat!NoReason
  <2>2. QED
    BY <1>1, <2>1 DEF Finishes, SameTools
<1>2. CASE ~(finish = NoReason \/ sc.finished)
  <2>1. out.sc = [sc EXCEPT !.finished = TRUE, !.heldFinish = finish] /\ out.events = <<>>
    BY <1>2 DEF Chat!ResponsesFinish, Chat!Quiet, NoReason, Chat!NoReason
  <2>2. QED
    BY <1>2, <2>1 DEF Finishes, SameTools, IsChat
<1>3. QED
  BY <1>1, <1>2

LEMMA ResponsesChoiceFinishes ==
  ASSUME NEW sc, IsChat(sc), sc.source = "openai-response", NEW chunk, AtMostOne(chunk.calls),
         NEW out, out = Chat!ResponsesChoice(sc, chunk)
  PROVE  /\ Finishes(sc, out.sc, chunk.finish) /\ Learns(sc, out.sc, chunk.calls)
         /\ Events("openai-response", {}, out.events)
<1>1. PICK text : text = Chat!ResponsesText(sc, chunk.content)
  OBVIOUS
<1>2. PICK called : called = FoldLeft(ResponsesCalled, text, chunk.calls)
  OBVIOUS
<1>3. PICK ended : ended = Chat!ResponsesFinish(called.sc, chunk.finish)
  OBVIOUS
<1>4. called = Chat!FoldLeft(LAMBDA o, call : Chat!Then(o, LAMBDA s : Chat!ResponsesCall(s, call)),
                             text, chunk.calls)
  BY <1>2 DEF FoldLeft, MapThenFoldSet, Max, Chat!FoldLeft, Chat!MapThenFoldSet, Chat!Max,
              ResponsesCalled
<1>5. out.sc = ended.sc /\ out.events = called.events \o ended.events
  BY <1>1, <1>3, <1>4 DEF Chat!ResponsesChoice, Chat!Then
<1>6. Tells(sc, called) /\ Learns(sc, called.sc, chunk.calls)
  BY <1>1, <1>2, ResponsesTextTells, ResponsesCallsTell
<1>7. /\ Finishes(called.sc, ended.sc, chunk.finish) /\ SameTools(called.sc, ended.sc)
      /\ Events("openai-response", {}, ended.events)
  BY <1>3, <1>6, ResponsesFinishes, NoEvents DEF Tells, SameEnd
<1>8. QED
  BY <1>5, <1>6, <1>7, MoreEvents DEF Tells, SameEnd, SameTools, Finishes, Learns

LEMMA ResponsesStartTells ==
  ASSUME NEW sc, IsChat(sc), sc.source = "openai-response", NEW chunk,
         NEW out, out = Chat!ResponsesStart(sc, chunk)
  PROVE  Tells(sc, out) /\ SameTools(sc, out.sc) /\ (chunk.choices => out.sc.started)
<1>1. CASE sc.started \/ ~chunk.choices
  <2>1. out.sc = sc /\ out.events = <<>>
    BY <1>1 DEF Chat!ResponsesStart, Chat!Quiet
  <2>2. QED
    BY <1>1, <2>1, NoEvents DEF Tells, SameEnd, SameTools
<1>2. CASE ~(sc.started \/ ~chunk.choices)
  <2>1. out.sc = [sc EXCEPT !.started = TRUE] /\ out.events = <<Created>>
    BY <1>2 DEF Chat!ResponsesStart, Chat!Created, Created
  <2>2. Readable(sc.source, {}, Created)
    BY DEF Readable, Mute, Created
  <2>3. Events(sc.source, {}, out.events)
    BY <2>1, <2>2, OneEvent
  <2>4. QED
    BY <2>1, <2>3 DEF Tells, SameEnd, SameTools, IsChat
<1>3. QED
  BY <1>1, <1>2

LEMMA ResponsesChunkTells ==
  ASSUME NEW sc, IsChat(sc), sc.source = "openai-response", NEW chunk, AtMostOne(chunk.calls),
         NEW v, sc.heldFinish # NoReason => Is(v.after, ResponsesSays(sc)),
         NEW out, out = Chat!ResponsesChunk(sc, chunk)
  PROVE  /\ Noted(sc, out.sc, chunk)
         /\ Events("openai-response", {v}, out.events)
         /\ sc.heldFinish # NoReason =>
              /\ Concluded("openai-response", out.events)
              /\ Informed("openai-response", out.events)
<1>1. PICK told : told = Chat!ResponsesTerminal(sc)
  OBVIOUS
<1>2. PICK start : start = Chat!ResponsesStart(told.sc, chunk)
  OBVIOUS
<1>3. PICK begun : begun = [sc |-> start.sc, events |-> told.events \o start.events]
  OBVIOUS
<1>4. PICK choice : choice = Chat!ResponsesChoice(begun.sc, chunk)
  OBVIOUS
<1>5. /\ Released(sc, told.sc)
      /\ Events("openai-response", {v}, told.events)
      /\ sc.heldFinish # NoReason =>
           /\ Concluded("openai-response", told.events)
           /\ Informed("openai-response", told.events)
  BY <1>1, ResponsesTerminalConcludes
<1>6. /\ Tells(told.sc, start) /\ SameTools(told.sc, start.sc)
      /\ chunk.choices => start.sc.started
  BY <1>2, <1>5, ResponsesStartTells DEF Released
<1>7. /\ Released(sc, begun.sc)
      /\ sc.started \/ chunk.choices => begun.sc.started
  BY <1>3, <1>5, <1>6 DEF Tells, Released, SameEnd, SameTools
<1>8. /\ Events("openai-response", {v}, begun.events)
      /\ sc.heldFinish # NoReason =>
           /\ Concluded("openai-response", begun.events)
           /\ Informed("openai-response", begun.events)
  <2>1. Events("openai-response", {v}, start.events)
    BY <1>5, <1>6, MuteEvents DEF Tells, Released
  <2>2. QED
    BY <1>3, <1>5, <2>1, MoreEvents, JoinedConclude, EventsIsSeq
<1>9. CASE ~chunk.choices
  <2>1. out = begun
    BY <1>1, <1>2, <1>3, <1>9 DEF Chat!ResponsesChunk, Chat!Then
  <2>2. QED
    BY <1>7, <1>8, <1>9, <2>1 DEF Noted, Released, SameTools, Learns
<1>10. CASE chunk.choices
  <2>1. begun.sc = start.sc /\ begun.events = told.events \o start.events
    BY <1>3
  <2>2. out.sc = choice.sc /\ out.events = begun.events \o choice.events
    BY <1>1, <1>2, <1>4, <1>10, <2>1 DEF Chat!ResponsesChunk, Chat!Then
  <2>3. /\ Finishes(begun.sc, choice.sc, chunk.finish) /\ Learns(begun.sc, choice.sc, chunk.calls)
        /\ Events("openai-response", {}, choice.events)
    BY <1>4, <1>7, ResponsesChoiceFinishes DEF Released
  <2>4. /\ Events("openai-response", {v}, out.events)
        /\ sc.heldFinish # NoReason =>
             /\ Concluded("openai-response", out.events)
             /\ Informed("openai-response", out.events)
    BY <1>8, <2>2, <2>3, MuteEvents, MoreEvents, JoinedConclude, EventsIsSeq
  <2>5. Noted(sc, out.sc, chunk)
    BY <1>7, <1>10, <2>2, <2>3 DEF Noted, Released, SameTools, Learns, Finishes
  <2>6. QED
    BY <2>4, <2>5
<1>11. QED
  BY <1>9, <1>10

LEMMA ResponsesFlushConcludes ==
  ASSUME NEW sc, IsChat(sc), sc.source = "openai-response", ~sc.flushed,
         NEW v, sc.heldFinish # NoReason => Is(v.after, ResponsesSays(sc)),
         NEW out, out = Chat!Flush(sc)
  PROVE  /\ Events("openai-response", {v}, out.events)
         /\ sc.heldFinish # NoReason =>
              /\ Concluded("openai-response", out.events)
              /\ Informed("openai-response", out.events)
<1>1. PICK once : once = [sc EXCEPT !.flushed = TRUE]
  OBVIOUS
<1>2. /\ IsChat(once) /\ once.source = sc.source /\ once.heldFinish = sc.heldFinish
      /\ once.usage = sc.usage
  BY <1>1 DEF IsChat
<1>3. ResponsesSays(once) = ResponsesSays(sc)
  BY <1>2 DEF ResponsesSays, Chat!UsageSeen
<1>4. out = Chat!ResponsesTerminal(once)
  BY <1>1 DEF Chat!Flush
<1>5. QED
  BY <1>2, <1>3, <1>4, ResponsesTerminalConcludes

-----------------------------------------------------------------------------
(* One line for that converter.                                            *)

IsChunk(line) == line.type = "chunk" /\ AtMostOne(line.calls)
KnownSource(source) == source \in {"openai", "claude", "openai-response"}

\* What the converter holds is what there is to know after the step.
Agreed(v, sc) ==
  sc.heldFinish # NoReason =>
    /\ sc.source = "claude" => Telling(v, ClaudeSays(sc))
    /\ sc.source = "openai-response" => Is(v.after, ResponsesSays(sc))

LEMMA DecodedSame ==
  ASSUME NEW sc, IsChat(sc), NEW line, NEW d, d = Chat!Decoded(sc, line)
  PROVE  /\ IsChat(d) /\ d.source = sc.source /\ d.done = sc.done /\ d.flushed = sc.flushed
         /\ d.finished = sc.finished /\ d.heldFinish = sc.heldFinish
         /\ d.terminalSent = sc.terminalSent /\ d.started = sc.started
         /\ d.toolOrder = sc.toolOrder
         /\ d.usage = IF line.usage = {} THEN sc.usage ELSE line.usage
BY DEF Chat!Decoded, IsChat

LEMMA ChatFeedTells ==
  ASSUME NEW sc, IsChat(sc), KnownSource(sc.source), NEW line, IsChunk(line),
         NEW d, d = Chat!Decoded(sc, line), NEW v, Agreed(v, d),
         sc.source = "openai" => Readable("openai", {v}, line),
         sc.source = "claude" => Early(sc, line, v),
         NEW out, out = Chat!Feed(sc, line)
  PROVE  /\ DOMAIN out = {"sc", "events", "done", "failed"}
         /\ ~out.failed /\ out.done = sc.done
         /\ Events(sc.source, {v}, out.events)
         /\ sc.source = "openai" => out.events = <<line>> /\ out.sc = sc
         /\ sc.source # "openai" => Noted(d, out.sc, line)
         /\ sc.source = "claude" => (out.sc.terminalSent <=> Due(sc))
         /\ sc.source # "openai" /\ sc.heldFinish # NoReason => Informed(sc.source, out.events)
         /\ sc.source = "openai-response" /\ sc.heldFinish # NoReason =>
              Concluded(sc.source, out.events)
<1>1. CASE sc.source = "openai"
  <2>1. out = [sc |-> sc, events |-> <<line>>, done |-> sc.done, failed |-> FALSE]
    BY <1>1 DEF Chat!Feed, Chat!Result, IsChunk
  <2>2. Events(sc.source, {v}, <<line>>)
    BY <1>1, OneEvent
  <2>3. QED
    BY <1>1, <2>1, <2>2
<1>2. /\ IsChat(d) /\ d.source = sc.source /\ d.done = sc.done
      /\ d.heldFinish = sc.heldFinish /\ d.terminalSent = sc.terminalSent
      /\ d.started = sc.started
  BY DecodedSame
<1>3. CASE sc.source = "claude"
  <2>1. PICK told : told = Chat!ClaudeChunk(d, line)
    OBVIOUS
  <2>2. out = [sc |-> told.sc, events |-> told.events, done |-> told.sc.done, failed |-> FALSE]
    BY <1>3, <2>1 DEF Chat!Feed, Chat!Result, IsChunk
  <2>3. /\ Noted(d, told.sc, line) /\ (told.sc.terminalSent <=> Due(d))
        /\ Events("claude", {v}, told.events)
        /\ d.heldFinish # NoReason => Informed("claude", told.events)
    <3>1. Early(d, line, v) /\ (d.heldFinish # NoReason => Telling(v, ClaudeSays(d)))
      BY <1>2, <1>3 DEF Early, Agreed
    <3>2. QED
      BY <1>2, <1>3, <2>1, <3>1, ClaudeChunkTells DEF IsChunk
  <2>4. QED
    BY <1>2, <1>3, <2>2, <2>3 DEF Noted, Due
<1>4. CASE sc.source = "openai-response"
  <2>1. PICK told : told = Chat!ResponsesChunk(d, line)
    OBVIOUS
  <2>2. out = [sc |-> told.sc, events |-> told.events, done |-> told.sc.done, failed |-> FALSE]
    BY <1>4, <2>1 DEF Chat!Feed, Chat!Result, IsChunk
  <2>3. /\ Noted(d, told.sc, line)
        /\ Events("openai-response", {v}, told.events)
        /\ d.heldFinish # NoReason =>
             /\ Concluded("openai-response", told.events)
             /\ Informed("openai-response", told.events)
    BY <1>2, <1>4, <2>1, ResponsesChunkTells DEF IsChunk, Agreed
  <2>4. QED
    BY <1>2, <1>4, <2>2, <2>3 DEF Noted
<1>5. QED
  BY <1>1, <1>3, <1>4 DEF KnownSource

\* After [DONE] the client has its terminal event, if one was due.
LEMMA ChatDoneConcludes ==
  ASSUME NEW sc, IsChat(sc), KnownSource(sc.source), NEW line, line.type = "done",
         NEW v, v.after.reason # NoReason, Agreed(v, sc),
         NEW out, out = Chat!Feed(sc, line)
  PROVE  /\ DOMAIN out = {"sc", "events", "done", "failed"} /\ out.done
         /\ Events(sc.source, {v}, out.events)
         /\ sc.source = "claude" => Concluded(sc.source, out.events)
         /\ sc.source # "openai" /\ sc.heldFinish # NoReason => Informed(sc.source, out.events)
         /\ sc.source = "openai-response" /\ sc.heldFinish # NoReason =>
              Concluded(sc.source, out.events)
<1>1. CASE sc.source = "openai"
  <2>1. PICK once : once = [sc EXCEPT !.done = TRUE]
    OBVIOUS
  <2>2. out = [sc |-> once, events |-> <<>>, done |-> once.done, failed |-> FALSE]
    BY <1>1, <2>1 DEF Chat!Feed, Chat!Result, Chat!Quiet
  <2>3. once.done = TRUE
    BY <2>1 DEF IsChat
  <2>4. QED
    BY <1>1, <2>2, <2>3, NoEvents
<1>2. CASE sc.source = "claude"
  <2>1. PICK told : told = Chat!ClaudeDone(sc)
    OBVIOUS
  <2>2. out = [sc |-> told.sc, events |-> told.events, done |-> told.sc.done, failed |-> FALSE]
    BY <1>2, <2>1 DEF Chat!Feed, Chat!Result
  <2>3. /\ told.sc.done /\ Events("claude", {v}, told.events) /\ Concluded("claude", told.events)
        /\ sc.heldFinish # NoReason => Informed("claude", told.events)
    BY <1>2, <2>1, ClaudeDoneConcludes DEF Agreed
  <2>4. QED
    BY <1>2, <2>2, <2>3
<1>3. CASE sc.source = "openai-response"
  <2>1. PICK once : once = [sc EXCEPT !.done = TRUE]
    OBVIOUS
  <2>2. /\ IsChat(once) /\ once.heldFinish = sc.heldFinish /\ once.done /\ once.usage = sc.usage
    BY <2>1 DEF IsChat
  <2>3. PICK told : told = Chat!ResponsesTerminal(once)
    OBVIOUS
  <2>4. out = [sc |-> told.sc, events |-> told.events, done |-> told.sc.done, failed |-> FALSE]
    BY <1>3, <2>1, <2>3 DEF Chat!Feed, Chat!Result
  <2>5. ResponsesSays(once) = ResponsesSays(sc)
    BY <2>2 DEF ResponsesSays, Chat!UsageSeen
  <2>6. /\ Released(once, told.sc) /\ Events("openai-response", {v}, told.events)
        /\ sc.heldFinish # NoReason =>
             /\ Concluded("openai-response", told.events)
             /\ Informed("openai-response", told.events)
    BY <1>3, <2>2, <2>3, <2>5, ResponsesTerminalConcludes DEF Agreed
  <2>7. QED
    BY <1>3, <2>2, <2>4, <2>6 DEF Released
<1>4. QED
  BY <1>1, <1>2, <1>3 DEF KnownSource

\* So has it after a stream that was cut.
LEMMA ChatFlushConcludes ==
  ASSUME NEW sc, IsChat(sc), KnownSource(sc.source), ~sc.flushed,
         NEW v, Agreed(v, sc), sc.source = "claude" /\ Due(sc) => v.after.reason # NoReason,
         NEW out, out = Chat!Flush(sc)
  PROVE  /\ Events(sc.source, {v}, out.events)
         /\ sc.source = "claude" /\ Due(sc) => Concluded(sc.source, out.events)
         /\ sc.source # "openai" /\ sc.heldFinish # NoReason => Informed(sc.source, out.events)
         /\ sc.source = "openai-response" /\ sc.heldFinish # NoReason =>
              Concluded(sc.source, out.events)
<1>1. CASE sc.source = "openai"
  <2>1. out.events = <<>>
    BY <1>1 DEF Chat!Flush, Chat!Quiet
  <2>2. QED
    BY <1>1, <2>1, NoEvents
<1>2. CASE sc.source = "claude"
  <2>1. /\ Events("claude", {v}, out.events)
        /\ Due(sc) => Concluded("claude", out.events)
        /\ sc.heldFinish # NoReason => Informed("claude", out.events)
    BY <1>2, ClaudeFlushConcludes DEF Agreed
  <2>2. QED
    BY <1>2, <2>1
<1>3. CASE sc.source = "openai-response"
  <2>1. /\ Events("openai-response", {v}, out.events)
        /\ sc.heldFinish # NoReason =>
             /\ Concluded("openai-response", out.events)
             /\ Informed("openai-response", out.events)
    BY <1>3, ResponsesFlushConcludes DEF Agreed
  <2>2. QED
    BY <1>3, <2>1
<1>4. QED
  BY <1>1, <1>2, <1>3 DEF KnownSource

-----------------------------------------------------------------------------
(* The converter of a Messages stream.                                     *)

\* A handler that leaves the counts and what was seen of calls as they are in base.
Dispatched(base, V, out) ==
  /\ DOMAIN out = {"sc", "events", "done", "failed"}
  /\ SameStream(base, out.sc)
  /\ Events(base.source, V, out.events)

LEMMA PutBounded ==
  ASSUME NEW D, Bounded(D), NEW k \in Nat
  PROVE  Bounded(D \cup {k})
<1>1. PICK N \in Nat : D \subseteq 0..N
  BY DEF Bounded
<1>2. D \cup {k} \subseteq 0..(N + k)
  BY <1>1
<1>3. N + k \in Nat
  OBVIOUS
<1>4. QED
  BY <1>2, <1>3 DEF Bounded

LEMMA OutDispatched ==
  ASSUME NEW base, NEW V, NEW d, SameStream(base, d), NEW events, Events(base.source, V, events),
         NEW done
  PROVE  Dispatched(base, V, Messages!Out(d, events, done))
BY DEF Dispatched, Messages!Out

LEMMA IgnoredDispatched ==
  ASSUME NEW base, NEW V, NEW d, SameStream(base, d)
  PROVE  Dispatched(base, V, Messages!Ignored(d)) /\ Dispatched(base, V, Messages!Failure(d))
<1>1. Events(base.source, V, <<>>)
  BY NoEvents
<1>2. Dispatched(base, V, Messages!Ignored(d))
  BY <1>1, OutDispatched DEF Messages!Ignored
<1>3. QED
  BY <1>2 DEF Dispatched, Messages!Failure

\* A handler that tells nothing of the end fits any step.
LEMMA MuteDispatched ==
  ASSUME NEW base, NEW out, Dispatched(base, {}, out), NEW V PROVE Dispatched(base, V, out)
BY MuteEvents DEF Dispatched

LEMMA CountedKeeps ==
  ASSUME NEW sc, IsMessages(sc), NEW usage,
         NEW d, d \in {Messages!Started(sc, usage), Messages!Counted(sc, usage)}
  PROVE  /\ SameStream(d, d)
         /\ d.source = sc.source /\ d.flushed = sc.flushed /\ d.emitted = sc.emitted
         /\ d.toolsSeen = sc.toolsSeen
BY DEF Messages!Started, Messages!Counted, Messages!CaptureCache, SameStream, SameCounts,
       IsMessages

\* A block is known under its number.
LEMMA PutSame ==
  ASSUME NEW sc, IsMessages(sc), NEW index \in Nat, NEW bs, NEW d, DOMAIN d = DOMAIN sc,
         d.blocks = Messages!Put(sc.blocks, index, bs), d.toolsSeen \in BOOLEAN
  PROVE  IsMessages(d)
<1>1. DOMAIN d.blocks = DOMAIN sc.blocks \cup {index}
  BY DEF Messages!Put
<1>2. Bounded(DOMAIN d.blocks)
  BY <1>1, PutBounded DEF IsMessages
<1>3. QED
  BY <1>2 DEF IsMessages

\* The start of a call is what there is to see of it.
Watched(sc, ev) == [sc EXCEPT !.toolsSeen = IF ev.kind = "tool_use" THEN TRUE ELSE @]

-----------------------------------------------------------------------------
(* To Chat Completions.                                                    *)

LEMMA FramesAreMute ==
  ASSUME NEW role, NEW content, NEW entry
  PROVE  /\ Readable("openai", {}, Messages!Frame(role, content, <<>>, Messages!NoReason, {}))
         /\ Readable("openai", {}, Messages!Frame(role, content, <<entry>>, Messages!NoReason, {}))
BY EmptyIsSeq, SingleIsSeq DEF Readable, Mute, Messages!Frame, Messages!NoReason, NoReason

LEMMA WithRoleDispatched ==
  ASSUME NEW base, base.source = "openai", NEW d, SameStream(base, d),
         NEW chunk, Readable("openai", {}, chunk)
  PROVE  Dispatched(base, {}, Messages!WithRole(d, chunk))
<1>1. PICK role : role = Messages!RoleChunk
  OBVIOUS
<1>2. Readable("openai", {}, role)
  BY <1>1, FramesAreMute DEF Messages!RoleChunk
<1>3. /\ Events("openai", {}, <<>>) /\ Events("openai", {}, <<role>>)
      /\ Events("openai", {}, <<chunk>>)
  BY <1>2, NoEvents, OneEvent
<1>4. Events("openai", {}, (IF d.roleSent THEN <<>> ELSE <<role>>) \o <<chunk>>)
  BY <1>3, MoreEvents
<1>5. PICK r : r = [d EXCEPT !.roleSent = TRUE]
  OBVIOUS
<1>6. SameStream(base, r)
  BY <1>5 DEF SameStream, SameCounts, IsMessages
<1>7. Messages!WithRole(d, chunk)
        = Messages!Out(r, (IF d.roleSent THEN <<>> ELSE <<role>>) \o <<chunk>>, FALSE)
  BY <1>1, <1>5 DEF Messages!WithRole
<1>8. QED
  BY <1>4, <1>6, <1>7, OutDispatched

LEMMA OpenAIBlockStartDispatched ==
  ASSUME NEW sc, IsMessages(sc), NEW ev, ev.index \in Nat
  PROVE  Dispatched(Watched(sc, ev), {}, Messages!OpenAIBlockStart(sc, ev))
<1> DEFINE call == ev.kind = "tool_use"
           bs   == [Messages!NewBlock(ev) EXCEPT !.ordinal = IF call THEN sc.toolOrdinal ELSE 0]
           d    == [sc EXCEPT !.toolOrdinal = IF call THEN @ + 1 ELSE @,
                              !.toolsSeen = @ \/ call,
                              !.blocks = Messages!Put(@, ev.index, bs)]
<1>1. Messages!OpenAIBlockStart(sc, ev) = Messages!Ignored(d)
  BY DEF Messages!OpenAIBlockStart
<1> HIDE DEF bs
<1>2. /\ DOMAIN d = DOMAIN sc /\ d.blocks = Messages!Put(sc.blocks, ev.index, bs)
      /\ d.source = sc.source /\ d.flushed = sc.flushed /\ d.emitted = sc.emitted
      /\ d.promptTokens = sc.promptTokens /\ d.completionTokens = sc.completionTokens
      /\ d.cacheRead = sc.cacheRead /\ d.cacheCreation = sc.cacheCreation
      /\ d.stopReason = sc.stopReason
      /\ d.toolsSeen = (sc.toolsSeen \/ ev.kind = "tool_use")
  BY DEF IsMessages
<1> HIDE DEF d
<1>3. d.toolsSeen = IF ev.kind = "tool_use" THEN TRUE ELSE sc.toolsSeen
  <2>1. CASE ev.kind = "tool_use"
    <3>1. (sc.toolsSeen \/ ev.kind = "tool_use") = TRUE
      BY <2>1
    <3>2. d.toolsSeen = TRUE
      BY <1>2, <3>1, Zenon
    <3>3. QED
      BY <2>1, <3>2
  <2>2. CASE ev.kind # "tool_use" /\ sc.toolsSeen = TRUE
    <3>1. (sc.toolsSeen \/ ev.kind = "tool_use") = TRUE
      BY <2>2
    <3>2. d.toolsSeen = TRUE
      BY <1>2, <3>1, Zenon
    <3>3. QED
      BY <2>2, <3>2
  <2>3. CASE ev.kind # "tool_use" /\ sc.toolsSeen = FALSE
    <3>1. (sc.toolsSeen \/ ev.kind = "tool_use") = FALSE
      BY <2>3
    <3>2. d.toolsSeen = FALSE
      BY <1>2, <3>1, Zenon
    <3>3. QED
      BY <2>3, <3>2
  <2>4. sc.toolsSeen = TRUE \/ sc.toolsSeen = FALSE
    <3>1. sc.toolsSeen \in BOOLEAN
      BY DEF IsMessages
    <3>2. QED
      BY <3>1, Zenon
  <2>5. QED
    BY <2>1, <2>2, <2>3, <2>4, Zenon
<1>4. IsMessages(d)
  <2>1. d.toolsSeen = (sc.toolsSeen \/ ev.kind = "tool_use")
    BY <1>2
  <2>2. d.toolsSeen \in BOOLEAN
    BY <2>1
  <2>3. QED
    BY <1>2, <2>2, PutSame
<1>5. SameStream(Watched(sc, ev), d)
  BY <1>2, <1>3, <1>4 DEF SameStream, SameCounts, Watched, IsMessages
<1>6. QED
  BY <1>1, <1>5, IgnoredDispatched

LEMMA OpenAIDeltaDispatched ==
  ASSUME NEW sc, IsMessages(sc), sc.source = "openai", NEW ev
  PROVE  Dispatched(sc, {}, Messages!OpenAIDelta(sc, ev))
<1>1. SameStream(sc, sc)
  BY DEF SameStream, SameCounts
<1>2. CASE ev.delta = "text_delta"
  <2>1. Readable("openai", {}, Messages!TextChunk(ev.piece))
    BY FramesAreMute DEF Messages!TextChunk
  <2>2. QED
    BY <1>1, <1>2, <2>1, WithRoleDispatched DEF Messages!OpenAIDelta
<1>3. CASE ev.delta = "input_json_delta" /\ ~Messages!IsCall(sc, ev.index)
  BY <1>1, <1>3, IgnoredDispatched DEF Messages!OpenAIDelta
<1>4. CASE ev.delta = "input_json_delta" /\ Messages!IsCall(sc, ev.index)
  <2> DEFINE bs == sc.blocks[ev.index]
  <2>1. PICK entry : entry = IF bs.emitted THEN Messages!Continuation(bs.ordinal, ev.piece)
             ELSE Messages!CCToolCallOpeningEntry(bs.ordinal, bs.id, bs.name, ev.piece)
    OBVIOUS
  <2>2. PICK d : d = [sc EXCEPT !.blocks[ev.index].emitted = TRUE]
    OBVIOUS
  <2>3. Messages!OpenAIDelta(sc, ev) = Messages!WithRole(d, Messages!CallChunk(entry))
    BY <1>4, <2>1, <2>2 DEF Messages!OpenAIDelta
  <2>4. SameStream(sc, d)
    BY <2>2 DEF SameStream, SameCounts, IsMessages
  <2>5. Readable("openai", {}, Messages!CallChunk(entry))
    BY FramesAreMute DEF Messages!CallChunk
  <2>6. QED
    BY <2>3, <2>4, <2>5, WithRoleDispatched
<1>5. CASE ev.delta \notin {"text_delta", "input_json_delta"}
  BY <1>1, <1>5, IgnoredDispatched DEF Messages!OpenAIDelta
<1>6. QED
  BY <1>2, <1>3, <1>4, <1>5

\* What it makes of the upstream's reason and usage.
OpenAISays(sc, ev) ==
  LET counted == Messages!Counted(sc, Messages!UsageOf(ev))
  IN  [reason |-> TerminalReason(sc.toolsSeen, "tool_calls", ClaudeStopToFinish(ev.reason)),
       usage |-> CCUsageFrom(Messages!AllInput(counted), counted.completionTokens,
                             counted.cacheRead)]

\* The last chunk of a Chat Completions client has both.
LEMMA OpenAIMessageDeltaConcludes ==
  ASSUME NEW sc, IsMessages(sc), sc.source = "openai", NEW ev,
         NEW v, Is(v.after, OpenAISays(sc, ev)),
         NEW counted, counted = Messages!Counted(sc, Messages!UsageOf(ev)),
         NEW out, out = Messages!OpenAIMessageDelta(sc, ev)
  PROVE  /\ Dispatched(counted, {v}, out)
         /\ Concluded("openai", out.events) /\ Informed("openai", out.events)
<1>1. SameStream(counted, counted) /\ counted.source = "openai"
  BY CountedKeeps
<1>2. PICK reason : reason = Messages!TerminalReason(sc.toolsSeen, "tool_calls",
                               Messages!ClaudeStopToFinish(ev.reason))
  OBVIOUS
<1>3. reason # NoReason
  BY <1>2 DEF Messages!TerminalReason, Messages!ClaudeStopToFinish, NoReason
<1>4. PICK usage : usage = Messages!CCUsageFrom(Messages!AllInput(counted),
                             counted.completionTokens, counted.cacheRead)
  OBVIOUS
<1>5. PICK e : e = Messages!Finish(reason, {usage})
  OBVIOUS
<1>6. out = Messages!Out(counted, <<e>>, FALSE)
  BY <1>2, <1>4, <1>5 DEF Messages!OpenAIMessageDelta
<1>7. /\ e.type = "chunk" /\ e.calls = <<>> /\ e.finish = reason /\ e.usage = {usage}
  BY <1>5 DEF Messages!Finish, Messages!Frame
<1>8. v.after.reason = reason /\ v.after.usage = usage
  BY <1>2, <1>4 DEF Is, OpenAISays, Messages!TerminalReason, TerminalReason,
     Messages!ClaudeStopToFinish, ClaudeStopToFinish, Messages!CCUsageFrom, CCUsageFrom
<1>9. Truthful("openai", v, e)
  BY <1>3, <1>7, <1>8, EmptyIsSeq DEF Truthful
<1>10. Events("openai", {v}, <<e>>)
  BY <1>9, OneEvent DEF Readable
<1>11. Final("openai", e) /\ Informs("openai", e)
  BY <1>3, <1>7 DEF Final, Informs
<1>12. Concluded("openai", <<e>>) /\ Informed("openai", <<e>>)
  BY <1>11, OneConcludes
<1>13. out.events = <<e>>
  BY <1>6 DEF Messages!Out
<1>14. QED
  BY <1>1, <1>6, <1>10, <1>12, <1>13, OutDispatched

-----------------------------------------------------------------------------
(* To Responses.                                                           *)

\* outputItems goes through the blocks by their numbers.
BlocksPlaced(sc) ==
  MapThenFoldSet(LAMBDA bs, oa : PlacedBlock(oa, bs), NewOutputAssembler(sc.names),
                 LAMBDA i : sc.blocks[i], Max, DOMAIN sc.blocks)

LEMMA BlocksPlacedIsAssembler ==
  ASSUME NEW sc, IsMessages(sc)
  PROVE  IsAssembler(BlocksPlaced(sc))
<1>1. PICK base : base = NewOutputAssembler(sc.names)
  OBVIOUS
<1>2. BlocksPlaced(sc) = Folded("blocks", base, sc.blocks, sc)
  BY <1>1 DEF BlocksPlaced, MapThenFoldSet, Folded, Fold, Round
<1>3. Good("blocks", base, sc)
  BY <1>1, NewIsAssembler DEF Good
<1>4. Bounded(DOMAIN sc.blocks)
  BY DEF IsMessages
<1>5. ASSUME NEW i \in DOMAIN sc.blocks
      PROVE  Keeps("blocks", sc.blocks[i], sc)
  <2>1. ASSUME NEW acc, IsAssembler(acc), NEW x
        PROVE  IsAssembler(PlacedBlock(acc, x))
    BY <2>1, ReservedIsAssembler, WithTextIsAssembler, WithCallIsAssembler DEF PlacedBlock
  <2>2. QED
    BY <2>1 DEF Keeps, Good, Round
<1>6. Good("blocks", BlocksPlaced(sc), sc)
  BY <1>2, <1>3, <1>4, <1>5, FoldKeeps
<1>7. QED
  BY <1>6 DEF Good

LEMMA MessagesOutputItems ==
  ASSUME NEW sc
  PROVE  Messages!OutputItems(sc) = Render(BlocksPlaced(sc))
BY DEF Messages!OutputItems, BlocksPlaced, PlacedBlock, Messages!MapThenFoldSet, MapThenFoldSet,
       Messages!Max, Max, Messages!Render, Render, Messages!AddText, AddText,
       Messages!ReserveTextSlot, ReserveTextSlot, Messages!AppendFunctionCall,
       AppendFunctionCall, Messages!NewOutputAssembler, NewOutputAssembler,
       Messages!DefaultArgs, DefaultArgs, Messages!RestoreCall, RestoreCall,
       Messages!FunctionCall, FunctionCall, Messages!Item, Item, Messages!Message, Message,
       Messages!Identity, Identity, Messages!UnwrapCustomToolInput, UnwrapCustomToolInput,
       Messages!EmptyObject, EmptyObject, Messages!Whole, Whole, Messages!Input, Input,
       Messages!NoId, NoId, Messages!NoNamespace, NoNamespace, Messages!MessageId, MessageId

LEMMA MessagesItemsDone ==
  ASSUME NEW items
  PROVE  Messages!ItemsDone(items) = ItemsDone(items)
BY DEF Messages!ItemsDone, ItemsDone, Messages!FoldLeftDomain, FoldLeftDomain,
       Messages!FoldLeft, FoldLeft, Messages!MapThenFoldSet, MapThenFoldSet, Messages!Max, Max,
       Messages!MessageDone, MessageDone, Messages!ToolDone, ToolDone, Messages!TextDone,
       TextDone, Messages!ContentPartDone, ContentPartDone, Messages!ItemDone, ItemDone,
       Messages!InputDone, InputDone, Messages!ArgsDone, ArgsDone, Messages!About, About

\* What it makes of the upstream's reason and usage.
CompletedSays(sc) ==
  [reason |-> ResponseStatusFromClaudeStop(sc.stopReason),
   usage |-> NewResponsesUsageFrom(Messages!AllInput(sc), sc.completionTokens, sc.cacheRead,
                                   sc.cacheCreation)]

LEMMA MessagesCompletedConcludes ==
  ASSUME NEW sc, IsMessages(sc), NEW v, Is(v.after, CompletedSays(sc)),
         NEW events, events = Messages!ResponsesCompleted(sc)
  PROVE  /\ Events("openai-response", {v}, events)
         /\ Concluded("openai-response", events) /\ Informed("openai-response", events)
<1>1. PICK items : items = Messages!OutputItems(sc)
  OBVIOUS
<1>2. IsSeq(items)
  BY <1>1, MessagesOutputItems, BlocksPlacedIsAssembler, RenderedIsSeq
<1> DEFINE state == Messages!ResponseStatusFromClaudeStop(sc.stopReason)
           total == Messages!NewResponsesUsageFrom(Messages!AllInput(sc), sc.completionTokens,
                      sc.cacheRead, sc.cacheCreation)
<1>3. PICK e : e = Messages!Completed(state, total, items)
  OBVIOUS
<1>4. events = Messages!ItemsDone(items) \o <<e>>
  BY <1>1, <1>3 DEF Messages!ResponsesCompleted
<1>5. e.type = "response.completed" /\ e.status = state /\ e.usage = {total}
  BY <1>3 DEF Messages!Completed
<1>6. state = v.after.reason /\ total = v.after.usage /\ state # NoReason
  BY DEF Is, CompletedSays, Messages!ResponseStatusFromClaudeStop, ResponseStatusFromClaudeStop,
     Messages!NewResponsesUsageFrom, NewResponsesUsageFrom, NoReason
<1>7. Truthful("openai-response", v, e)
  BY <1>5, <1>6 DEF Truthful
<1>8. events = ItemsDone(items) \o <<e>>
  BY <1>4, MessagesItemsDone
<1>9. QED
  BY <1>2, <1>7, <1>8, CompletedConcludes

LEMMA AddedIsMute ==
  ASSUME NEW names, NEW index, NEW item
  PROVE  Events("openai-response", {}, <<Messages!ItemAdded(names, index, item)>>)
<1>1. Readable("openai-response", {}, Messages!ItemAdded(names, index, item))
  BY DEF Readable, Mute, Messages!ItemAdded, Messages!RawItemAdded
<1>2. QED
  BY <1>1, OneEvent

LEMMA ResponsesBlockStartDispatched ==
  ASSUME NEW sc, IsMessages(sc), sc.source = "openai-response", NEW ev, ev.index \in Nat
  PROVE  Dispatched(Watched(sc, ev), {}, Messages!ResponsesBlockStart(sc, ev))
<1> DEFINE bs    == [Messages!NewBlock(ev) EXCEPT
                       !.outIdx = IF ev.kind = "tool_use" THEN sc.outCount ELSE 0]
           known == [sc EXCEPT !.blocks = Messages!Put(@, ev.index, bs)]
           said1 == [known EXCEPT !.msgIdx = sc.outCount, !.outCount = @ + 1]
           call1 == [known EXCEPT !.toolsSeen = TRUE, !.outCount = @ + 1]
           message == Messages!ItemAdded(sc.names, sc.outCount, Messages!Message(<<>>))
           call    == Messages!ItemAdded(sc.names, sc.outCount,
                        Messages!FunctionCall(ev.id, ev.name, <<>>))
           base    == Watched(sc, ev)
<1>1. \/ /\ Messages!ResponsesBlockStart(sc, ev) = Messages!Out(said1, <<message>>, FALSE)
         /\ ev.kind # "tool_use"
      \/ /\ Messages!ResponsesBlockStart(sc, ev) = Messages!Out(call1, <<call>>, FALSE)
         /\ ev.kind = "tool_use"
      \/ /\ Messages!ResponsesBlockStart(sc, ev) = Messages!Ignored(known)
         /\ ev.kind # "tool_use"
  BY DEF Messages!ResponsesBlockStart
<1>2. Events("openai-response", {}, <<message>>) /\ Events("openai-response", {}, <<call>>)
  BY AddedIsMute
<1> HIDE DEF bs, message, call
<1>3. SameStream(sc, known)
  <2>1. /\ DOMAIN known = DOMAIN sc /\ known.blocks = Messages!Put(sc.blocks, ev.index, bs)
        /\ known.toolsSeen = sc.toolsSeen
    BY DEF IsMessages
  <2>2. IsMessages(known)
    <3> HIDE DEF known
    <3>1. QED
      BY <2>1, PutSame DEF IsMessages
  <2>3. QED
    BY <2>2 DEF SameStream, SameCounts, IsMessages
<1> HIDE DEF known
<1>4. /\ ev.kind # "tool_use" => SameStream(base, known) /\ SameStream(base, said1)
      /\ ev.kind = "tool_use" => SameStream(base, call1)
      /\ base.source = "openai-response"
  BY <1>3 DEF SameStream, SameCounts, IsMessages, Watched
<1> HIDE DEF said1, call1, base
<1>5. Dispatched(base, {}, Messages!ResponsesBlockStart(sc, ev))
  BY <1>1, <1>2, <1>4, OutDispatched, IgnoredDispatched
<1>6. QED
  BY <1>5 DEF base

LEMMA ResponsesTextDeltaDispatched ==
  ASSUME NEW sc, IsMessages(sc), sc.source = "openai-response", NEW ev
  PROVE  Dispatched(sc, {}, Messages!ResponsesTextDelta(sc, ev))
<1>1. PICK d : d = IF ev.index \in DOMAIN sc.blocks
                   THEN [sc EXCEPT !.blocks[ev.index].text = @ \o ev.piece] ELSE sc
  OBVIOUS
<1>2. PICK e : e = Messages!TextDelta(Messages!MessageId,
                     IF sc.msgIdx >= 0 THEN sc.msgIdx ELSE ev.index, ev.piece)
  OBVIOUS
<1>3. Messages!ResponsesTextDelta(sc, ev) = Messages!Out(d, <<e>>, FALSE)
  BY <1>1, <1>2 DEF Messages!ResponsesTextDelta
<1>4. SameStream(sc, d)
  BY <1>1 DEF SameStream, SameCounts, IsMessages
<1>5. Readable("openai-response", {}, e)
  BY <1>2 DEF Readable, Mute, Messages!TextDelta, Messages!About
<1>6. Events(sc.source, {}, <<e>>)
  BY <1>5, OneEvent
<1>7. QED
  BY <1>3, <1>4, <1>6, OutDispatched

LEMMA MessagesToolDelta ==
  ASSUME NEW names, NEW id, NEW index, NEW name, NEW fragment, NEW accumulated, NEW emitted
  PROVE  Messages!ToolDelta(names, id, index, name, fragment, accumulated, emitted)
           = ToolDelta(names, id, index, name, fragment, accumulated, emitted)
BY DEF Messages!ToolDelta, ToolDelta, Messages!Identity, Identity,
       Messages!UnwrapCustomToolInput, UnwrapCustomToolInput, Messages!ArgsDelta, ArgsDelta,
       Messages!InputDelta, InputDelta, Messages!About, About, Messages!Whole, Whole,
       Messages!Input, Input, Messages!NoNamespace, NoNamespace

LEMMA ResponsesArgsDeltaDispatched ==
  ASSUME NEW sc, IsMessages(sc), sc.source = "openai-response", NEW ev
  PROVE  Dispatched(sc, {}, Messages!ResponsesArgsDelta(sc, ev))
<1>1. SameStream(sc, sc)
  BY DEF SameStream, SameCounts
<1>2. CASE ~Messages!IsCall(sc, ev.index)
  BY <1>1, <1>2, IgnoredDispatched DEF Messages!ResponsesArgsDelta
<1>3. CASE Messages!IsCall(sc, ev.index)
  <2>1. PICK bs : bs = sc.blocks[ev.index]
    OBVIOUS
  <2>2. PICK args : args = bs.args \o ev.piece
    OBVIOUS
  <2>3. PICK delta : delta = Messages!ToolDelta(sc.names, bs.id, bs.outIdx, bs.name, ev.piece,
                                                args, bs.inputEmitted)
    OBVIOUS
  <2>4. PICK d : d = [sc EXCEPT !.blocks[ev.index].args = args,
                                !.blocks[ev.index].inputEmitted = delta.emitted]
    OBVIOUS
  <2>5. Messages!ResponsesArgsDelta(sc, ev) = Messages!Out(d, delta.events, FALSE)
    BY <1>3, <2>1, <2>2, <2>3, <2>4 DEF Messages!ResponsesArgsDelta
  <2>6. SameStream(sc, d)
    BY <2>4 DEF SameStream, SameCounts, IsMessages
  <2>7. Events(sc.source, {}, delta.events)
    BY <2>3, MessagesToolDelta, ToolDeltaMute
  <2>8. QED
    BY <2>5, <2>6, <2>7, OutDispatched
<1>4. QED
  BY <1>2, <1>3

-----------------------------------------------------------------------------
(* One frame for that converter.                                           *)

IsFrame(ev) == ev.type = "content_block_start" => ev.index \in Nat

\* What it counts and sees of a frame.
Counting(sc, ev) ==
  CASE sc.source = "claude"              -> sc
    [] sc.source # "claude" /\ ev.type = "message_start" ->
         Messages!Started(sc, Messages!UsageOf(ev))
    [] sc.source # "claude" /\ ev.type = "content_block_start" -> Watched(sc, ev)
    [] sc.source = "openai" /\ ev.type = "message_delta" ->
         Messages!Counted(sc, Messages!UsageOf(ev))
    [] sc.source = "openai-response" /\ ev.type = "message_delta" ->
         [Messages!Counted(sc, Messages!UsageOf(ev)) EXCEPT !.stopReason = ev.reason]
    [] OTHER -> sc

LEMMA DispatchOpenAIDispatched ==
  ASSUME NEW sc, IsMessages(sc), sc.source = "openai", NEW ev, IsFrame(ev),
         NEW V, ev.type = "message_delta" => \E v \in V : Is(v.after, OpenAISays(sc, ev)),
         NEW base, base = Counting(sc, ev), NEW out, out = Messages!DispatchOpenAI(sc, ev)
  PROVE  /\ Dispatched(base, V, out)
         /\ ev.type = "message_delta" =>
              Concluded("openai", out.events) /\ Informed("openai", out.events)
<1>1. SameStream(sc, sc)
  BY DEF SameStream, SameCounts
<1>2. CASE ev.type = "message_start"
  <2>1. PICK role : role = Messages!RoleChunk
    OBVIOUS
  <2>2. base = Messages!Started(sc, Messages!UsageOf(ev))
    BY <1>2 DEF Counting
  <2>3. PICK d : d = [base EXCEPT !.roleSent = TRUE]
    OBVIOUS
  <2>4. out = Messages!Out(d, IF sc.roleSent THEN <<>> ELSE <<role>>, FALSE)
    BY <1>2, <2>1, <2>2, <2>3 DEF Messages!DispatchOpenAI
  <2>5. SameStream(base, base) /\ base.source = "openai"
    BY <2>2, CountedKeeps
  <2>6. SameStream(base, d)
    BY <2>3, <2>5 DEF SameStream, SameCounts, IsMessages
  <2>7. Readable("openai", {}, role)
    BY <2>1, FramesAreMute DEF Messages!RoleChunk
  <2>8. Events(base.source, {}, IF sc.roleSent THEN <<>> ELSE <<role>>)
    BY <2>5, <2>7, NoEvents, OneEvent
  <2>9. QED
    BY <1>2, <2>4, <2>6, <2>8, OutDispatched, MuteDispatched
<1>3. CASE ev.type = "content_block_start"
  <2>1. base = Watched(sc, ev)
    BY <1>3 DEF Counting
  <2>2. QED
    BY <1>3, <2>1, OpenAIBlockStartDispatched, MuteDispatched DEF Messages!DispatchOpenAI, IsFrame
<1>4. CASE ev.type \notin {"message_start", "content_block_start", "message_delta"}
  <2>1. base = sc
    BY <1>4 DEF Counting
  <2>2. CASE ev.type = "content_block_delta"
    BY <2>1, <2>2, OpenAIDeltaDispatched, MuteDispatched DEF Messages!DispatchOpenAI
  <2>3. CASE ev.type = "message_stop"
    BY <1>1, <2>1, <2>3, NoEvents, OutDispatched DEF Messages!DispatchOpenAI
  <2>4. CASE ev.type \notin {"content_block_delta", "message_stop"}
    BY <1>1, <1>4, <2>1, <2>4, IgnoredDispatched DEF Messages!DispatchOpenAI
  <2>5. QED
    BY <1>4, <2>2, <2>3, <2>4
<1>5. CASE ev.type = "message_delta"
  <2>1. base = Messages!Counted(sc, Messages!UsageOf(ev))
    BY <1>5 DEF Counting
  <2>2. PICK v \in V : Is(v.after, OpenAISays(sc, ev))
    BY <1>5
  <2>3. out = Messages!OpenAIMessageDelta(sc, ev)
    BY <1>5 DEF Messages!DispatchOpenAI
  <2>4. /\ Dispatched(base, {v}, out)
        /\ Concluded("openai", out.events) /\ Informed("openai", out.events)
    BY <2>1, <2>2, <2>3, OpenAIMessageDeltaConcludes
  <2>5. Events(base.source, V, out.events)
    BY <2>4, WiderEvents DEF Dispatched
  <2>6. QED
    BY <2>4, <2>5 DEF Dispatched
<1>6. QED
  BY <1>2, <1>3, <1>4, <1>5

LEMMA DispatchResponsesDispatched ==
  ASSUME NEW sc, IsMessages(sc), sc.source = "openai-response", NEW ev, IsFrame(ev),
         NEW V, ev.type = "message_stop" => \E v \in V : Is(v.after, CompletedSays(sc)),
         NEW base, base = Counting(sc, ev), NEW out, out = Messages!DispatchResponses(sc, ev)
  PROVE  /\ Dispatched(base, V, out)
         /\ ev.type = "message_start" => out.events # <<>>
         /\ ev.type = "message_delta" => ~out.done
         /\ ev.type = "error" => out.failed
         /\ ev.type = "message_stop" =>
              Concluded("openai-response", out.events) /\ Informed("openai-response", out.events)
<1>1. SameStream(sc, sc)
  BY DEF SameStream, SameCounts
<1>2. CASE ev.type = "message_start"
  <2>1. PICK created : created = Messages!Created
    OBVIOUS
  <2>2. base = Messages!Started(sc, Messages!UsageOf(ev))
    BY <1>2 DEF Counting
  <2>3. out = Messages!Out(base, <<created>>, FALSE)
    BY <1>2, <2>1, <2>2 DEF Messages!DispatchResponses
  <2>4. SameStream(base, base) /\ base.source = "openai-response"
    BY <2>2, CountedKeeps
  <2>5. Readable("openai-response", {}, created)
    BY <2>1 DEF Readable, Mute, Messages!Created
  <2>6. Events(base.source, {}, <<created>>)
    BY <2>4, <2>5, OneEvent
  <2>7. out.events # <<>>
    BY <2>3 DEF Messages!Out
  <2>8. QED
    BY <1>2, <2>3, <2>4, <2>6, <2>7, OutDispatched, MuteDispatched
<1>3. CASE ev.type = "content_block_start"
  <2>1. base = Watched(sc, ev)
    BY <1>3 DEF Counting
  <2>2. QED
    BY <1>3, <2>1, ResponsesBlockStartDispatched, MuteDispatched
    DEF Messages!DispatchResponses, IsFrame
<1>4. CASE ev.type \notin {"message_start", "content_block_start", "message_delta",
                           "message_stop", "error"}
  <2>1. base = sc
    BY <1>4 DEF Counting
  <2>2. CASE ev.type = "content_block_delta" /\ ev.delta = "text_delta"
    BY <2>1, <2>2, ResponsesTextDeltaDispatched, MuteDispatched DEF Messages!DispatchResponses
  <2>3. CASE ev.type = "content_block_delta" /\ ev.delta = "input_json_delta"
    BY <2>1, <2>3, ResponsesArgsDeltaDispatched, MuteDispatched DEF Messages!DispatchResponses
  <2>4. CASE ev.type = "content_block_delta" =>
               ev.delta \notin {"text_delta", "input_json_delta"}
    BY <1>1, <1>4, <2>1, <2>4, IgnoredDispatched DEF Messages!DispatchResponses
  <2>5. QED
    BY <1>4, <2>2, <2>3, <2>4
<1>5. CASE ev.type = "message_delta"
  <2>1. base = [Messages!Counted(sc, Messages!UsageOf(ev)) EXCEPT !.stopReason = ev.reason]
    BY <1>5 DEF Counting
  <2>2. out = Messages!Ignored(base)
    BY <1>5, <2>1 DEF Messages!DispatchResponses
  <2>3. PICK counted : counted = Messages!Counted(sc, Messages!UsageOf(ev))
    OBVIOUS
  <2>4. SameStream(counted, counted)
    BY <2>3, CountedKeeps
  <2>5. SameStream(base, base)
    BY <2>1, <2>3, <2>4 DEF SameStream, SameCounts, IsMessages
  <2>6. ~out.done
    BY <2>2 DEF Messages!Ignored, Messages!Out
  <2>7. QED
    BY <1>5, <2>2, <2>5, <2>6, IgnoredDispatched
<1>6. CASE ev.type = "message_stop"
  <2>1. base = sc
    BY <1>6 DEF Counting
  <2>2. PICK events : events = Messages!ResponsesCompleted(sc)
    OBVIOUS
  <2>3. out = Messages!Out(sc, events, TRUE)
    BY <1>6, <2>2 DEF Messages!DispatchResponses
  <2>4. PICK v \in V : Is(v.after, CompletedSays(sc))
    BY <1>6
  <2>5. /\ Events("openai-response", {v}, events)
        /\ Concluded("openai-response", events) /\ Informed("openai-response", events)
    BY <2>2, <2>4, MessagesCompletedConcludes
  <2>6. Events(sc.source, V, events)
    BY <2>5, WiderEvents
  <2>7. out.events = events
    BY <2>3 DEF Messages!Out
  <2>8. QED
    BY <1>1, <1>6, <2>1, <2>3, <2>5, <2>6, <2>7, OutDispatched
<1>7. CASE ev.type = "error"
  <2>1. base = sc /\ out = Messages!Failure(sc)
    BY <1>7 DEF Counting, Messages!DispatchResponses
  <2>2. out.failed
    BY <2>1 DEF Messages!Failure, Messages!Ignored, Messages!Out
  <2>3. QED
    BY <1>1, <1>7, <2>1, <2>2, IgnoredDispatched
<1>8. QED
  BY <1>2, <1>3, <1>4, <1>5, <1>6, <1>7

\* An event that tells of a step out of V, in the light of what was counted before.
Tidings(sc, V, ev) ==
  /\ sc.source = "claude" => Readable("claude", V, ev)
  /\ sc.source = "openai" /\ ev.type = "message_delta" =>
       \E v \in V : Is(v.after, OpenAISays(sc, ev))
  /\ sc.source = "openai-response" /\ ev.type = "message_stop" =>
       \E v \in V : Is(v.after, CompletedSays(sc))

\* A Chat Completions client gets both with the upstream's, a Responses client at the end.
LEMMA MessagesFeedTells ==
  ASSUME NEW sc, IsMessages(sc), KnownSource(sc.source), NEW ev, IsFrame(ev), NEW V,
         Tidings(sc, V, ev),
         NEW base, base = Counting(sc, ev), NEW out, out = Messages!Feed(sc, ev)
  PROVE  /\ DOMAIN out = {"sc", "events", "done", "failed"}
         /\ SameStream(base, out.sc)
         /\ Events(sc.source, V, out.events)
         /\ sc.source = "claude" /\ ev.type # "error" => out.events = <<ev>>
         /\ sc.source = "openai" /\ ev.type = "message_delta" =>
              Concluded("openai", out.events) /\ Informed("openai", out.events)
         /\ sc.source = "openai-response" =>
              /\ ev.type = "message_start" => out.sc.emitted
              /\ ev.type = "message_delta" => ~out.done
              /\ ev.type = "error" => out.failed
              /\ ev.type = "message_stop" =>
                   Concluded(sc.source, out.events) /\ Informed(sc.source, out.events)
<1>1. PICK told : told = CASE sc.source = "claude" -> Messages!DispatchClaude(sc, ev)
                           [] sc.source = "openai" -> Messages!DispatchOpenAI(sc, ev)
                           [] OTHER                -> Messages!DispatchResponses(sc, ev)
  OBVIOUS
<1>2. out = [told EXCEPT !.sc.emitted = @ \/ told.events # <<>>]
  BY <1>1 DEF Messages!Feed
<1>3. base.source = sc.source
  <2>1. ASSUME NEW usage
        PROVE  /\ Messages!Started(sc, usage).source = sc.source
               /\ Messages!Counted(sc, usage).source = sc.source
               /\ DOMAIN Messages!Counted(sc, usage) = DOMAIN sc
    BY CountedKeeps DEF SameStream, SameCounts, IsMessages
  <2>2. QED
    BY <2>1 DEF Counting, Watched, IsMessages
<1>4. /\ Dispatched(base, V, told)
      /\ sc.source = "claude" /\ ev.type # "error" => told.events = <<ev>>
      /\ sc.source = "openai" /\ ev.type = "message_delta" =>
           Concluded("openai", told.events) /\ Informed("openai", told.events)
      /\ sc.source = "openai-response" =>
           /\ ev.type = "message_start" => told.events # <<>>
           /\ ev.type = "message_delta" => ~told.done
           /\ ev.type = "error" => told.failed
           /\ ev.type = "message_stop" =>
                Concluded(sc.source, told.events) /\ Informed(sc.source, told.events)
  <2>1. CASE sc.source = "claude"
    <3>1. told = Messages!DispatchClaude(sc, ev) /\ base = sc
      BY <1>1, <2>1 DEF Counting
    <3>2. SameStream(sc, sc)
      BY DEF SameStream, SameCounts
    <3>3. Events(sc.source, V, <<ev>>)
      BY <2>1, OneEvent DEF Tidings
    <3>4. Dispatched(sc, V, told)
      BY <3>1, <3>2, <3>3, OutDispatched, IgnoredDispatched DEF Messages!DispatchClaude
    <3>5. ev.type # "error" => told.events = <<ev>>
      BY <3>1 DEF Messages!DispatchClaude, Messages!Out
    <3>6. QED
      BY <2>1, <3>1, <3>4, <3>5
  <2>2. CASE sc.source = "openai"
    <3>1. told = Messages!DispatchOpenAI(sc, ev)
      BY <1>1, <2>2
    <3>2. ev.type = "message_delta" => \E v \in V : Is(v.after, OpenAISays(sc, ev))
      BY <2>2 DEF Tidings
    <3>3. QED
      BY <2>2, <3>1, <3>2, DispatchOpenAIDispatched
  <2>3. CASE sc.source = "openai-response"
    <3>1. told = Messages!DispatchResponses(sc, ev)
      BY <1>1, <2>3
    <3>2. ev.type = "message_stop" => \E v \in V : Is(v.after, CompletedSays(sc))
      BY <2>3 DEF Tidings
    <3>3. QED
      BY <2>3, <3>1, <3>2, DispatchResponsesDispatched
  <2>4. QED
    BY <2>1, <2>2, <2>3 DEF KnownSource
<1>5. PICK before, sent1 : before = told.sc /\ sent1 = (told.events # <<>>)
  OBVIOUS
<1>6. /\ DOMAIN out = DOMAIN told /\ out.events = told.events
      /\ out.done = told.done /\ out.failed = told.failed
      /\ out.sc = [before EXCEPT !.emitted = @ \/ sent1]
  BY <1>2, <1>4, <1>5 DEF Dispatched
<1>7. SameStream(base, before)
  BY <1>4, <1>5 DEF Dispatched
<1>8. SameStream(base, out.sc) /\ (sent1 => out.sc.emitted)
  BY <1>6, <1>7 DEF SameStream, SameCounts, IsMessages
<1>9. QED
  BY <1>3, <1>4, <1>5, <1>6, <1>8 DEF Dispatched

LEMMA MessagesFlushConcludes ==
  ASSUME NEW sc, IsMessages(sc), KnownSource(sc.source), ~sc.flushed, NEW V,
         sc.source = "openai-response" /\ sc.emitted => \E v \in V : Is(v.after, CompletedSays(sc)),
         NEW out, out = Messages!Flush(sc)
  PROVE  /\ Events(sc.source, V, out.events)
         /\ sc.source = "openai-response" /\ sc.emitted =>
              Concluded(sc.source, out.events) /\ Informed(sc.source, out.events)
<1>1. CASE sc.emitted /\ sc.source = "openai-response"
  <2>1. out.events = Messages!ResponsesCompleted(sc)
    BY <1>1 DEF Messages!Flush, Messages!Out
  <2>2. PICK v \in V : Is(v.after, CompletedSays(sc))
    BY <1>1
  <2>3. /\ Events("openai-response", {v}, out.events)
        /\ Concluded("openai-response", out.events) /\ Informed("openai-response", out.events)
    BY <2>1, <2>2, MessagesCompletedConcludes
  <2>4. QED
    BY <1>1, <2>3, WiderEvents
<1>2. CASE ~(sc.emitted /\ sc.source = "openai-response")
  <2>1. out.events = <<>>
    BY <1>2 DEF Messages!Flush, Messages!Out
  <2>2. QED
    BY <1>2, <2>1, NoEvents
<1>3. QED
  BY <1>1, <1>2

-----------------------------------------------------------------------------
(* The converter of a Responses stream.                                    *)

\* A handler that leaves what was seen of calls as it is in base.
Converted(base, V, out) ==
  /\ DOMAIN out = {"sc", "events", "done", "failed"}
  /\ SameSource(base, out.sc)
  /\ Events(base.source, V, out.events)

LEMMA OutConverted ==
  ASSUME NEW base, NEW V, NEW d, SameSource(base, d), NEW events, Events(base.source, V, events),
         NEW done
  PROVE  Converted(base, V, Responses!Out(d, events, done))
BY DEF Converted, Responses!Out

LEMMA IgnoredConverted ==
  ASSUME NEW base, NEW V, NEW d, SameSource(base, d)
  PROVE  Converted(base, V, Responses!Ignored(d)) /\ Converted(base, V, Responses!Failure(d))
<1>1. Events(base.source, V, <<>>)
  BY NoEvents
<1>2. Converted(base, V, Responses!Ignored(d))
  BY <1>1, OutConverted DEF Responses!Ignored
<1>3. QED
  BY <1>2 DEF Converted, Responses!Failure

LEMMA MuteConverted ==
  ASSUME NEW base, NEW out, Converted(base, {}, out), NEW V PROVE Converted(base, V, out)
BY MuteEvents DEF Converted

LEMMA ChunksAreMute ==
  ASSUME NEW role, NEW content, NEW entry
  PROVE  /\ Readable("openai", {}, Responses!Frame(role, content, <<>>, Responses!NoReason, {}))
         /\ Readable("openai", {}, Responses!Frame(role, content, <<entry>>, Responses!NoReason, {}))
BY EmptyIsSeq, SingleIsSeq DEF Readable, Mute, Responses!Frame, Responses!NoReason, NoReason

LEMMA BlocksAreMute ==
  ASSUME NEW index, NEW kind, NEW id, NEW name, NEW delta, NEW piece
  PROVE  /\ Readable("claude", {}, Responses!ContentBlockStart(index, kind, id, name))
         /\ Readable("claude", {}, Responses!ContentBlockDelta(index, delta, piece))
         /\ Readable("claude", {}, Responses!ContentBlockStop(index))
BY DEF Readable, Mute, Responses!ContentBlockStart, Responses!ContentBlockDelta,
       Responses!ContentBlockStop

\* toolCallTracker only counts.
LEMMA StateSame ==
  ASSUME NEW sc, IsResponses(sc), NEW key, NEW alias
  PROVE  SameSource(sc, Responses!State(sc, key, alias).sc)
<1>1. ASSUME NEW ids, NEW found
      PROVE  SameSource(sc, Responses!Bound(sc, ids, found).sc)
  BY DEF Responses!Bound, SameSource, IsResponses
<1>2. QED
  BY <1>1 DEF Responses!State

LEMMA DeliveringSame ==
  ASSUME NEW sc, NEW st, SameSource(sc, st.sc), NEW deliver
  PROVE  SameSource(sc, Responses!Delivering(st, deliver).sc)
BY DEF Responses!Delivering, SameSource, IsResponses

LEMMA ObserveSame ==
  ASSUME NEW sc, IsResponses(sc), NEW callId, NEW itemId, NEW complete
  PROVE  SameSource(sc, Responses!Observe(sc, callId, itemId, complete).sc)
<1>1. PICK st : st = Responses!State(sc, callId, itemId)
  OBVIOUS
<1>2. PICK deliver : deliver = (complete /\ st.index \notin sc.delivered)
  OBVIOUS
<1>3. Responses!Observe(sc, callId, itemId, complete) = Responses!Delivering(st, deliver)
  BY <1>1, <1>2 DEF Responses!Observe
<1>4. QED
  BY <1>1, <1>3, StateSame, DeliveringSame

LEMMA StreamArgsSame ==
  ASSUME NEW sc, IsResponses(sc), NEW itemId
  PROVE  SameSource(sc, Responses!StreamArgs(sc, itemId).sc)
BY StateSame, DeliveringSame DEF Responses!StreamArgs

-----------------------------------------------------------------------------
(* Its blocks, for a Messages client.                                      *)

LEMMA StopsAreMute ==
  ASSUME NEW s, IsSeq(s)
  PROVE  Events("claude", {}, [k \in DOMAIN s |-> Responses!ContentBlockStop(s[k])])
<1>1. PICK n \in Nat : DOMAIN s = 1..n
  BY DEF IsSeq
<1> DEFINE t == [k \in 1..n |-> Responses!ContentBlockStop(s[k])]
           X == {Responses!ContentBlockStop(s[k]) : k \in 1..n}
<1>2. t \in [1..n -> X]
  OBVIOUS
<1>3. \A e \in X : Readable("claude", {}, e)
  BY BlocksAreMute
<1> HIDE DEF X
<1>4. t \in Seq(X)
  <2> HIDE DEF t
  <2>1. QED
    BY <1>2
<1>5. QED
  BY <1>1, <1>3, <1>4 DEF Events

LEMMA CloseOpenBlocksSame ==
  ASSUME NEW sc, IsResponses(sc)
  PROVE  /\ SameSource(sc, Responses!CloseOpenBlocks(sc).sc)
         /\ Events("claude", {}, Responses!CloseOpenBlocks(sc).events)
<1>1. Events("claude", {}, Responses!CloseOpenBlocks(sc).events)
  BY StopsAreMute DEF Responses!CloseOpenBlocks, IsResponses
<1>2. SameSource(sc, Responses!CloseOpenBlocks(sc).sc)
  BY EmptyIsSeq DEF Responses!CloseOpenBlocks, SameSource, IsResponses
<1>3. QED
  BY <1>1, <1>2

LEMMA OpenBlockSame ==
  ASSUME NEW sc, IsResponses(sc), NEW index, NEW kind, NEW id, NEW name,
         NEW out, out = Responses!OpenBlock(sc, index, kind, id, name)
  PROVE  SameSource(sc, out.sc) /\ Events("claude", {}, out.events)
<1>1. PICK closed : closed = Responses!CloseOpenBlocks(sc)
  OBVIOUS
<1>2. PICK start : start = Responses!ContentBlockStart(index, kind, id, name)
  OBVIOUS
<1>3. /\ out.sc = [closed.sc EXCEPT !.openBlocks = Append(@, index)]
      /\ out.events = Append(closed.events, start)
  BY <1>1, <1>2 DEF Responses!OpenBlock
<1>4. SameSource(sc, closed.sc) /\ Events("claude", {}, closed.events)
  BY <1>1, CloseOpenBlocksSame
<1>5. Events("claude", {}, out.events)
  BY <1>2, <1>3, <1>4, BlocksAreMute, OneMore
<1>6. IsSeq(Append(closed.sc.openBlocks, index))
  BY <1>4, AppendedIsSeq DEF SameSource, IsResponses
<1>7. QED
  BY <1>3, <1>4, <1>5, <1>6 DEF SameSource, IsResponses

LEMMA BlockAndDeltaConverted ==
  ASSUME NEW base, base.source = "claude", NEW seen, SameSource(base, seen.sc),
         NEW id, NEW name, NEW delta, Events("claude", {}, delta)
  PROVE  Converted(base, {}, Responses!BlockAndDelta(seen, id, name, delta))
<1>1. PICK block : block = Responses!OpenBlock(seen.sc, seen.index, "tool_use", id, name)
  OBVIOUS
<1>2. SameSource(seen.sc, block.sc) /\ Events("claude", {}, block.events)
  BY <1>1, OpenBlockSame DEF SameSource
<1>3. PICK opening : opening = IF seen.first THEN block
                               ELSE [sc |-> seen.sc, events |-> <<>>]
  OBVIOUS
<1>4. SameSource(base, opening.sc) /\ Events("claude", {}, opening.events)
  BY <1>2, <1>3, NoEvents DEF SameSource
<1>5. Responses!BlockAndDelta(seen, id, name, delta)
        = Responses!Out(opening.sc, opening.events \o delta, FALSE)
  BY <1>1, <1>3 DEF Responses!BlockAndDelta
<1>6. Events(base.source, {}, opening.events \o delta)
  BY <1>4, MoreEvents
<1>7. QED
  BY <1>4, <1>5, <1>6, OutConverted

-----------------------------------------------------------------------------
(* Its handlers.                                                           *)

ConvertingSource(source) == source \in {"openai", "claude"}

LEMMA OnTextDeltaConverted ==
  ASSUME NEW sc, IsResponses(sc), ConvertingSource(sc.source), NEW piece
  PROVE  Converted(sc, {}, Responses!OnTextDelta(sc, piece))
<1>1. SameSource(sc, sc)
  BY DEF SameSource
<1>2. CASE sc.source = "openai"
  <2>1. PICK e : e = Responses!TextChunk(piece)
    OBVIOUS
  <2>2. Readable("openai", {}, e)
    BY <2>1, ChunksAreMute DEF Responses!TextChunk
  <2>3. Events("openai", {}, <<e>>)
    BY <2>2, OneEvent
  <2>4. Responses!OnTextDelta(sc, piece) = Responses!Out(sc, <<e>>, FALSE)
    BY <1>2, <2>1 DEF Responses!OnTextDelta
  <2>5. QED
    BY <1>1, <1>2, <2>3, <2>4, OutConverted
<1>3. CASE sc.source = "claude"
  <2>1. PICK index : index = IF sc.textOpen THEN sc.textIndex ELSE sc.nextIndex
    OBVIOUS
  <2>2. PICK delta : delta = Responses!ContentBlockDelta(index, "text_delta", piece)
    OBVIOUS
  <2>3. PICK next : next = [sc EXCEPT !.nextIndex = @ + 1]
    OBVIOUS
  <2>4. PICK opened : opened = Responses!OpenBlock(next, index, "text", Responses!NoId, <<>>)
    OBVIOUS
  <2>5. PICK d : d = [opened.sc EXCEPT !.textIndex = index, !.textOpen = TRUE]
    OBVIOUS
  <2>6. IsResponses(next) /\ next.source = sc.source /\ next.toolCallsSeen = sc.toolCallsSeen
    BY <2>3 DEF IsResponses
  <2>7. SameSource(sc, opened.sc) /\ Events("claude", {}, opened.events)
    BY <2>4, <2>6, OpenBlockSame DEF SameSource
  <2>8. SameSource(sc, d)
    BY <2>5, <2>7 DEF SameSource, IsResponses
  <2>9. Events("claude", {}, <<delta>>)
    BY <2>2, BlocksAreMute, OneEvent
  <2>10. Events(sc.source, {}, <<delta>>) /\ Events(sc.source, {}, opened.events \o <<delta>>)
    BY <1>3, <2>7, <2>9, MoreEvents
  <2>11. Responses!OnTextDelta(sc, piece)
           = IF sc.textOpen THEN Responses!Out(sc, <<delta>>, FALSE)
             ELSE Responses!Out(d, opened.events \o <<delta>>, FALSE)
    BY <1>3, <2>1, <2>2, <2>3, <2>4, <2>5 DEF Responses!OnTextDelta
  <2>12. QED
    BY <1>1, <2>8, <2>10, <2>11, OutConverted
<1>4. QED
  BY <1>2, <1>3 DEF ConvertingSource

LEMMA ItemToChatConverted ==
  ASSUME NEW base, base.source = "openai", NEW seen, SameSource(base, seen.sc), NEW item
  PROVE  Converted(base, {}, Responses!ItemToChat(seen, item))
<1>1. PICK first : first = Responses!CCToolCallOpeningEntry(seen.index, item.callId, item.name,
                             IF seen.deliver THEN item.content ELSE <<>>)
  OBVIOUS
<1>2. PICK more : more = Responses!Continuation(seen.index, item.content)
  OBVIOUS
<1>3. PICK a, b : a = Responses!CallChunk(first) /\ b = Responses!CallChunk(more)
  OBVIOUS
<1>4. PICK events : events = IF seen.first THEN <<a>> ELSE IF seen.deliver THEN <<b>> ELSE <<>>
  OBVIOUS
<1>5. Readable("openai", {}, a) /\ Readable("openai", {}, b)
  BY <1>3, ChunksAreMute DEF Responses!CallChunk
<1>6. Events(base.source, {}, events)
  BY <1>4, <1>5, NoEvents, OneEvent
<1>7. Responses!ItemToChat(seen, item) = Responses!Out(seen.sc, events, FALSE)
  BY <1>1, <1>2, <1>3, <1>4 DEF Responses!ItemToChat
<1>8. QED
  BY <1>6, <1>7, OutConverted

LEMMA ItemToClaudeConverted ==
  ASSUME NEW base, base.source = "claude", NEW seen, SameSource(base, seen.sc), NEW item
  PROVE  Converted(base, {}, Responses!ItemToClaude(seen, item))
<1>1. PICK e : e = Responses!JSONDelta(seen.index, item.content)
  OBVIOUS
<1>2. PICK delta : delta = IF seen.deliver THEN <<e>> ELSE <<>>
  OBVIOUS
<1>3. Readable("claude", {}, e)
  BY <1>1, BlocksAreMute DEF Responses!JSONDelta
<1>4. Events("claude", {}, delta)
  BY <1>2, <1>3, NoEvents, OneEvent
<1>5. Responses!ItemToClaude(seen, item)
        = Responses!BlockAndDelta(seen, item.callId, item.name, delta)
  BY <1>1, <1>2 DEF Responses!ItemToClaude
<1>6. QED
  BY <1>4, <1>5, BlockAndDeltaConverted

\* What it sees of an event.
Heeded(sc, ev) ==
  IF /\ sc.source # "openai-response"
     /\ \/ /\ ev.type \in {"response.output_item.added", "response.output_item.done"}
           /\ ev.item.type = "function_call"
        \/ ev.type = "response.function_call_arguments.delta" /\ sc.source = "openai"
  THEN [sc EXCEPT !.toolCallsSeen = TRUE] ELSE sc

LEMMA OutputItemConverted ==
  ASSUME NEW sc, IsResponses(sc), ConvertingSource(sc.source), NEW ev,
         ev.type \in {"response.output_item.added", "response.output_item.done"}
  PROVE  Converted(Heeded(sc, ev), {}, Responses!OutputItem(sc, ev.item))
<1>1. PICK item : item = ev.item
  OBVIOUS
<1>2. CASE item.type # "function_call"
  <2>1. SameSource(sc, sc)
    BY DEF SameSource
  <2>2. Heeded(sc, ev) = sc
    BY <1>1, <1>2 DEF Heeded
  <2>3. QED
    BY <1>1, <1>2, <2>1, <2>2, IgnoredConverted DEF Responses!OutputItem
<1>3. CASE item.type = "function_call"
  <2>1. PICK d : d = [sc EXCEPT !.toolCallsSeen = TRUE]
    OBVIOUS
  <2>2. PICK complete : complete = (item.content # <<>>)
    OBVIOUS
  <2>3. PICK seen : seen = Responses!Observe(d, item.callId, item.id, complete)
    OBVIOUS
  <2>4. IsResponses(d) /\ d.source = sc.source
    BY <2>1 DEF IsResponses
  <2>5. SameSource(d, seen.sc)
    BY <2>3, <2>4, ObserveSame
  <2>6. Responses!OutputItem(sc, item)
          = IF sc.source = "openai" THEN Responses!ItemToChat(seen, item)
            ELSE Responses!ItemToClaude(seen, item)
    BY <1>3, <2>1, <2>2, <2>3 DEF Responses!OutputItem
  <2>7. Heeded(sc, ev) = d
    BY <1>1, <1>3, <2>1 DEF Heeded, ConvertingSource
  <2>8. QED
    BY <1>1, <2>4, <2>5, <2>6, <2>7, ItemToChatConverted, ItemToClaudeConverted
    DEF ConvertingSource
<1>4. QED
  BY <1>2, <1>3

LEMMA ArgsFragmentConverted ==
  ASSUME NEW sc, IsResponses(sc), ConvertingSource(sc.source), NEW ev,
         ev.type = "response.function_call_arguments.delta"
  PROVE  Converted(Heeded(sc, ev), {}, Responses!ArgsFragment(sc, ev.id, ev.content))
<1>1. PICK itemId, piece : itemId = ev.id /\ piece = ev.content
  OBVIOUS
<1>2. PICK seen : seen = Responses!StreamArgs(sc, itemId)
  OBVIOUS
<1>3. SameSource(sc, seen.sc)
  BY <1>2, StreamArgsSame
<1>4. CASE sc.source = "openai"
  <2>1. PICK entry : entry = IF seen.first
                             THEN Responses!CCToolCallOpeningEntry(seen.index, itemId, <<>>, piece)
                             ELSE Responses!Continuation(seen.index, piece)
    OBVIOUS
  <2>2. PICK e : e = Responses!CallChunk(entry)
    OBVIOUS
  <2>3. PICK d : d = [seen.sc EXCEPT !.toolCallsSeen = TRUE]
    OBVIOUS
  <2>4. PICK base : base = [sc EXCEPT !.toolCallsSeen = TRUE]
    OBVIOUS
  <2>5. Responses!ArgsFragment(sc, itemId, piece) = Responses!Out(d, <<e>>, FALSE)
    BY <1>2, <1>4, <2>1, <2>2, <2>3 DEF Responses!ArgsFragment
  <2>6. SameSource(base, d) /\ base.source = "openai"
    BY <1>3, <1>4, <2>3, <2>4 DEF SameSource, IsResponses
  <2>7. Readable("openai", {}, e)
    BY <2>2, ChunksAreMute DEF Responses!CallChunk
  <2>8. Events(base.source, {}, <<e>>)
    BY <2>6, <2>7, OneEvent
  <2>9. Heeded(sc, ev) = base
    BY <1>4, <2>4 DEF Heeded
  <2>10. QED
    BY <1>1, <2>5, <2>6, <2>8, <2>9, OutConverted
<1>5. CASE sc.source = "claude"
  <2>1. PICK e : e = Responses!JSONDelta(seen.index, piece)
    OBVIOUS
  <2>2. Responses!ArgsFragment(sc, itemId, piece)
          = Responses!BlockAndDelta(seen, itemId, <<>>, <<e>>)
    BY <1>2, <1>5, <2>1 DEF Responses!ArgsFragment
  <2>3. Events("claude", {}, <<e>>)
    BY <2>1, BlocksAreMute, OneEvent DEF Responses!JSONDelta
  <2>4. Heeded(sc, ev) = sc
    BY <1>5 DEF Heeded
  <2>5. QED
    BY <1>1, <1>3, <1>5, <2>2, <2>3, <2>4, BlockAndDeltaConverted
<1>6. QED
  BY <1>4, <1>5 DEF ConvertingSource

\* What it makes of the upstream's status and usage.
TerminalSays(sc, ev) ==
  LET usage == CHOOSE u \in ev.usage : TRUE
  IN  IF sc.source = "openai"
      THEN [reason |-> TerminalReason(sc.toolCallsSeen, "tool_calls",
                                      CCFinishFromResponseStatus(ev.status)),
            usage |-> CCUsageFrom(usage.input, usage.output, usage.cached)]
      ELSE [reason |-> TerminalReason(sc.toolCallsSeen, "tool_use",
                                      ClaudeStopFromResponseStatus(ev.status)),
            usage |-> ClaudeUsage(ClampSubtract(usage.input, usage.cached, usage.written),
                                  usage.output, usage.cached, usage.written)]

\* The upstream's terminal event is the client's.
LEMMA TerminalConcludes ==
  ASSUME NEW sc, IsResponses(sc), ConvertingSource(sc.source), NEW ev,
         NEW v, Is(v.after, TerminalSays(sc, ev)),
         sc.source = "claude" => Settles(v, v.after.usage),
         NEW out, out = Responses!Terminal(sc, ev)
  PROVE  /\ Converted(sc, {v}, out)
         /\ Concluded(sc.source, out.events) /\ Informed(sc.source, out.events)
<1>1. CASE sc.source = "openai"
  <2>1. PICK finish : finish = Responses!TerminalReason(sc.toolCallsSeen, "tool_calls",
                                 Responses!CCFinishFromResponseStatus(ev.status))
    OBVIOUS
  <2>2. PICK usage : usage = CHOOSE u \in ev.usage : TRUE
    OBVIOUS
  <2>3. PICK counts : counts = Responses!CCUsageFrom(usage.input, usage.output, usage.cached)
    OBVIOUS
  <2>4. PICK e : e = Responses!Finish(finish, {counts})
    OBVIOUS
  <2>5. out = Responses!Out(sc, <<e>>, TRUE)
    BY <1>1, <2>1, <2>2, <2>3, <2>4 DEF Responses!Terminal
  <2>6. finish # NoReason
    BY <2>1 DEF Responses!TerminalReason, Responses!CCFinishFromResponseStatus, NoReason
  <2>7. /\ e.type = "chunk" /\ e.calls = <<>> /\ e.finish = finish /\ e.usage = {counts}
    BY <2>4 DEF Responses!Finish, Responses!Frame
  <2>8. v.after.reason = finish /\ v.after.usage = counts
    BY <1>1, <2>1, <2>2, <2>3 DEF Is, TerminalSays, Responses!TerminalReason, TerminalReason,
       Responses!CCFinishFromResponseStatus, CCFinishFromResponseStatus,
       Responses!CCUsageFrom, CCUsageFrom
  <2>9. Truthful("openai", v, e)
    BY <2>6, <2>7, <2>8, EmptyIsSeq DEF Truthful
  <2>10. Events("openai", {v}, <<e>>)
    BY <2>9, OneEvent DEF Readable
  <2>11. Final("openai", e) /\ Informs("openai", e)
    BY <2>6, <2>7 DEF Final, Informs
  <2>12. Concluded("openai", <<e>>) /\ Informed("openai", <<e>>)
    BY <2>11, OneConcludes
  <2>13. SameSource(sc, sc) /\ out.events = <<e>>
    BY <2>5 DEF SameSource, Responses!Out
  <2>14. QED
    BY <1>1, <2>5, <2>10, <2>12, <2>13, OutConverted
<1>2. CASE sc.source = "claude"
  <2>1. PICK usage : usage = CHOOSE u \in ev.usage : TRUE
    OBVIOUS
  <2>2. PICK stop : stop = Responses!TerminalReason(sc.toolCallsSeen, "tool_use",
                             Responses!ClaudeStopFromResponseStatus(ev.status))
    OBVIOUS
  <2>3. PICK counts : counts = Responses!ClaudeUsage(
           Responses!ClampSubtract(usage.input, usage.cached, usage.written),
           usage.output, usage.cached, usage.written)
    OBVIOUS
  <2>4. PICK delta : delta = Responses!MessageDelta(stop, {counts})
    OBVIOUS
  <2>5. PICK closed : closed = Responses!CloseOpenBlocks(sc)
    OBVIOUS
  <2>6. PICK d : d = [sc EXCEPT !.openBlocks = <<>>]
    OBVIOUS
  <2>7. PICK events : events = closed.events
    OBVIOUS
  <2>8. out = Responses!Out(d, events \o <<delta, MessageStop>>, TRUE)
    BY <1>2, <2>1, <2>2, <2>3, <2>4, <2>5, <2>6, <2>7
    DEF Responses!Terminal, Responses!MessageStop, MessageStop
  <2>9. SameSource(sc, d)
    BY <2>6, EmptyIsSeq DEF SameSource, IsResponses
  <2>10. Events("claude", {v}, events)
    BY <2>5, <2>7, CloseOpenBlocksSame, MuteEvents
  <2>11. stop # NoReason
    BY <2>2 DEF Responses!TerminalReason, Responses!ClaudeStopFromResponseStatus, NoReason
  <2>12. delta.type = "message_delta" /\ delta.reason = stop /\ delta.usage = {counts}
    BY <2>4 DEF Responses!MessageDelta
  <2>13. v.after.reason = stop /\ v.after.usage = counts
    BY <1>2, <2>1, <2>2, <2>3 DEF Is, TerminalSays, Responses!TerminalReason, TerminalReason,
       Responses!ClaudeStopFromResponseStatus, ClaudeStopFromResponseStatus,
       Responses!ClaudeUsage, ClaudeUsage, Responses!ClampSubtract, ClampSubtract,
       Responses!ValueOrZero, ValueOrZero, Responses!Max, Max
  <2>14. Truthful("claude", v, delta)
    BY <1>2, <2>11, <2>12, <2>13 DEF Truthful
  <2>15. Events("claude", {v}, <<delta>>) /\ Informed("claude", <<delta>>)
    BY <2>12, <2>14, OneEvent, OneConcludes DEF Readable, Informs
  <2>16. PICK told : told = events \o <<delta>>
    OBVIOUS
  <2>17. Events("claude", {v}, told) /\ Informed("claude", told)
    BY <2>10, <2>15, <2>16, MoreEvents, JoinedConclude, EventsIsSeq
  <2>18. PICK all : all = Append(told, MessageStop)
    OBVIOUS
  <2>19. events \o <<delta, MessageStop>> = all
    <3>1. PICK X : events \in Seq(X)
      BY <2>10 DEF Events
    <3>2. PICK Y, last : Y = X \cup {delta, last} /\ last = MessageStop
      OBVIOUS
    <3>3. events \in Seq(Y) /\ delta \in Y /\ last \in Y
      BY <3>1, <3>2
    <3>4. events \o <<delta, last>> = Append(events \o <<delta>>, last)
      BY <3>3
    <3>5. QED
      BY <2>16, <2>18, <3>2, <3>4
  <2>20. Events("claude", {v}, all) /\ Concluded("claude", all) /\ Informed("claude", all)
    BY <2>11, <2>13, <2>17, <2>18, StopConcludes
  <2>21. out = Responses!Out(d, all, TRUE)
    BY <2>8, <2>19
  <2>22. out.events = all
    BY <2>21 DEF Responses!Out
  <2>23. QED
    BY <1>2, <2>9, <2>20, <2>21, <2>22, OutConverted
<1>3. QED
  BY <1>1, <1>2 DEF ConvertingSource

-----------------------------------------------------------------------------
(* One frame for it.                                                       *)

LEMMA ConvertEventConcludes ==
  ASSUME NEW sc, IsResponses(sc), ConvertingSource(sc.source), NEW ev, NEW V,
         sc.source = "claude" /\ ev.type = "response.created" =>
           \E v \in V : v.before.reason = v.after.reason /\ v.after.usage = NoUsage,
         ev.type = "response.completed" =>
           \E v \in V : /\ Is(v.after, TerminalSays(sc, ev))
                        /\ sc.source = "claude" => Settles(v, v.after.usage),
         NEW base, base = Heeded(sc, ev), NEW out, out = Responses!ConvertEvent(sc, ev)
  PROVE  /\ Converted(base, V, out)
         /\ ev.type = "response.completed" =>
              Concluded(sc.source, out.events) /\ Informed(sc.source, out.events)
<1>1. SameSource(sc, sc)
  BY DEF SameSource
<1>2. CASE ev.type = "response.created"
  <2>1. PICK role, start : /\ role = Responses!RoleChunk
                           /\ start = Responses!MessageStart({Responses!NoUsage})
    OBVIOUS
  <2>2. PICK e : e = IF sc.source = "openai" THEN role ELSE start
    OBVIOUS
  <2>3. out = Responses!Out(sc, <<e>>, FALSE) /\ base = sc
    BY <1>2, <2>1, <2>2 DEF Responses!ConvertEvent, Heeded
  <2>4. Readable(sc.source, V, e)
    <3>1. CASE sc.source = "openai"
      <4>1. Readable("openai", {}, role)
        BY <2>1, ChunksAreMute DEF Responses!RoleChunk
      <4>2. QED
        BY <2>2, <3>1, <4>1 DEF Readable
    <3>2. CASE sc.source = "claude"
      <4>1. PICK v \in V : v.before.reason = v.after.reason /\ v.after.usage = NoUsage
        BY <1>2, <3>2
      <4>2. start.type = "message_start" /\ start.usage = {NoUsage}
        BY <2>1 DEF Responses!MessageStart, Responses!NoUsage, NoUsage
      <4>3. Truthful("claude", v, start)
        BY <4>1, <4>2 DEF Truthful
      <4>4. QED
        BY <2>2, <3>2, <4>3 DEF Readable
    <3>3. QED
      BY <3>1, <3>2 DEF ConvertingSource
  <2>5. Events(sc.source, V, <<e>>)
    BY <2>4, OneEvent
  <2>6. QED
    BY <1>1, <1>2, <2>3, <2>5, OutConverted
<1>3. CASE ev.type = "response.output_text.delta"
  <2>1. base = sc /\ out = Responses!OnTextDelta(sc, ev.content)
    BY <1>3 DEF Heeded, Responses!ConvertEvent
  <2>2. QED
    BY <1>3, <2>1, OnTextDeltaConverted, MuteConverted
<1>4. CASE ev.type \in {"response.output_item.added", "response.output_item.done"}
  <2>1. out = Responses!OutputItem(sc, ev.item)
    BY <1>4 DEF Responses!ConvertEvent
  <2>2. QED
    BY <1>4, <2>1, OutputItemConverted, MuteConverted
<1>5. CASE ev.type = "response.function_call_arguments.delta"
  <2>1. out = Responses!ArgsFragment(sc, ev.id, ev.content)
    BY <1>5 DEF Responses!ConvertEvent
  <2>2. QED
    BY <1>5, <2>1, ArgsFragmentConverted, MuteConverted
<1>6. CASE ev.type = "response.completed"
  <2>1. base = sc /\ out = Responses!Terminal(sc, ev)
    BY <1>6 DEF Heeded, Responses!ConvertEvent
  <2>2. PICK v \in V : /\ Is(v.after, TerminalSays(sc, ev))
                       /\ sc.source = "claude" => Settles(v, v.after.usage)
    BY <1>6
  <2>3. /\ Converted(sc, {v}, out)
        /\ Concluded(sc.source, out.events) /\ Informed(sc.source, out.events)
    BY <2>1, <2>2, TerminalConcludes
  <2>4. Events(sc.source, V, out.events)
    BY <2>3, WiderEvents DEF Converted
  <2>5. QED
    BY <2>1, <2>3, <2>4 DEF Converted
<1>7. CASE ev.type = "error"
  <2>1. base = sc /\ out = Responses!Failure(sc)
    BY <1>7 DEF Heeded, Responses!ConvertEvent
  <2>2. QED
    BY <1>1, <1>7, <2>1, IgnoredConverted
<1>8. CASE ev.type \notin {"response.created", "response.output_text.delta",
                           "response.output_item.added", "response.output_item.done",
                           "response.function_call_arguments.delta", "response.completed",
                           "error"}
  <2>1. base = sc /\ out = Responses!Ignored(sc)
    BY <1>8 DEF Heeded, Responses!ConvertEvent
  <2>2. QED
    BY <1>1, <1>8, <2>1, IgnoredConverted
<1>9. QED
  BY <1>2, <1>3, <1>4, <1>5, <1>6, <1>7, <1>8

LEMMA PassthroughEventConcludes ==
  ASSUME NEW sc, IsResponses(sc), sc.source = "openai-response", NEW ev, NEW V,
         ev.type = "response.completed" => Readable("openai-response", V, ev),
         NEW out, out = Responses!PassthroughEvent(sc, ev)
  PROVE  /\ Converted(sc, V, out)
         /\ ev.type = "response.completed" =>
              Concluded(sc.source, out.events) /\ Informed(sc.source, out.events)
<1>1. SameSource(sc, sc)
  BY DEF SameSource
<1>2. ASSUME NEW e, e.type # "response.completed" PROVE Events(sc.source, V, <<e>>)
  BY <1>2, OneEvent DEF Readable, Mute
<1>3. CASE ev.type \in {"response.output_item.added", "response.output_item.done"}
  <2>1. PICK item : item = Responses!RestoreCall(sc.names, ev.item)
    OBVIOUS
  <2>2. PICK e : e = [ev EXCEPT !.item = item]
    OBVIOUS
  <2>3. PICK marked : marked = [sc EXCEPT !.customItems = @ \cup ({item.id, item.callId}
                                                                \ {Responses!NoId})]
    OBVIOUS
  <2>4. PICK d : d = IF item.type = "custom_tool_call" /\ ev.item.type = "function_call"
                     THEN marked ELSE sc
    OBVIOUS
  <2>5. out = Responses!Out(d, <<e>>, FALSE)
    <3>1. out = Responses!RestoreItem(sc, ev)
      BY <1>3 DEF Responses!PassthroughEvent
    <3>2. QED
      BY <2>1, <2>2, <2>3, <2>4, <3>1 DEF Responses!RestoreItem
  <2>6. SameSource(sc, marked)
    BY <2>3 DEF SameSource, IsResponses
  <2>7. SameSource(sc, d)
    BY <1>1, <2>4, <2>6
  <2>8. e.type # "response.completed"
    BY <1>3, <2>2
  <2>9. Events(sc.source, V, <<e>>)
    BY <1>2, <2>8
  <2>10. QED
    BY <1>3, <2>5, <2>7, <2>9, OutConverted
<1>4. CASE ev.type \in {"response.function_call_arguments.delta",
                        "response.function_call_arguments.done"}
  <2>1. out = Responses!RestoreArgs(sc, ev)
    BY <1>4 DEF Responses!PassthroughEvent
  <2>2. PICK e : e = Responses!InputDone(ev.id, ev.index,
                                         Responses!UnwrapCustomToolInput(ev.content))
    OBVIOUS
  <2>3. \/ out = Responses!Out(sc, <<ev>>, FALSE)
        \/ out = Responses!Ignored(sc)
        \/ out = Responses!Out(sc, <<e>>, FALSE)
    BY <2>1, <2>2 DEF Responses!RestoreArgs
  <2>4. e.type # "response.completed" /\ ev.type # "response.completed"
    BY <1>4, <2>2 DEF Responses!InputDone, Responses!About
  <2>5. Events(sc.source, V, <<e>>) /\ Events(sc.source, V, <<ev>>)
    BY <1>2, <2>4
  <2>6. QED
    BY <1>1, <1>4, <2>3, <2>5, OutConverted, IgnoredConverted
<1>5. CASE ev.type = "response.completed"
  <2>1. PICK e : e = [ev EXCEPT !.output = Responses!RestoreOutput(sc.names, @)]
    OBVIOUS
  <2>2. out = Responses!Out(sc, <<e>>, TRUE)
    BY <1>5, <2>1 DEF Responses!PassthroughEvent
  <2>3. out.events = <<e>>
    BY <2>2 DEF Responses!Out
  <2>4. e.type = "response.completed" /\ e.status = ev.status /\ e.usage = ev.usage
    BY <1>5, <2>1
  <2>5. Readable("openai-response", V, e)
    BY <1>5, <2>4 DEF Readable, Mute, Truthful
  <2>6. Final("openai-response", e) /\ Informs("openai-response", e)
    BY <2>4 DEF Final, Informs
  <2>7. /\ Events(sc.source, V, <<e>>)
        /\ Concluded(sc.source, <<e>>) /\ Informed(sc.source, <<e>>)
    BY <2>5, <2>6, OneEvent, OneConcludes
  <2>8. QED
    BY <1>1, <2>2, <2>3, <2>7, OutConverted
<1>6. CASE ev.type = "error"
  BY <1>1, <1>6, IgnoredConverted DEF Responses!PassthroughEvent
<1>7. CASE ev.type \notin {"response.output_item.added", "response.output_item.done",
                           "response.function_call_arguments.delta",
                           "response.function_call_arguments.done", "response.completed",
                           "error"}
  <2>1. Events(sc.source, V, <<ev>>)
    BY <1>2, <1>7
  <2>2. QED
    BY <1>1, <1>7, <2>1, OutConverted DEF Responses!PassthroughEvent
<1>8. QED
  BY <1>3, <1>4, <1>5, <1>6, <1>7

LEMMA ResponsesFeedTells ==
  ASSUME NEW sc, IsResponses(sc), KnownSource(sc.source), NEW ev, NEW V,
         sc.source = "claude" /\ ev.type = "response.created" =>
           \E v \in V : v.before.reason = v.after.reason /\ v.after.usage = NoUsage,
         sc.source # "openai-response" /\ ev.type = "response.completed" =>
           \E v \in V : /\ Is(v.after, TerminalSays(sc, ev))
                        /\ sc.source = "claude" => Settles(v, v.after.usage),
         sc.source = "openai-response" /\ ev.type = "response.completed" =>
           Readable("openai-response", V, ev),
         NEW base, base = Heeded(sc, ev), NEW out, out = Responses!Feed(sc, ev)
  PROVE  /\ DOMAIN out = {"sc", "events", "done", "failed"}
         /\ SameSource(base, out.sc)
         /\ Events(sc.source, V, out.events)
         /\ ev.type = "response.completed" =>
              Concluded(sc.source, out.events) /\ Informed(sc.source, out.events)
<1>1. base.source = sc.source
  BY DEF Heeded, IsResponses
<1>2. CASE sc.source = "openai-response"
  <2>1. out = Responses!PassthroughEvent(sc, ev) /\ base = sc
    BY <1>2 DEF Responses!Feed, Heeded
  <2>2. QED
    BY <1>2, <2>1, PassthroughEventConcludes DEF Converted
<1>3. CASE sc.source \in {"openai", "claude"}
  <2>1. out = Responses!ConvertEvent(sc, ev)
    BY <1>3 DEF Responses!Feed
  <2>2. /\ Converted(base, V, out)
        /\ ev.type = "response.completed" =>
             Concluded(sc.source, out.events) /\ Informed(sc.source, out.events)
    BY <1>3, <2>1, ConvertEventConcludes DEF ConvertingSource
  <2>3. QED
    BY <1>1, <2>2 DEF Converted
<1>4. QED
  BY <1>2, <1>3 DEF KnownSource
=============================================================================
