----------------------------- MODULE ResponseTools -----------------------------
(***************************************************************************)
(* internal/adapter/shared/responses_tools.go, ResponseTools.Normalize:    *)
(* the tools of a Responses request, declared in two places and in name    *)
(* spaces, become the flat list of functions an upstream knows.            *)
(*                                                                         *)
(* A name is the sequence of the parts "__" separates, so that a tool may  *)
(* be declared under the name that a namespaced tool travels with.  The    *)
(* shortening of names beyond 64 bytes keeps them apart and is left out.   *)
(* A request is [tools, more, choice, history]: declarations, those of     *)
(* additional_tools items, the tool choice, and earlier calls.             *)
(***************************************************************************)
EXTENDS Conversion, SequencesExt

Declaration(type, name, children) == [type |-> type, name |-> name, children |-> children]
Function(name) == Declaration("function", name, <<>>)
Custom(name)   == Declaration("custom", name, <<>>)
Hosted(type)   == Declaration(type, <<>>, <<>>)
Namespace(name, children) == Declaration("namespace", <<name>>, children)

Choice(kind, name, namespace) == [kind |-> kind, name |-> name, namespace |-> namespace]
Call(type, name, namespace) == [type |-> type, name |-> name, namespace |-> namespace]

IsOptionalHostedTool(type) ==
  type \in {"web_search", "web_search_preview", "tool_search", "image_generation"}

QualifiedResponseToolName(name, namespace) ==
  IF namespace = NoNamespace THEN name ELSE <<namespace>> \o name

\* What Normalize has made of the declarations so far.
Nothing == [error |-> FALSE, names |-> <<>>, tools |-> <<>>, stripped |-> FALSE]
Rejected(acc) == [acc EXCEPT !.error = TRUE]

\* Fault: a name that is taken is declared again.
RegisterOver(acc, type, name, namespace) ==
  LET wire == QualifiedResponseToolName(name, namespace)
  IN  [acc EXCEPT !.names = Put(@, wire, [name |-> name, namespace |-> namespace,
                                          custom |-> type = "custom"]),
                  !.tools = Append(@, wire)]

\* The first declaration of an identity wins; two identities that would
\* travel under one name are an error.
Register(acc, type, name, namespace) ==
  LET identity == [name |-> name, namespace |-> namespace, custom |-> type = "custom"]
      wire     == QualifiedResponseToolName(name, namespace)
  IN  IF wire \in DOMAIN acc.names
      THEN IF acc.names[wire] = identity THEN acc ELSE Rejected(acc)
      ELSE [acc EXCEPT !.names = Put(@, wire, identity), !.tools = Append(@, wire)]

\* add, for one tool outside or inside a namespace.
AddTool(acc, tool, namespace, strip, native) ==
  LET top == namespace = NoNamespace
  IN  CASE acc.error -> acc
        [] ~acc.error /\ strip /\ top /\ IsOptionalHostedTool(tool.type) ->
             [acc EXCEPT !.stripped = TRUE]
        [] ~acc.error /\ native /\ top /\ tool.type \notin {"function", "custom"} ->
             IF tool.type \in {"tool_search", "image_generation"} THEN acc
             ELSE [acc EXCEPT !.tools = Append(@, <<tool.type>>)]
        [] OTHER ->
             IF tool.type \notin {"function", "custom"} \/ tool.name = <<>>
             THEN Rejected(acc) ELSE Register(acc, tool.type, tool.name, namespace)

Add(acc, tool, strip, native) ==
  IF tool.type # "namespace" THEN AddTool(acc, tool, NoNamespace, strip, native)
  ELSE IF tool.name = <<>> \/ tool.children = <<>> THEN Rejected(acc)
  ELSE FoldLeft(LAMBDA a, child : AddTool(a, child, tool.name[1], strip, native),
                acc, tool.children)

\* Fault: an earlier call keeps the name the client gave it.
QualifiedCallBare(item) == [type |-> item.type, name |-> item.name, namespace |-> item.namespace]

\* An earlier call under the name its tool travels with.
QualifiedCall(item) ==
  [type |-> IF item.type = "custom_tool_call" THEN "function_call" ELSE item.type,
   name |-> IF item.type \in {"function_call", "custom_tool_call"}
            THEN QualifiedResponseToolName(item.name, item.namespace) ELSE item.name,
   namespace |-> NoNamespace]

\* A function choice loses its namespace.
QualifiedChoice(choice) ==
  IF choice.kind = "function" /\ choice.namespace # NoNamespace
  THEN Choice("function", QualifiedResponseToolName(choice.name, choice.namespace), NoNamespace)
  ELSE choice

\* Fault: a choice of a stripped tool goes upstream.
BadChoiceUnchecked(acc, choice, strip) == strip /\ IsOptionalHostedTool(choice.kind)

\* The choice demands a hosted tool that is stripped, or one that is gone.
BadChoice(acc, choice, strip) ==
  \/ strip /\ IsOptionalHostedTool(choice.kind)
  \/ acc.stripped /\ choice.kind \in {"required", "function"} /\ acc.tools = <<>>
  \/ acc.stripped /\ choice.kind = "function" /\ choice.name \notin DOMAIN acc.names

Normalize(request, stripHosted, native) ==
  LET strip  == stripHosted /\ ~native
      acc    == FoldLeft(LAMBDA a, tool : Add(a, tool, strip, native), Nothing,
                         request.tools \o request.more)
      choice == QualifiedChoice(request.choice)
      bad    == \/ strip /\ \E k \in DOMAIN request.history :
                              request.history[k].type = "web_search_call"
                \/ BadChoice(acc, choice, strip)
      none   == acc.stripped /\ acc.tools = <<>>
  IN  [error |-> acc.error \/ bad,
       names |-> acc.names,
       tools |-> acc.tools,
       choice |-> IF none THEN Choice("absent", <<>>, NoNamespace) ELSE choice,
       conversation |-> [k \in DOMAIN request.history |-> QualifiedCall(request.history[k])]]

-----------------------------------------------------------------------------
(* What a client may send, and what it declares by it.                     *)

\* What a name space in a name space holds does not matter, it is refused.
ResponseTool ==
  [type : STRING, name : Seq(STRING),
   children : Seq([type : STRING, name : Seq(STRING), children : {<<>>}])]
ResponseCall == [type : STRING, name : Seq(STRING), namespace : STRING]

\* Functions, custom tools and name spaces have names, hosted tools do not.
NamedByKind(tool) ==
  CASE tool.type \in {"function", "custom"} -> TRUE
    [] tool.type = "namespace" -> tool.name # <<>> => /\ Len(tool.name) = 1
                                                     /\ tool.name[1] # NoNamespace
    [] OTHER -> tool.name = <<>>

DeclarationsOf(request) == request.tools \o request.more

Identified(tool, namespace) ==
  [name |-> tool.name, namespace |-> namespace, custom |-> tool.type = "custom"]

\* The identities a tool stands for, and those of a request.
IdentitiesOf(tool) ==
  IF tool.type = "namespace"
  THEN {Identified(tool.children[k], tool.name[1]) : k \in DOMAIN tool.children}
  ELSE {Identified(tool, NoNamespace)}
DeclaredBy(request) ==
  UNION {IdentitiesOf(DeclarationsOf(request)[k]) : k \in DOMAIN DeclarationsOf(request)}

\* Only calls have names; a function that is demanded is declared, and if any tool is
\* demanded, one is declared that every route knows or strips.
WellFormed(request) ==
  /\ request.tools \in Seq(ResponseTool) /\ request.more \in Seq(ResponseTool)
  /\ request.history \in Seq(ResponseCall)
  /\ request.choice.name \in Seq(STRING) /\ request.choice.namespace \in STRING
  /\ \A k \in DOMAIN DeclarationsOf(request) : NamedByKind(DeclarationsOf(request)[k])
  /\ \A k \in DOMAIN request.history :
       request.history[k].type \notin {"function_call", "custom_tool_call"} =>
         request.history[k].name = <<>> /\ request.history[k].namespace = NoNamespace
  /\ request.choice.kind = "function" =>
       /\ request.choice.name # <<>>
       /\ \E i \in DeclaredBy(request) :
            i.name = request.choice.name /\ i.namespace = request.choice.namespace
  /\ request.choice.kind = "required" =>
       \E k \in DOMAIN DeclarationsOf(request) :
         DeclarationsOf(request)[k].type \notin {"tool_search", "image_generation"}
=============================================================================
