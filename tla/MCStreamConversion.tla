-------------------------- MODULE MCStreamConversion --------------------------
(* Requests, usages and bounds for TLC. *)
EXTENDS StreamConversion

Auto == Choice("auto", <<>>, NoNamespace)
Request(tools, more, choice, history) ==
  [tools |-> tools, more |-> more, choice |-> choice, history |-> history]

MCPlain == Request(<<Function(<<"f">>)>>, <<>>, Auto, <<>>)

\* A custom tool in a name space, called before.
Spaced == Request(<<Namespace("n", <<Custom(<<"g">>)>>)>>, <<Function(<<"f">>)>>, Auto,
                  <<Call("custom_tool_call", <<"g">>, "n")>>)
\* One name in two name spaces, one of them demanded, beside a hosted tool.
Shared == Request(<<Hosted("web_search"), Namespace("m", <<Function(<<"g">>)>>)>>,
                  <<Namespace("n", <<Custom(<<"g">>)>>)>>,
                  Choice("function", <<"g">>, "m"),
                  <<Call("function_call", <<"g">>, "m"), Call("custom_tool_call", <<"g">>, "n")>>)
\* Two identities that would travel under one name.
Collision == Request(<<Function(<<"n", "g">>), Namespace("n", <<Function(<<"g">>)>>)>>, <<>>,
                     Auto, <<>>)
\* A tool is demanded, and the only one is hosted.
HostedOnly == Request(<<Hosted("web_search")>>, <<>>, Choice("required", <<>>, NoNamespace), <<>>)

MCRequests == {Spaced, Shared, Collision, HostedOnly}

\* Tokens of a cache are part of the input; the last upstream miscounts.
Cached    == [input |-> 5, output |-> 2, cached |-> {2}, written |-> {}]
Miscounts == [input |-> 1, output |-> 1, cached |-> {2}, written |-> {}]
MCUsages  == {Cached, Miscounts}
=============================================================================
