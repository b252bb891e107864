----------------------------- MODULE MCCatalogSwap -----------------------------
(***************************************************************************)
(* An instance of CatalogSwap: ids with the prefix segment in front of     *)
(* them zero, one and two times, a model only an override can route, and   *)
(* an override whose endpoint leaves the upstream.                         *)
(***************************************************************************)
EXTENDS CatalogSwap, TLC

MCPrefix  == "go"
MCIds     == {<<"kimi">>, <<"go", "kimi">>, <<"go", "go", "kimi">>, <<"gpt">>, <<"odd">>}
MCRoutes  == {"chat", "responses"}
MCNoRoute == "none"
MCFamily  == [id \in MCIds |-> CASE id[1] = "kimi" -> "chat"
                                 [] id[1] = "gpt"  -> "responses"
                                 [] OTHER          -> "none"]

On(route, escapes) == [route |-> route, escapes |-> escapes]
\* Overrides that route the prefixed ids; that change a family; that escape.
OverrideSets ==
  { <<>>,
    (<<"go", "kimi">> :> On("chat", FALSE)) @@ (<<"go", "go", "kimi">> :> On("responses", FALSE)),
    (<<"go", "kimi">> :> On("responses", FALSE)) @@ (<<"kimi">> :> On("responses", FALSE)),
    (<<"odd">> :> On("chat", TRUE)) @@ (<<"gpt">> :> On("chat", FALSE)) }
MCConfigs ==
  [prefixed : BOOLEAN, enabled : {MCRoutes, {"chat"}}, overrides : OverrideSets]
=============================================================================
