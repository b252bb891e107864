------------------------------ MODULE MCLifecycle ------------------------------
(***************************************************************************)
(* Instances of Lifecycle: one model of each of two protocols, and         *)
(* configurations that differ in policy, protocol switches and prefix.     *)
(***************************************************************************)
EXTENDS Lifecycle, TLC

MCPrefix  == "go"
MCIds     == {<<"kimi">>, <<"gpt">>}
MCRoutes  == {"chat", "responses"}
MCNoRoute == "none"
MCFamily  == (<<"kimi">> :> "chat") @@ (<<"gpt">> :> "responses")

Config(prefixed, enabled, stale) ==
  [prefixed |-> prefixed, enabled |-> enabled, overrides |-> <<>>, stale |-> stale]

\* An override moves one model to the other protocol.
Overridden(stale) ==
  [Config(FALSE, {"chat"}, stale) EXCEPT
     !.overrides = <<"kimi">> :> [route |-> "responses", escapes |-> FALSE]]

\* Policies, switches, prefix and overrides together.
AllConfigs == {Config(p, r, b) : p \in BOOLEAN, r \in {MCRoutes, {"chat"}}, b \in BOOLEAN}
              \cup {Overridden(TRUE)}
\* Only the prefix differs, under stale-while-unavailable.
StaleConfigs == {Config(b, MCRoutes, TRUE) : b \in BOOLEAN}
\* Only the policy differs.
PolicyConfigs == {Config(FALSE, MCRoutes, b) : b \in BOOLEAN}
\* Only a protocol switch differs, under stale-while-unavailable.
SwitchConfigs == {Config(FALSE, {r}, TRUE) : r \in MCRoutes}

MCCatalogs  == {<<<<"kimi">>>>, <<<<"kimi">>, <<"gpt">>>>}
ChatCatalog == {<<<<"kimi">>>>}

Symmetry == Permutations(Callers)
=============================================================================
