--------------------------- MODULE MCConfigContents ---------------------------
(* Two documents to start from: the seeded defaults with a plugin below the  *)
(* defaults, and one whose models are not an object.  The environments set   *)
(* nothing, everything, a list with repetitions and an empty key, or do not  *)
(* parse; the edits hit guarded fields, their parents and what lies beside.  *)
EXTENDS ConfigContents, TLC

Leaf(p, v) == p :> Text(v)
Item(id, settings) == [id |-> id, name |-> "", settings |-> settings]

MCDefaults ==
  (<<>> :> Object) @@ (<<"models">> :> Object) @@ (<<"models", "providers">> :> Object)
  @@ (AutoProvider :> Object) @@ Leaf(BaseURL, "xxxxx") @@ Leaf(APIKey, "")
  @@ (ProviderModels :> ModelList(<<Item("model-id", "tuned")>>))
  @@ (<<"agents">> :> Object) @@ (<<"agents", "defaults">> :> Object)
  @@ (DefaultModel :> Object) @@ Leaf(Append(DefaultModel, "primary"), "model-id")
  @@ (AgentModels :> Object) @@ (Append(AgentModels, "model-id") :> Object)
  @@ (<<"channels">> :> Object)
MCPlugin ==
  (<<"plugins">> :> Object) @@ (<<"plugins", "installs">> :> Object)
  @@ (<<"plugins", "installs", "slack">> :> Object)
  @@ (<<"plugins", "installs", "slack", "installPath">> :> PluginPath(<<"defaults", "ext", "slack">>))
MCNull == (<<>> :> Object) @@ Leaf(<<"models">>, "null")

MCSeed == {MCDefaults @@ MCPlugin, MCNull}
MCRevision == [r \in {"r1"} |->
                 MCNull @@ ChannelTree("feishu", "revision")
                   @@ (<<"channels">> :> Object)]

Env(url, key, models, channels, ok) ==
  [baseURL |-> url, apiKey |-> key, models |-> models, channels |-> channels,
   wellFormed |-> ok]
MCEnvironment ==
  {Env("", Unset, <<>>, <<>>, TRUE),
   Env("url", "key", <<"auto", "model-id">>, "slack" :> "env", TRUE),
   Env("", "", <<"model-id", "", "m2", "model-id">>, "feishu" :> "env", TRUE),
   Env("url", Unset, <<>>, <<>>, FALSE)}

MCEditTree ==
  {Leaf(BaseURL, "other"),
   ProviderModels :> ModelList(<<Item("", "tuned"), Item("m2", "default"), Item("m2", "tuned")>>),
   Leaf(<<"models">>, "null"),
   Leaf(<<"agents", "defaults">>, "null"),
   (Append(AgentModels, "m2") :> Object) @@ Leaf(AgentModels \o <<"m2", "alias">>, "alias"),
   ChannelTree("slack", "mine")}
MCEditPath == {APIKey, <<"agents">>, <<"channels">>}
MCPrefix == <<"defaults", "ext">>
MCUserDir == <<"config">>
=============================================================================
