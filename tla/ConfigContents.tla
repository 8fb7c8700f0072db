---------------------------- MODULE ConfigContents ----------------------------
(***************************************************************************)
(* What the agent does to the contents of openclaw.json: the normalization *)
(* at every start and at every applied revision (normalizer.go and         *)
(* channels.go in src/internal/configmanager) and the model guard's        *)
(* restoring of single fields (model_guard.go).  Which file is written     *)
(* when, and what comes in between, is in ConfigManager.                   *)
(*                                                                         *)
(* A JSON document is a function from paths to nodes.  A path is a sequence*)
(* of keys; a node is an object, whose members are the paths below it, a   *)
(* text, a list of models or the path of a plugin.  A definition Next does *)
(* not use is a mistake an edit of the code could make.                    *)
(***************************************************************************)
EXTENDS Integers, Sequences, FiniteSets

CONSTANTS Seed,        \* documents the agent may find at its first start
          Environment, \* what CLAWMANAGER_* may be set to
          Rev,         \* configuration revisions ...
          Revision,    \* Revision[r]: ... and their documents
          EditTree,    \* subtrees the gateway or the user may write
          EditPath,    \* paths they may remove
          Channel,     \* ids of channels
          Bundled,     \* channels whose extensions are part of the image
          Prefix,      \* InstalledPluginPathPrefix
          UserDir,     \* OpenClawExtensionsDir
          MaxEdits, MaxStarts   \* bounds

Object == [kind |-> "object"]
Text(v) == [kind |-> "text", text |-> v]
ModelList(items) == [kind |-> "models", models |-> items]
PluginPath(s) == [kind |-> "path", path |-> s]

AutoProvider == <<"models", "providers", "auto">>
BaseURL == AutoProvider \o <<"baseUrl">>
APIKey == AutoProvider \o <<"apiKey">>
ProviderModels == AutoProvider \o <<"models">>
DefaultModel == <<"agents", "defaults", "model">>
AgentModels == <<"agents", "defaults", "models">>
ChannelAt(c) == <<"channels", c>>

GuardPaths == {BaseURL, APIKey, ProviderModels, DefaultModel}

-----------------------------------------------------------------------------
(* Documents. *)

Under(p, s) == Len(p) <= Len(s) /\ \A i \in 1 .. Len(p) : s[i] = p[i]
Above(p) == {SubSeq(p, 1, i) : i \in 0 .. Len(p) - 1}

Path(s) == Len(s) \in Nat /\ s = [i \in 1 .. Len(s) |-> s[i]]

Document(d) ==
  /\ <<>> \in DOMAIN d
  /\ \A s \in DOMAIN d : Path(s) /\ Above(s) \subseteq {t \in DOMAIN d : d[t] = Object}

List(s) == Len(s) \in Nat /\ DOMAIN s = 1 .. Len(s)

Nodes(d) ==
  \A s \in DOMAIN d :
    (d[s].kind = "models" => List(d[s].models)) /\ (d[s].kind = "path" => Path(d[s].path))

(* What can stand at p in a document. *)
Tree(p, tree) ==
  /\ p \in DOMAIN tree
  /\ \A s \in DOMAIN tree :
       /\ Path(s) /\ Under(p, s)
       /\ \A t \in Above(s) : Under(p, t) => t \in DOMAIN tree /\ tree[t] = Object

Root(tree) == CHOOSE s \in DOMAIN tree : \A t \in DOMAIN tree : Under(s, t)

(* nestedValue: the subtree at p, empty where there is no such field. *)
Sub(d, p) == [s \in {s \in DOMAIN d : Under(p, s)} |-> d[s]]

Present(d, p) == p \in DOMAIN d

PutWithoutParents(d, p, tree) ==
  [s \in {s \in DOMAIN d : ~Under(p, s)} \cup DOMAIN tree |->
     IF s \in DOMAIN tree THEN tree[s] ELSE d[s]]

(* setNestedValue: ensureObject makes every parent an object, in place of    *)
(* whatever else was there.                                                  *)
Put(d, p, tree) ==
  [s \in {s \in DOMAIN d : ~Under(p, s)} \cup Above(p) \cup DOMAIN tree |->
     IF s \in DOMAIN tree THEN tree[s] ELSE IF s \in Above(p) THEN Object ELSE d[s]]

PutNode(d, p, node) == Put(d, p, [s \in {p} |-> node])

(* deleteNestedValue *)
Remove(d, p) == [s \in {s \in DOMAIN d : ~Under(p, s)} |-> d[s]]

EnsuredAfresh(d, p) == PutNode(d, p, Object)

(* ensureObject for p and its parents. *)
Ensured(d, p) ==
  [s \in DOMAIN d \cup Above(p) \cup {p} |->
     IF s \in Above(p) \cup {p} THEN Object ELSE d[s]]

-----------------------------------------------------------------------------
(* normalizeLLMConfigContent.  An environment has the texts baseURL and      *)
(* apiKey, each Blank or Unset when there is none, the list models of        *)
(* CLAWMANAGER_LLM_MODEL, the channels it configures, and whether its JSON   *)
(* parses.                                                                   *)

Unset == "unset"
Blank == ""

(* uniqueNonEmptyModelIDs: each id where it comes first. *)
Firsts(raw) == {i \in 1 .. Len(raw) : raw[i] # Blank /\ \A j \in 1 .. i - 1 : raw[j] # raw[i]}

Rank(raw, i) == Cardinality({j \in Firsts(raw) : j <= i})

UniqueIDs(raw) ==
  [k \in 1 .. Cardinality(Firsts(raw)) |-> raw[CHOOSE i \in Firsts(raw) : Rank(raw, i) = k]]

IDs(e) == UniqueIDs(e.models)

DisplayName(id) == IF id = "auto" THEN "Auto" ELSE id

(* defaultProviderModel *)
DefaultProviderModel(id) == [id |-> id, name |-> DisplayName(id), settings |-> "default"]

Listed(d) ==
  IF Present(d, ProviderModels) /\ d[ProviderModels].kind = "models"
  THEN d[ProviderModels].models ELSE <<>>

(* indexModelsByID, where the last item with an id wins. *)
Existing(d, id) == {i \in DOMAIN Listed(d) : Listed(d)[i].id = id}

Wins(d, id) == CHOOSE i \in Existing(d, id) : \A j \in Existing(d, id) : j <= i

KeptOrDefault(d, id) ==
  LET m == Listed(d)[Wins(d, id)]
  IN IF Existing(d, id) = {} THEN DefaultProviderModel(id)
     ELSE [id |-> id, settings |-> m.settings,
           name |-> IF id = "auto" \/ m.name = Blank THEN DisplayName(id) ELSE m.name]

Appended(d, ids) == Listed(d) \o [i \in 1 .. Len(ids) |-> DefaultProviderModel(ids[i])]

(* buildProviderModels: models that are not listed go. *)
BuildProviderModels(d, ids) == [i \in 1 .. Len(ids) |-> KeptOrDefault(d, ids[i])]

(* buildAgentModels: what is there for a listed model stays. *)
BuildAgentModels(d, ids) ==
  LET At(i) == Append(AgentModels, ids[i])
      kept == {s \in DOMAIN d : \E i \in 1 .. Len(ids) : Under(At(i), s)}
  IN [s \in {AgentModels} \cup {At(i) : i \in 1 .. Len(ids)} \cup kept |->
        IF s \in kept THEN d[s] ELSE Object]

WithBaseURL(d, e) == IF e.baseURL = Blank THEN d ELSE PutNode(d, BaseURL, Text(e.baseURL))

WithAPIKeyIfAny(d, e) ==
  IF e.apiKey \in {Unset, Blank} THEN d ELSE PutNode(d, APIKey, Text(e.apiKey))

(* A key that is set to nothing removes the one in the file. *)
WithAPIKey(d, e) == IF e.apiKey = Unset THEN d ELSE PutNode(d, APIKey, Text(e.apiKey))

WithModels(d, e) ==
  LET listed == PutNode(d, ProviderModels, ModelList(BuildProviderModels(d, IDs(e))))
      named == PutNode(Ensured(listed, DefaultModel), DefaultModel \o <<"primary">>,
                       Text(IDs(e)[1]))
  IN IF IDs(e) = <<>> THEN d ELSE Put(named, AgentModels, BuildAgentModels(named, IDs(e)))

NormalizeLLM(d, e) == WithModels(WithAPIKey(WithBaseURL(Ensured(d, AutoProvider), e), e), e)

-----------------------------------------------------------------------------
(* applyChannelOverrides. *)

Below(p, path) == SubSeq(path, Len(p) + 1, Len(path))

MovedAlways(node) == PluginPath(UserDir \o Below(Prefix, node.path))

Moved(node) ==
  IF Under(Prefix, node.path) THEN PluginPath(UserDir \o Below(Prefix, node.path)) ELSE node

IsInstallPath(s) ==
  Len(s) = 4 /\ s[1] = "plugins" /\ s[2] = "installs" /\ s[4] = "installPath"

(* rewriteInstalledPluginPaths: only entries that have a path.               *)
RewriteInstalledPluginPaths(d) ==
  [s \in DOMAIN d |->
     IF IsInstallPath(s) /\ d[s].kind = "path" THEN Moved(d[s]) ELSE d[s]]

(* collectSupportedChannelIds of the bundled and of the user's extensions.   *)
Supported(ext) == Bundled \cup ext

ChannelTree(c, t) ==
  [s \in {ChannelAt(c), Append(ChannelAt(c), "token")} |->
     IF s = ChannelAt(c) THEN Object ELSE Text(t)]

FromEnv(e, ext) == DOMAIN e.channels \cap Supported(ext)

KeptUnlessEnv(e, ext) == IF FromEnv(e, ext) = {} THEN Supported(ext) ELSE {}

Kept(e, ext) == Supported(ext) \ FromEnv(e, ext)

(* sanitizeChannels drops what no extension supports; the channels of the    *)
(* environment then replace those of the file as a whole.                    *)
ReconcileChannels(d, e, ext) ==
  LET base == Ensured(d, <<"channels">>)
      kept == {s \in DOMAIN base :
                 Len(s) >= 2 /\ s[1] = "channels" => s[2] \in Kept(e, ext)}
      new == UNION {DOMAIN ChannelTree(c, e.channels[c]) : c \in FromEnv(e, ext)}
  IN [s \in kept \cup new |->
        IF s \in new THEN ChannelTree(s[2], e.channels[s[2]])[s] ELSE base[s]]

(* normalizeConfigMap *)
Normalize(d, e, ext) ==
  ReconcileChannels(RewriteInstalledPluginPaths(NormalizeLLM(d, e)), e, ext)

-----------------------------------------------------------------------------
VARIABLES
  doc,        \* openclaw.json
  env,        \* the environment of the container
  extensions, \* channels whose extensions the user has installed
  step,       \* free, or where the agent is that has read the file
  read,       \* the document it has read, while it has not written yet
  baseline,   \* the guarded fields as captured, one subtree for each path
  armed,      \* the agent that runs has captured them
  mine,       \* history: tokens of the channels the user has set up and
              \* nothing has since taken away
  disturbed,  \* history: somebody edited a guarded field between the start's
              \* reading of the file and the capture of the baseline
  resumed,    \* history: the start found the baseline of the one before, in
              \* the same environment
  edits, starts

history == <<mine, disturbed, resumed>>
vars == <<doc, env, extensions, step, read, baseline, armed, history, edits, starts>>

ASSUME EnvironmentAssumption ==
  \A e \in Environment :
    /\ e.wellFormed \in BOOLEAN
    /\ DOMAIN e.channels \subseteq Channel
    /\ List(e.models)
    /\ e.wellFormed /\ e.models # <<>> => IDs(e) # <<>>
ASSUME PathAssumption ==
  /\ Path(Prefix) /\ Path(UserDir)
  /\ ~Under(Prefix, UserDir) /\ ~Under(UserDir, Prefix)
ASSUME DocumentAssumption ==
  /\ \A d \in Seed \cup {Revision[r] : r \in Rev} : Document(d) /\ Nodes(d)
  /\ \A tree \in EditTree : Tree(Root(tree), tree) /\ Nodes(tree)
  /\ \A p \in EditPath : Path(p) /\ p # <<>>
ASSUME ChannelAssumption ==
  /\ Bundled \subseteq Channel
  /\ \A tree \in EditTree, c \in Channel :
       LET token == Append(ChannelAt(c), "token")
       IN Root(tree) = ChannelAt(c) => token \in DOMAIN tree /\ tree[token] = Text(tree[token].text)
ASSUME BoundAssumption == MaxEdits \in Nat /\ MaxStarts \in Nat

(* The agent will write over what it finds. *)
Holding == step \in {"normalizing", "restoring"}

TypeOK ==
  /\ Document(doc) /\ Nodes(doc)
  /\ env \in Environment
  /\ extensions \subseteq Channel
  /\ DOMAIN baseline = GuardPaths
  /\ \A p \in GuardPaths : \A s \in DOMAIN baseline[p] : Under(p, s)
  /\ step \in {"free", "normalizing", "capturing", "restoring"}
  /\ Holding => Document(read) /\ Nodes(read)
  /\ armed \in BOOLEAN /\ disturbed \in BOOLEAN /\ resumed \in BOOLEAN
  /\ DOMAIN mine \subseteq Channel
  /\ edits \in 0 .. MaxEdits /\ starts \in 0 .. MaxStarts

Init ==
  /\ doc \in Seed
  /\ env \in Environment
  /\ extensions \in SUBSET (Channel \ Bundled)
  /\ step = "free" /\ read = <<>>
  /\ baseline = [p \in GuardPaths |-> <<>>] /\ armed = FALSE
  /\ mine = <<>> /\ disturbed = FALSE /\ resumed = FALSE
  /\ edits = 0 /\ starts = 0

(* setModelBaselineLocked *)
Captured(d) == [p \in GuardPaths |-> Sub(d, p)]

Drifted == \E p \in GuardPaths : Sub(doc, p) # baseline[p]

(* The agent is started, whatever the one before was at, in a container with *)
(* environment e, and NormalizeActiveConfig reads the file.  The agent ends  *)
(* when e does not parse.                                                    *)
Start(e) ==
  /\ starts < MaxStarts
  /\ starts' = starts + 1
  /\ env' = e
  /\ armed' = FALSE
  /\ step' = IF e.wellFormed THEN "normalizing" ELSE "free"
  /\ read' = IF e.wellFormed THEN doc ELSE <<>>
  /\ resumed' = (armed /\ ~disturbed /\ ~Drifted /\ e = env)
  /\ disturbed' = FALSE
  /\ UNCHANGED <<doc, extensions, baseline, mine, edits>>

(* It writes what it has made of the file it read over the file there is.    *)
(* It need not when nothing changed; layout may have, which makes it write.  *)
WriteNormalized ==
  LET normalized == Normalize(read, env, extensions)
  IN /\ step = "normalizing"
     /\ step' = "capturing" /\ read' = <<>>
     /\ \/ doc' = normalized /\ disturbed' = FALSE
        \/ normalized = read /\ UNCHANGED <<doc, disturbed>>
     /\ mine' = [c \in DOMAIN mine \cap (Supported(extensions) \ DOMAIN env.channels)
                   |-> mine[c]]
     /\ UNCHANGED <<env, extensions, baseline, armed, resumed, edits, starts>>

(* CaptureModelBaseline reads the file again.                                *)
CaptureModelBaseline ==
  /\ step = "capturing"
  /\ step' = "free"
  /\ baseline' = Captured(doc) /\ armed' = TRUE
  /\ resumed' = FALSE
  /\ UNCHANGED <<doc, env, extensions, read, mine, disturbed, edits, starts>>

(* ApplyRevision, which takes the baseline from what it has put in place.    *)
Apply(r) ==
  /\ armed /\ step = "free"
  /\ doc' = Normalize(Revision[r], env, extensions)
  /\ baseline' = Captured(doc')
  /\ mine' = <<>> /\ disturbed' = FALSE
  /\ UNCHANGED <<env, extensions, step, read, armed, resumed, edits, starts>>

(* EnforceModelBaseline: field by field, in the order of modelGuardPaths.    *)
RestoreAtIfThere(d, p) ==
  IF Sub(d, p) = baseline[p] \/ baseline[p] = <<>> THEN d ELSE Put(d, p, baseline[p])

RestoreAt(d, p) ==
  IF Sub(d, p) = baseline[p] THEN d
  ELSE IF baseline[p] = <<>> THEN Remove(d, p)
  ELSE Put(d, p, baseline[p])

Restored(d) ==
  RestoreAt(RestoreAt(RestoreAt(RestoreAt(d, BaseURL), APIKey), ProviderModels), DefaultModel)

(* The guard reads a file that has drifted ...                               *)
Check ==
  /\ armed /\ step = "free" /\ Drifted
  /\ step' = "restoring" /\ read' = doc
  /\ UNCHANGED <<doc, env, extensions, baseline, armed, history, edits, starts>>

(* ... and writes it back over the file there is by then.                    *)
Restore ==
  /\ step = "restoring"
  /\ step' = "free" /\ read' = <<>>
  /\ doc' = Restored(read)
  /\ UNCHANGED <<env, extensions, baseline, armed, history, edits, starts>>

-----------------------------------------------------------------------------
(* The gateway and the user. *)

(* The channels an edit at p leaves as they were, with what it sets up.      *)
Untouched(p) == {c \in DOMAIN mine : ~Under(p, ChannelAt(c)) /\ ~Under(ChannelAt(c), p)}

(* An edit at p gets into a start.                                           *)
Disturbs(p) ==
  step \in {"normalizing", "capturing"} /\ \E g \in GuardPaths : Under(p, g) \/ Under(g, p)

(* What is set up while the agent holds a copy is not sure to stay.          *)
SetUpAt(p) == {c \in Channel : p = ChannelAt(c) /\ ~Holding}

Edited(p) ==
  /\ edits < MaxEdits
  /\ edits' = edits + 1
  /\ disturbed' = (disturbed \/ Disturbs(p))
  /\ UNCHANGED <<env, extensions, step, read, baseline, armed, resumed, starts>>

Write(tree) ==
  LET p == Root(tree)
  IN /\ Edited(p)
     /\ doc' = Put(doc, p, tree)
     /\ mine' = [c \in SetUpAt(p) \cup Untouched(p) |->
                   IF c \in SetUpAt(p) THEN tree[Append(ChannelAt(c), "token")].text
                   ELSE mine[c]]

Delete(p) ==
  /\ Edited(p)
  /\ Present(doc, p)
  /\ doc' = Remove(doc, p)
  /\ mine' = [c \in Untouched(p) |-> mine[c]]

(* The user installs or removes an extension. *)
ChangeExtension(c) ==
  /\ c \notin Bundled
  /\ extensions' = IF c \in extensions THEN extensions \ {c} ELSE extensions \cup {c}
  /\ UNCHANGED <<doc, env, step, read, baseline, armed, history, edits, starts>>

Next ==
  \/ \E e \in Environment : Start(e)
  \/ WriteNormalized
  \/ CaptureModelBaseline
  \/ \E r \in Rev : Apply(r)
  \/ Check
  \/ Restore
  \/ \E tree \in EditTree : Write(tree)
  \/ \E p \in EditPath : Delete(p)
  \/ \E c \in Channel : ChangeExtension(c)

Spec == Init /\ [][Next]_vars
-----------------------------------------------------------------------------
(* The guard restores the four guarded fields exactly, and what it writes is *)
(* otherwise the file it has read, except that parents of these fields       *)
(* become objects again: an edit elsewhere that it has read, of              *)
(* agents.defaults.models and other providers included, survives it.  Having *)
(* written once it is content, so that it does not restart the gateway every *)
(* three seconds.                                                            *)
Guarded(s) == \E p \in GuardPaths : Under(p, s)
Parent(s) == \E p \in GuardPaths : s \in Above(p)

Same(d, f, paths) == \A s \in paths : s \in DOMAIN d \cap DOMAIN f /\ f[s] = d[s]

GuardIsExact ==
  [][Restore =>
       /\ ~Drifted'
       /\ Same(read, doc', {s \in DOMAIN read \cup DOMAIN doc' : ~Guarded(s) /\ ~Parent(s)})]_vars

(* A start that writes changes, of the file it has read, the fields the      *)
(* environment sets, channels, plugin paths and parents that are not         *)
(* objects: when no override exists for a field its subtree is left          *)
(* untouched (normalizer.go:153), and so is everything else.  A model that   *)
(* stays in the list keeps the settings somebody gave it.                    *)
Overridden(e) ==
  (IF e.baseURL = Blank THEN {} ELSE {BaseURL})
    \cup (IF e.apiKey = Unset THEN {} ELSE {APIKey})
    \cup (IF e.models = <<>> THEN {}
          ELSE {ProviderModels, Append(DefaultModel, "primary"), AgentModels})

Untold(s) ==
  /\ \A p \in Overridden(env) \cup {<<"channels">>} : ~Under(p, s)
  /\ ~IsInstallPath(s) /\ ~Parent(s)
  /\ env.models # <<>> => s # DefaultModel

SettingsOf(d, id) == {Listed(d)[i].settings : i \in Existing(d, id)}

StartIsExact ==
  [][WriteNormalized /\ doc' # doc =>
       /\ Same(read, doc', {s \in DOMAIN read \cup DOMAIN doc' : Untold(s)})
       /\ \A i \in DOMAIN IDs(env) :
            SettingsOf(read, IDs(env)[i]) # {} =>
              SettingsOf(doc', IDs(env)[i]) \subseteq SettingsOf(read, IDs(env)[i])]_vars

(* Normalizing what is normal changes nothing: a start without a change      *)
(* writes nothing (ConfigManager assumes it).                                *)
NormalSettles ==
  \A e \in {e \in Environment : e.wellFormed} :
    LET n == Normalize(doc, e, extensions) IN Normalize(n, e, extensions) = n

(* The locked fields survive a restart of the agent in the same environment, *)
(* whatever else was edited or installed in between, unless one of them is   *)
(* edited after the start has read the file and before it captures them.     *)
BaselineSurvivesRestart ==
  [][CaptureModelBaseline /\ resumed /\ ~disturbed => baseline' = baseline]_vars

(* What CLAWMANAGER_LLM_* says is what the file says whenever the guard has  *)
(* nothing to restore, after edits and revisions too: the base URL, the key, *)
(* the models in their order and each once, and the first one as primary.    *)
(* Excepted is an agent whose start was disturbed: an edit of such a field   *)
(* between normalization and the separate reading for the capture is what    *)
(* the guard then defends, until a revision or the next start.               *)
Field(p, v) == Present(doc, p) /\ doc[p] = Text(v)

EnvironmentInjected ==
  armed /\ ~disturbed /\ ~Drifted =>
    /\ env.baseURL # Blank => Field(BaseURL, env.baseURL)
    /\ env.apiKey # Unset => Field(APIKey, env.apiKey)
    /\ IDs(env) # <<>> =>
         LET items == doc[ProviderModels].models
         IN /\ {items[i].id : i \in DOMAIN items}
                 = {env.models[i] : i \in DOMAIN env.models} \ {Blank}
            /\ \A i, j \in DOMAIN items : items[i].id = items[j].id => i = j
            /\ Field(Append(DefaultModel, "primary"), items[1].id)

(* A channel the user has set up stays, with its token, as long as nobody    *)
(* changes it, its extension is installed at every start, the environment    *)
(* does not configure it and no revision replaces the file.  It must have    *)
(* been set up while neither a start nor the guard had read the file and not *)
(* yet written it: what is written in between may be lost.                   *)
ChannelSurvives ==
  \A c \in DOMAIN mine :
    Present(doc, Append(ChannelAt(c), "token"))
      /\ doc[Append(ChannelAt(c), "token")] = Text(mine[c])
=============================================================================
