-------------------------- MODULE ConfigContentsProofs --------------------------
(***************************************************************************)
(* Proofs about ConfigContents for any documents, environments, revisions, *)
(* edits and channels: every property MCConfigContents checks holds of     *)
(* each of them.                                                           *)
(*                                                                         *)
(* A document is a tree of paths, so that the facts come down to when one  *)
(* path is above, below or apart from another.  The first part shows that  *)
(* every operation turns documents into documents, and that the guard,     *)
(* which restores its fields one after the other, finds each of them as it *)
(* was captured and disturbs none of those before (Typed).  The second     *)
(* shows where a normalization writes nothing (Aside) and that what it     *)
(* writes comes out the same when it runs again: for the list of models    *)
(* because each id comes once and has its rank.  What the environment sets *)
(* is then locked in the baseline (Locked), survives a restart, and is what*)
(* the file says when nothing has drifted.                                 *)
(***************************************************************************)
EXTENDS ConfigContents, SequenceTheorems, FiniteSetTheorems, TLAPS

-----------------------------------------------------------------------------
(* Paths: those of the fields, and which of them lie above which. *)

LEMMA PathIsSeq ==
  ASSUME NEW p, Path(p), NEW S, \A i \in 1 .. Len(p) : p[i] \in S
  PROVE  p \in Seq(S)
<1>1. p \in [1 .. Len(p) -> S] /\ Len(p) \in Nat
  BY DEF Path
<1> QED
  BY <1>1, SeqDef

LEMMA PathAppend ==
  ASSUME NEW p, Path(p), NEW key, NEW q, q = Append(p, key) \/ q = p \o <<key>>
  PROVE  /\ Path(q) /\ Len(q) = Len(p) + 1 /\ q[Len(p) + 1] = key /\ Under(p, q)
<1> DEFINE S == {p[i] : i \in 1 .. Len(p)} \cup {key}
<1>1. p \in Seq(S) /\ key \in S
  <2>1. \A i \in 1 .. Len(p) : p[i] \in S
    OBVIOUS
  <2> QED
    BY <2>1, PathIsSeq
<1> HIDE DEF S
<1>2. /\ Append(p, key) \in Seq(S) /\ Len(Append(p, key)) = Len(p) + 1
      /\ Append(p, key)[Len(p) + 1] = key
      /\ \A i \in 1 .. Len(p) : Append(p, key)[i] = p[i]
  BY <1>1, AppendProperties
<1>3. Path(Append(p, key))
  BY <1>2, LenProperties DEF Path
<1>4. q = Append(p, key)
  BY <1>1, AppendIsConcat
<1>5. Under(p, Append(p, key))
  BY <1>1, <1>2, LenProperties DEF Under
<1> QED
  BY <1>2, <1>3, <1>4, <1>5, Zenon

LEMMA ProviderPaths ==
  /\ Path(AutoProvider) /\ Len(AutoProvider) = 3
  /\ AutoProvider[1] = "models" /\ AutoProvider[2] = "providers" /\ AutoProvider[3] = "auto"
  /\ Path(BaseURL) /\ Len(BaseURL) = 4 /\ BaseURL[4] = "baseUrl" /\ Under(AutoProvider, BaseURL)
  /\ Path(APIKey) /\ Len(APIKey) = 4 /\ APIKey[4] = "apiKey" /\ Under(AutoProvider, APIKey)
  /\ Path(ProviderModels) /\ Len(ProviderModels) = 4 /\ ProviderModels[4] = "models"
  /\ Under(AutoProvider, ProviderModels)
<1>1. Path(AutoProvider) /\ Len(AutoProvider) = 3
  BY DEF AutoProvider, Path
<1>2. AutoProvider[1] = "models" /\ AutoProvider[2] = "providers" /\ AutoProvider[3] = "auto"
  BY DEF AutoProvider
<1>3. ASSUME NEW key, NEW p, p = AutoProvider \o <<key>>
      PROVE  Path(p) /\ Len(p) = 4 /\ p[4] = key /\ Under(AutoProvider, p)
  <2>1. /\ Path(p) /\ Len(p) = Len(AutoProvider) + 1 /\ p[Len(AutoProvider) + 1] = key
        /\ Under(AutoProvider, p)
    BY <1>1, <1>3, PathAppend, Zenon
  <2> QED
    BY <1>1, <2>1
<1>4. Path(BaseURL) /\ Len(BaseURL) = 4 /\ BaseURL[4] = "baseUrl" /\ Under(AutoProvider, BaseURL)
  BY <1>3, Zenon DEF BaseURL
<1>5. Path(APIKey) /\ Len(APIKey) = 4 /\ APIKey[4] = "apiKey" /\ Under(AutoProvider, APIKey)
  BY <1>3, Zenon DEF APIKey
<1>6. /\ Path(ProviderModels) /\ Len(ProviderModels) = 4 /\ ProviderModels[4] = "models"
      /\ Under(AutoProvider, ProviderModels)
  BY <1>3, Zenon DEF ProviderModels
<1> QED
  BY <1>1, <1>2, <1>4, <1>5, <1>6

LEMMA AgentPaths ==
  /\ Path(DefaultModel) /\ Len(DefaultModel) = 3
  /\ DefaultModel[1] = "agents" /\ DefaultModel[2] = "defaults" /\ DefaultModel[3] = "model"
  /\ Path(AgentModels) /\ Len(AgentModels) = 3
  /\ AgentModels[1] = "agents" /\ AgentModels[2] = "defaults" /\ AgentModels[3] = "models"
BY DEF DefaultModel, AgentModels, Path

(* Where ChannelTree has the token of a channel. *)
Token(c) == Append(ChannelAt(c), "token")

LEMMA ChannelPaths ==
  ASSUME NEW c
  PROVE  /\ Path(ChannelAt(c)) /\ Len(ChannelAt(c)) = 2
         /\ ChannelAt(c)[1] = "channels" /\ ChannelAt(c)[2] = c
         /\ Path(Token(c)) /\ Len(Token(c)) = 3
         /\ Token(c)[1] = "channels" /\ Token(c)[2] = c
<1>1. /\ Path(ChannelAt(c)) /\ Len(ChannelAt(c)) = 2
      /\ ChannelAt(c)[1] = "channels" /\ ChannelAt(c)[2] = c
  BY DEF ChannelAt, Path
<1>2. Path(Token(c)) /\ Len(Token(c)) = Len(ChannelAt(c)) + 1 /\ Under(ChannelAt(c), Token(c))
  <2>1. Path(ChannelAt(c))
    BY <1>1
  <2> QED
    BY <2>1, PathAppend, Zenon DEF Token
<1>3. \A i \in 1 .. Len(ChannelAt(c)) : Token(c)[i] = ChannelAt(c)[i]
  BY <1>2 DEF Under
<1>4. Len(Token(c)) = 3 /\ Token(c)[1] = ChannelAt(c)[1] /\ Token(c)[2] = ChannelAt(c)[2]
  BY <1>1, <1>2, <1>3
<1> QED
  BY <1>1, <1>2, <1>4

LEMMA SamePath ==
  ASSUME NEW s, Path(s), NEW t, Path(t), Len(s) = Len(t), \A i \in 1 .. Len(s) : s[i] = t[i]
  PROVE  s = t
BY DEF Path

LEMMA OnlyPath ==
  ASSUME NEW p, Path(p), NEW s, Path(s), Under(p, s), Len(s) <= Len(p)
  PROVE  s = p
<1>1. Len(s) = Len(p)
  <2>1. Len(s) \in Nat /\ Len(p) \in Nat
    BY DEF Path
  <2>2. Len(p) <= Len(s)
    BY DEF Under
  <2> QED
    BY <2>1, <2>2
<1>2. \A i \in 1 .. Len(s) : s[i] = p[i]
  BY <1>1 DEF Under
<1> QED
  BY <1>1, <1>2, SamePath, Zenon

LEMMA Prefixes ==
  ASSUME NEW s, Path(s), NEW t \in Above(s)
  PROVE  /\ Path(t) /\ Len(t) \in Nat /\ Len(t) < Len(s)
         /\ \A i \in 1 .. Len(t) : t[i] = s[i]
<1>1. PICK k \in 0 .. Len(s) - 1 : t = SubSeq(s, 1, k)
  BY DEF Above, Path
<1>2. Len(s) \in Nat
  BY DEF Path
<1>3. Len(t) = k /\ \A i \in 1 .. k : t[i] = s[i]
  BY <1>1, <1>2, SubSeqProperties
<1>4. t = [i \in 1 .. k |-> t[i]]
  BY <1>1, <1>2
<1> QED
  BY <1>2, <1>3, <1>4 DEF Path

LEMMA IsAbove ==
  ASSUME NEW s, Path(s), NEW t, Path(t), Len(t) < Len(s), \A i \in 1 .. Len(t) : t[i] = s[i]
  PROVE  t \in Above(s)
<1>1. t = SubSeq(s, 1, Len(t))
  BY DEF Path
<1> QED
  BY <1>1 DEF Above, Path

LEMMA AboveUnder ==
  ASSUME NEW p, Path(p), NEW s, Path(s), NEW t \in Above(s)
  PROVE  /\ Under(p, t) => Under(p, s)
         /\ Under(p, s) /\ ~Under(p, t) => t \in Above(p)
         /\ s \in Above(p) => t \in Above(p)
<1>1. /\ Path(t) /\ Len(t) \in Nat /\ Len(t) < Len(s) /\ Len(s) \in Nat /\ Len(p) \in Nat
      /\ \A i \in 1 .. Len(t) : t[i] = s[i]
  BY Prefixes DEF Path
<1>2. Under(p, t) => Under(p, s)
  BY <1>1 DEF Under
<1>3. ASSUME Under(p, s), ~Under(p, t) PROVE t \in Above(p)
  <2>1. Len(t) < Len(p) /\ \A i \in 1 .. Len(t) : t[i] = p[i]
    BY <1>1, <1>3 DEF Under
  <2> QED
    BY <1>1, <2>1, IsAbove
<1>4. ASSUME s \in Above(p) PROVE t \in Above(p)
  <2>1. Len(s) < Len(p) /\ \A i \in 1 .. Len(s) : s[i] = p[i]
    BY <1>4, Prefixes
  <2> QED
    BY <1>1, <2>1, IsAbove
<1> QED
  BY <1>2, <1>3, <1>4

(* Neither p nor q lies above the other: they part ways at some key. *)
Apart(p, q) == \E i \in 1 .. Len(p) : i <= Len(q) /\ p[i] # q[i]

LEMMA GuardPathsApart ==
  /\ \A p \in GuardPaths : Path(p)
  /\ \A p, q \in GuardPaths : p # q => Apart(p, q)
  /\ BaseURL # APIKey /\ BaseURL # ProviderModels /\ BaseURL # DefaultModel
  /\ APIKey # ProviderModels /\ APIKey # DefaultModel /\ ProviderModels # DefaultModel
<1>1. /\ BaseURL[1] = "models" /\ APIKey[1] = "models" /\ ProviderModels[1] = "models"
      /\ DefaultModel[1] = "agents" /\ Len(DefaultModel) = 3
      /\ Len(BaseURL) = 4 /\ BaseURL[4] = "baseUrl" /\ Len(APIKey) = 4 /\ APIKey[4] = "apiKey"
      /\ Len(ProviderModels) = 4 /\ ProviderModels[4] = "models"
  BY ProviderPaths, AgentPaths DEF Under
<1>2. ASSUME NEW p \in GuardPaths, NEW q \in GuardPaths, p # q PROVE Apart(p, q)
  <2>1. CASE p = DefaultModel \/ q = DefaultModel
    BY <1>1, <1>2, <2>1 DEF GuardPaths, Apart
  <2>2. CASE p # DefaultModel /\ q # DefaultModel
    <3>1. Len(p) = 4 /\ Len(q) = 4 /\ p[4] # q[4]
      BY <1>1, <1>2, <2>2 DEF GuardPaths
    <3> QED
      BY <3>1 DEF Apart
  <2> QED
    BY <2>1, <2>2
<1>3. /\ BaseURL # APIKey /\ BaseURL # ProviderModels /\ BaseURL # DefaultModel
      /\ APIKey # ProviderModels /\ APIKey # DefaultModel /\ ProviderModels # DefaultModel
  BY <1>1
<1> QED
  BY <1>2, <1>3, ProviderPaths, AgentPaths DEF GuardPaths

LEMMA ApartPaths ==
  ASSUME NEW p, Path(p), NEW q, Path(q), Apart(p, q)
  PROVE  /\ \A s : Under(p, s) => ~Under(q, s)
         /\ \A t \in Above(q) : ~Under(p, t)
<1>1. PICK i \in 1 .. Len(p) : i <= Len(q) /\ p[i] # q[i]
  BY DEF Apart
<1>2. ASSUME NEW s, Under(p, s), Under(q, s) PROVE FALSE
  BY <1>1, <1>2 DEF Under
<1>3. ASSUME NEW k \in 0 .. Len(q) - 1, Under(p, SubSeq(q, 1, k)) PROVE FALSE
  BY <1>1, <1>3 DEF Under
<1> QED
  BY <1>2, <1>3 DEF Above

LEMMA AboveIsNotUnder ==
  ASSUME NEW p, Path(p), NEW t \in Above(p)
  PROVE  ~Under(p, t)
BY DEF Above, Under

(* The fields the environment sets. *)
(* The fields a normalization sets from CLAWMANAGER_LLM_*, and a field that  *)
(* holds a single node.                                                      *)
Primary == DefaultModel \o <<"primary">>
Fields == {BaseURL, APIKey, ProviderModels, Primary, AgentModels}
Leaf(p, node) == [s \in {p} |-> node]

LEMMA PrimaryPath == Append(DefaultModel, "primary") = Primary
BY DEF Primary, DefaultModel

LEMMA FieldPaths ==
  /\ \A p \in Fields \cup {DefaultModel} : Path(p) /\ Len(p) >= 1 /\ p[1] \in {"models", "agents"}
  /\ \A p, q \in Fields : p # q => Apart(p, q)
  /\ \A p \in {BaseURL, APIKey, ProviderModels, AgentModels} : Apart(p, DefaultModel)
  /\ \A p \in GuardPaths : Apart(p, AgentModels)
  /\ \A p \in {BaseURL, APIKey, ProviderModels} : Apart(p, Primary)
  /\ Len(Primary) = 4 /\ Under(DefaultModel, Primary) /\ ~Under(Primary, DefaultModel)
  /\ Above(Primary) = Above(DefaultModel) \cup {DefaultModel}
<1>1. /\ Path(Primary) /\ Len(Primary) = 4 /\ Primary[1] = "agents" /\ Primary[3] = "model"
      /\ Under(DefaultModel, Primary)
  <2>1. Path(DefaultModel)
    BY AgentPaths
  <2>2. /\ Path(Primary) /\ Len(Primary) = Len(DefaultModel) + 1 /\ Under(DefaultModel, Primary)
    BY <2>1, PathAppend, Zenon DEF Primary
  <2> QED
    BY <2>2, AgentPaths DEF Under
<1>2. /\ Path(BaseURL) /\ Len(BaseURL) = 4 /\ BaseURL[1] = "models" /\ BaseURL[4] = "baseUrl"
      /\ Path(APIKey) /\ Len(APIKey) = 4 /\ APIKey[1] = "models" /\ APIKey[4] = "apiKey"
      /\ Path(ProviderModels) /\ Len(ProviderModels) = 4 /\ ProviderModels[1] = "models"
      /\ ProviderModels[4] = "models"
  BY ProviderPaths DEF Under
<1>3. /\ Path(DefaultModel) /\ Len(DefaultModel) = 3 /\ DefaultModel[1] = "agents"
      /\ DefaultModel[3] = "model"
      /\ Path(AgentModels) /\ Len(AgentModels) = 3 /\ AgentModels[1] = "agents"
      /\ AgentModels[3] = "models"
  BY AgentPaths
<1>4. \A p \in Fields \cup {DefaultModel} : Path(p) /\ Len(p) >= 1 /\ p[1] \in {"models", "agents"}
  BY <1>1, <1>2, <1>3 DEF Fields
<1>5. ASSUME NEW p \in {BaseURL, APIKey, ProviderModels},
             NEW q \in {DefaultModel, AgentModels, Primary}
      PROVE  Apart(p, q) /\ Apart(q, p)
  <2>1. Len(p) = 4 /\ p[1] = "models"
    BY <1>2
  <2>2. Len(q) \in Nat /\ Len(q) >= 1 /\ q[1] = "agents"
    BY <1>1, <1>3 DEF Path
  <2> QED
    BY <2>1, <2>2 DEF Apart
<1>6. ASSUME NEW p \in {BaseURL, APIKey, ProviderModels},
             NEW q \in {BaseURL, APIKey, ProviderModels},
             p # q
      PROVE  Apart(p, q)
  BY <1>6, GuardPathsApart DEF GuardPaths
<1>7. Apart(AgentModels, DefaultModel) /\ Apart(DefaultModel, AgentModels)
  BY <1>3 DEF Apart
<1>8. Apart(AgentModels, Primary) /\ Apart(Primary, AgentModels)
  BY <1>1, <1>3 DEF Apart
<1>9. Above(Primary) = Above(DefaultModel) \cup {DefaultModel} /\ ~Under(Primary, DefaultModel)
  <2>1. DefaultModel \in Above(Primary)
    <3>1. /\ Len(DefaultModel) < Len(Primary)
          /\ \A i \in 1 .. Len(DefaultModel) : DefaultModel[i] = Primary[i]
      BY <1>1, <1>3 DEF Under
    <3> QED
      BY <1>1, <1>3, <3>1, IsAbove
  <2>2. ASSUME NEW t \in Above(DefaultModel) PROVE t \in Above(Primary)
    BY <1>1, <1>3, <2>1, <2>2, AboveUnder
  <2>3. ASSUME NEW t \in Above(Primary), t # DefaultModel PROVE t \in Above(DefaultModel)
    <3>1. /\ Path(t) /\ Len(t) \in Nat /\ Len(t) < Len(Primary)
          /\ \A i \in 1 .. Len(t) : t[i] = Primary[i]
      BY <1>1, <2>3, Prefixes
    <3>2. Len(t) <= Len(DefaultModel) /\ \A i \in 1 .. Len(t) : t[i] = DefaultModel[i]
      BY <1>1, <1>3, <3>1 DEF Under
    <3>3. Len(t) # Len(DefaultModel)
      BY <1>3, <2>3, <3>1, <3>2, SamePath
    <3>4. Len(t) < Len(DefaultModel)
      BY <1>3, <3>1, <3>2, <3>3
    <3> QED
      BY <1>3, <3>1, <3>2, <3>4, IsAbove
  <2> QED
    BY <1>1, <2>1, <2>2, <2>3, AboveIsNotUnder
<1> QED
  BY <1>1, <1>4, <1>5, <1>6, <1>7, <1>8, <1>9 DEF Fields, GuardPaths

LEMMA FieldsDiffer ==
  /\ BaseURL # APIKey /\ BaseURL # ProviderModels /\ APIKey # ProviderModels
  /\ Primary \notin {BaseURL, APIKey, ProviderModels}
  /\ AgentModels \notin {BaseURL, APIKey, ProviderModels, Primary}
  /\ \A p \in Fields : ~Under(p, AutoProvider)
<1>1. \A p \in {BaseURL, APIKey, ProviderModels, Primary} : Len(p) = 4
  BY ProviderPaths, FieldPaths
<1>2. AgentModels[1] = "agents" /\ Len(AgentModels) = 3
  BY AgentPaths
<1>3. \A p \in Fields : ~Under(p, AutoProvider)
  BY <1>1, <1>2, ProviderPaths DEF Fields, Under
<1>4. AgentModels \notin {BaseURL, APIKey, ProviderModels, Primary}
  BY <1>1, <1>2
<1>5. Primary \notin {BaseURL, APIKey, ProviderModels}
  BY FieldPaths DEF Apart
<1> QED
  BY <1>3, <1>4, <1>5, GuardPathsApart

LEMMA SubOfPut ==
  ASSUME NEW d, NEW p, Path(p), NEW q, Path(q), Apart(p, q),
         NEW tree, \A s \in DOMAIN tree : Under(q, s)
  PROVE  Sub(Put(d, q, tree), p) = Sub(d, p)
BY ApartPaths DEF Sub, Put

LEMMA SubAtPut ==
  ASSUME NEW d, NEW p, Path(p), NEW tree, \A s \in DOMAIN tree : Under(p, s),
         tree = [s \in DOMAIN tree |-> tree[s]]
  PROVE  Sub(Put(d, p, tree), p) = tree
BY AboveIsNotUnder DEF Sub, Put

LEMMA SubOfRemove ==
  ASSUME NEW d, NEW p, Path(p), NEW q, Path(q), Apart(p, q)
  PROVE  Sub(Remove(d, q), p) = Sub(d, p)
BY ApartPaths DEF Sub, Remove

LEMMA SubAtRemove ==
  ASSUME NEW d, NEW p
  PROVE  Sub(Remove(d, p), p) = <<>>
BY DEF Sub, Remove

-----------------------------------------------------------------------------
(* What is written into a document leaves a document. *)
LEMMA DocumentPut ==
  ASSUME NEW d, Document(d), NEW p, Path(p), NEW tree, Tree(p, tree)
  PROVE  Document(Put(d, p, tree))
<1> DEFINE e == Put(d, p, tree)
<1>1. /\ DOMAIN e = {s \in DOMAIN d : ~Under(p, s)} \cup Above(p) \cup DOMAIN tree
      /\ \A s \in DOMAIN tree : e[s] = tree[s] /\ Under(p, s) /\ Path(s)
      /\ \A s \in Above(p) : e[s] = Object /\ s \notin DOMAIN tree
      /\ \A s \in DOMAIN d : ~Under(p, s) /\ s \notin Above(p) => e[s] = d[s]
  BY AboveIsNotUnder DEF Put, Tree
<1> HIDE DEF e
<1>2. <<>> \in DOMAIN e
  <2>1. CASE p = <<>>
    BY <1>1, <2>1 DEF Tree
  <2>2. CASE p # <<>>
    <3>1. Path(<<>>) /\ Len(<<>>) = 0 /\ Len(p) \in Nat
      BY DEF Path
    <3>2. Len(p) # 0
      BY <2>2 DEF Path
    <3> QED
      BY <1>1, <3>1, <3>2, IsAbove
  <2> QED
    BY <2>1, <2>2
<1>3. ASSUME NEW s \in DOMAIN e PROVE Path(s)
  BY <1>1, Prefixes DEF Document
<1>4. ASSUME NEW s \in DOMAIN e, NEW t \in Above(s) PROVE t \in DOMAIN e /\ e[t] = Object
  <2>1. Path(s)
    BY <1>3
  <2>2. CASE s \in DOMAIN tree
    <3>1. CASE Under(p, t)
      BY <1>1, <1>4, <2>2, <3>1 DEF Tree
    <3>2. CASE ~Under(p, t)
      BY <1>1, <1>4, <2>1, <2>2, <3>2, AboveUnder
    <3> QED
      BY <3>1, <3>2
  <2>3. CASE s \in Above(p)
    BY <1>1, <1>4, <2>1, <2>3, AboveUnder
  <2>4. CASE s \in DOMAIN d /\ ~Under(p, s)
    <3>1. t \in DOMAIN d /\ d[t] = Object
      BY <1>4, <2>4 DEF Document
    <3>2. ~Under(p, t)
      BY <1>4, <2>1, <2>4, AboveUnder
    <3> QED
      BY <1>1, <3>1, <3>2
  <2> QED
    BY <1>1, <1>4, <2>2, <2>3, <2>4
<1> QED
  BY <1>2, <1>3, <1>4 DEF Document, e

LEMMA TreeOfNode ==
  ASSUME NEW p, Path(p), NEW node
  PROVE  Tree(p, [s \in {p} |-> node])
BY AboveIsNotUnder DEF Tree, Under, Path

LEMMA DocumentPutNode ==
  ASSUME NEW d, Document(d), NEW p, Path(p), NEW node
  PROVE  Document(PutNode(d, p, node))
BY TreeOfNode, DocumentPut DEF PutNode

LEMMA DocumentRemove ==
  ASSUME NEW d, Document(d), NEW p, Path(p), p # <<>>
  PROVE  Document(Remove(d, p))
<1>1. ~Under(p, <<>>)
  <2>1. Len(p) # 0 /\ Len(p) \in Nat
    BY DEF Path
  <2> QED
    BY <2>1 DEF Under
<1>2. ASSUME NEW s \in DOMAIN d, ~Under(p, s), NEW t \in Above(s)
      PROVE  t \in DOMAIN d /\ d[t] = Object /\ ~Under(p, t)
  BY <1>2, AboveUnder DEF Document
<1> QED
  BY <1>1, <1>2 DEF Document, Remove

LEMMA DocumentEnsured ==
  ASSUME NEW d, Document(d), NEW p, Path(p)
  PROVE  Document(Ensured(d, p))
<1>1. ASSUME NEW s \in Above(p) \cup {p}, NEW t \in Above(s) PROVE t \in Above(p)
  BY <1>1, Prefixes, AboveUnder
<1>2. \A s \in Above(p) : Path(s)
  BY Prefixes
<1> QED
  BY <1>1, <1>2 DEF Document, Ensured

LEMMA AgentModelAt ==
  ASSUME NEW id, NEW at, at = Append(AgentModels, id)
  PROVE  /\ Path(at) /\ Len(at) = 4 /\ Under(AgentModels, at)
         /\ \A s : Under(at, s) => Under(AgentModels, s) /\ s # AgentModels
<1>1. Path(at) /\ Len(at) = Len(AgentModels) + 1 /\ Under(AgentModels, at)
  <2>1. Path(AgentModels)
    BY AgentPaths
  <2> QED
    BY <2>1, PathAppend, Zenon
<1> QED
  BY <1>1, AgentPaths DEF Under

LEMMA AgentModelsUnder ==
  ASSUME NEW d, NEW ids, NEW s \in DOMAIN BuildAgentModels(d, ids)
  PROVE  Under(AgentModels, s)
<1>1. Under(AgentModels, AgentModels)
  BY AgentPaths DEF Under
<1> QED
  BY <1>1, AgentModelAt DEF BuildAgentModels

LEMMA AgentModelsTree ==
  ASSUME NEW d, Document(d), NEW ids
  PROVE  Tree(AgentModels, BuildAgentModels(d, ids))
<1> DEFINE At(i) == Append(AgentModels, ids[i])
           kept == {s \in DOMAIN d : \E i \in 1 .. Len(ids) : Under(At(i), s)}
           tree == BuildAgentModels(d, ids)
<1>1. /\ DOMAIN tree = {AgentModels} \cup {At(i) : i \in 1 .. Len(ids)} \cup kept
      /\ \A s \in DOMAIN tree : tree[s] = IF s \in kept THEN d[s] ELSE Object
  BY DEF BuildAgentModels
<1>2. ASSUME NEW i
      PROVE  Path(At(i)) /\ Len(At(i)) = 4 /\ Under(AgentModels, At(i))
  BY AgentModelAt
<1>3. ASSUME NEW i, NEW s, Under(At(i), s) PROVE Under(AgentModels, s) /\ s # AgentModels
  BY <1>3, AgentModelAt
<1> HIDE DEF At
<1>4. \A s \in kept : Path(s) /\ Under(AgentModels, s) /\ s # AgentModels
  BY <1>3 DEF Document
<1>5. \A s \in DOMAIN tree : Path(s) /\ Under(AgentModels, s)
  <2>1. Under(AgentModels, AgentModels)
    BY AgentPaths DEF Under
  <2> HIDE DEF tree, kept
  <2> QED
    BY <1>1, <1>2, <1>4, <2>1, AgentPaths
<1>6. ASSUME NEW s \in DOMAIN tree, NEW t \in Above(s), Under(AgentModels, t)
      PROVE  t \in DOMAIN tree /\ tree[t] = Object
  <2>1. /\ Path(s) /\ Path(t) /\ Len(t) \in Nat /\ Len(t) < Len(s)
        /\ \A i \in 1 .. Len(t) : t[i] = s[i]
    BY <1>5, <1>6, Prefixes
  <2>2. CASE Len(t) <= 3
    <3>1. t = AgentModels
      <4>1. Path(AgentModels) /\ Len(t) <= Len(AgentModels)
        BY <2>2, AgentPaths
      <4> QED
        BY <1>6, <2>1, <4>1, OnlyPath
    <3> QED
      BY <1>1, <1>4, <3>1
  <2>3. CASE Len(t) > 3
    <3>1. s \in kept
      <4> HIDE DEF tree, kept
      <4>1. Len(s) > 4
        BY <2>1, <2>3 DEF Path
      <4>2. s # AgentModels
        <5>1. Len(AgentModels) < Len(s)
          BY <4>1, AgentPaths
        <5> QED
          BY <5>1
      <4>3. ASSUME NEW i, s = At(i) PROVE FALSE
        <5>1. Len(At(i)) < Len(s)
          BY <1>2, <4>1
        <5> QED
          BY <4>3, <5>1
      <4> QED
        BY <1>1, <1>6, <4>2, <4>3
    <3>2. PICK i \in 1 .. Len(ids) : Under(At(i), s)
      BY <3>1
    <3>3. Under(At(i), t)
      <4> HIDE DEF kept, tree
      <4>1. Len(At(i)) = 4 /\ \A j \in 1 .. 4 : s[j] = At(i)[j]
        BY <1>2, <3>2 DEF Under
      <4>2. Len(t) \in Nat /\ Len(t) > 3 /\ \A j \in 1 .. Len(t) : t[j] = s[j]
        BY <2>1, <2>3 DEF Path
      <4> QED
        BY <4>1, <4>2 DEF Under
    <3>4. t \in DOMAIN d /\ d[t] = Object
      BY <1>6, <3>1 DEF Document
    <3> QED
      BY <1>1, <3>3, <3>4
  <2> QED
    BY <2>1, <2>2, <2>3
<1> HIDE DEF tree
<1>7. AgentModels \in DOMAIN tree
  BY <1>1
<1> QED
  BY <1>5, <1>6, <1>7 DEF Tree, tree

LEMMA DocumentLLM ==
  ASSUME NEW d, Document(d), NEW e
  PROVE  Document(NormalizeLLM(d, e))
<1>1. ASSUME NEW f, Document(f) PROVE Document(WithBaseURL(f, e)) /\ Document(WithAPIKey(f, e))
  BY <1>1, DocumentPutNode, ProviderPaths DEF WithBaseURL, WithAPIKey
<1>2. ASSUME NEW f, Document(f) PROVE Document(WithModels(f, e))
  <2> DEFINE listed == PutNode(f, ProviderModels, ModelList(BuildProviderModels(f, IDs(e))))
             named == PutNode(Ensured(listed, DefaultModel), Primary, Text(IDs(e)[1]))
  <2>1. Path(Primary)
    BY FieldPaths DEF Fields
  <2>2. Document(listed)
    BY <1>2, DocumentPutNode, ProviderPaths
  <2>3. Document(named)
    <3> HIDE DEF listed
    <3> QED
      BY <2>1, <2>2, DocumentPutNode, DocumentEnsured, AgentPaths
  <2>4. Document(Put(named, AgentModels, BuildAgentModels(named, IDs(e))))
    <3> HIDE DEF named
    <3> QED
      BY <2>3, DocumentPut, AgentModelsTree, AgentPaths
  <2> QED
    BY <1>2, <2>4 DEF WithModels, Primary
<1> QED
  BY <1>1, <1>2, DocumentEnsured, ProviderPaths DEF NormalizeLLM

LEMMA DocumentRewritten ==
  ASSUME NEW d, Document(d)
  PROVE  Document(RewriteInstalledPluginPaths(d))
<1>1. Object.kind # "path"
  BY DEF Object
<1> QED
  BY <1>1 DEF Document, RewriteInstalledPluginPaths

LEMMA BelowChannel ==
  ASSUME NEW m, m \in {2, 3}, NEW n, n \in Nat, n < m
  PROVE  n = 0 \/ n = 1 \/ n = 2
OBVIOUS

LEMMA DocumentReconciled ==
  ASSUME NEW d, Document(d), NEW e, NEW ext
  PROVE  Document(ReconcileChannels(d, e, ext))
<1> DEFINE base == Ensured(d, <<"channels">>)
           kept == {s \in DOMAIN base :
                      Len(s) >= 2 /\ s[1] = "channels" => s[2] \in Kept(e, ext)}
           new == UNION {DOMAIN ChannelTree(c, e.channels[c]) : c \in FromEnv(e, ext)}
           f == ReconcileChannels(d, e, ext)
<1>1. /\ DOMAIN f = kept \cup new
      /\ \A s \in new : f[s] = ChannelTree(s[2], e.channels[s[2]])[s]
      /\ \A s \in kept \ new : f[s] = base[s]
  BY DEF ReconcileChannels
<1>2. Path(<<"channels">>)
  BY DEF Path
<1>3. Document(base) /\ base[<<"channels">>] = Object /\ <<"channels">> \in DOMAIN base
  <2>1. Document(base)
    BY <1>2, DocumentEnsured
  <2> QED
    BY <2>1 DEF Ensured
<1> HIDE DEF base, f
<1>4. ASSUME NEW s \in new
      PROVE  \E c \in FromEnv(e, ext) :
               /\ s \in {ChannelAt(c), Token(c)}
               /\ Path(s) /\ Len(s) \in {2, 3} /\ s[1] = "channels" /\ s[2] = c
               /\ s = ChannelAt(c) => f[s] = Object
  <2>1. PICK c \in FromEnv(e, ext) :
          /\ s \in {ChannelAt(c), Token(c)}
          /\ s \in DOMAIN ChannelTree(c, e.channels[c])
    <3>1. PICK c \in FromEnv(e, ext) : s \in DOMAIN ChannelTree(c, e.channels[c])
      BY <1>4
    <3>2. s \in {ChannelAt(c), Token(c)}
      BY <3>1 DEF ChannelTree, Token
    <3> QED
      BY <3>1, <3>2
  <2>2. Path(s) /\ Len(s) \in {2, 3} /\ s[1] = "channels" /\ s[2] = c
    <3>1. CASE s = ChannelAt(c)
      BY <3>1, ChannelPaths
    <3>2. CASE s = Token(c)
      BY <3>2, ChannelPaths
    <3> QED
      BY <2>1, <3>1, <3>2
  <2>3. s = ChannelAt(c) => f[s] = Object
    <3>1. f[s] = ChannelTree(c, e.channels[c])[s]
      BY <1>1, <1>4, <2>2
    <3> QED
      BY <2>1, <3>1 DEF ChannelTree, Token
  <2> QED
    BY <2>1, <2>2, <2>3
<1>5. ASSUME NEW s \in new PROVE s \notin kept
  <2>1. PICK c \in FromEnv(e, ext) : Len(s) \in {2, 3} /\ s[1] = "channels" /\ s[2] = c
    BY <1>4, <1>5
  <2>2. s[2] \notin Kept(e, ext) /\ Len(s) >= 2
    BY <2>1 DEF Kept
  <2> QED
    BY <2>1, <2>2
<1>6. ASSUME NEW s \in kept, NEW t \in Above(s) PROVE t \in DOMAIN f /\ f[t] = Object
  <2>1. t \in DOMAIN base /\ base[t] = Object /\ Path(s)
    BY <1>3, <1>6 DEF Document
  <2>2. Len(t) < Len(s) /\ Len(t) \in Nat /\ Len(s) \in Nat /\ \A i \in 1 .. Len(t) : t[i] = s[i]
    BY <1>6, <2>1, Prefixes DEF Path
  <2>3. t \in kept
    BY <1>6, <2>1, <2>2
  <2> QED
    BY <1>1, <1>5, <2>1, <2>3
<1>7. ASSUME NEW s \in new, NEW t \in Above(s) PROVE t \in DOMAIN f /\ f[t] = Object
  <2>1. PICK c \in FromEnv(e, ext) :
               /\ s \in {ChannelAt(c), Token(c)}
               /\ Path(s) /\ Len(s) \in {2, 3} /\ s[1] = "channels" /\ s[2] = c
    BY <1>4, <1>7
  <2>2. /\ Path(t) /\ Len(t) \in Nat /\ Len(t) < Len(s)
        /\ \A i \in 1 .. Len(t) : t[i] = s[i]
    BY <1>7, <2>1, Prefixes
  <2>3. Len(t) = 0 \/ Len(t) = 1 \/ Len(t) = 2
    BY <2>1, <2>2, BelowChannel, Zenon
  <2>4. ASSUME t \in {<<>>, <<"channels">>}, Len(t) < 2 PROVE t \in DOMAIN f /\ f[t] = Object
    <3>1. t \in DOMAIN base /\ base[t] = Object
      BY <1>2, <1>3, <2>4 DEF Document, Above
    <3>2. t \in kept
      BY <2>4, <3>1
    <3> QED
      BY <1>1, <1>5, <3>1, <3>2
  <2>5. CASE Len(t) = 0
    <3>1. t = <<>>
      BY <2>2, <2>5 DEF Path
    <3> QED
      BY <2>4, <2>5, <3>1
  <2>6. CASE Len(t) = 1
    <3>1. t[1] = "channels"
      BY <2>1, <2>2, <2>6
    <3>2. t = <<"channels">>
      BY <1>2, <2>2, <2>6, <3>1, SamePath
    <3> QED
      BY <2>4, <2>6, <3>2
  <2>7. CASE Len(t) = 2
    <3>1. t[1] = "channels" /\ t[2] = c
      BY <2>1, <2>2, <2>7
    <3>2. /\ Path(ChannelAt(c)) /\ Len(ChannelAt(c)) = 2
          /\ ChannelAt(c)[1] = "channels" /\ ChannelAt(c)[2] = c
      BY ChannelPaths
    <3>3. t = ChannelAt(c)
      BY <2>2, <2>7, <3>1, <3>2, SamePath
    <3>4. t \in new
      BY <3>3 DEF ChannelTree, Token
    <3> QED
      BY <1>1, <1>4, <3>1, <3>3, <3>4
  <2> QED
    BY <2>3, <2>5, <2>6, <2>7
<1>8. <<>> \in kept
  BY <1>3 DEF Document
<1>9. \A s \in DOMAIN f : Path(s)
  BY <1>1, <1>3, <1>4 DEF Document
<1> QED
  BY <1>1, <1>6, <1>7, <1>8, <1>9 DEF Document, f

LEMMA DocumentNormalized ==
  ASSUME NEW d, Document(d), NEW e, NEW ext
  PROVE  Document(Normalize(d, e, ext))
BY DocumentLLM, DocumentRewritten, DocumentReconciled DEF Normalize
-----------------------------------------------------------------------------
(* The list of model ids: every id of the environment once. *)
LEMMA RankOfFirst ==
  ASSUME NEW raw, Len(raw) \in Nat
  PROVE  /\ IsFiniteSet(Firsts(raw)) /\ Cardinality(Firsts(raw)) \in Nat
         /\ \A i \in Firsts(raw) : Rank(raw, i) \in 1 .. Cardinality(Firsts(raw))
         /\ \A i, j \in Firsts(raw) : i < j => Rank(raw, i) < Rank(raw, j)
<1> DEFINE S == Firsts(raw)
           T(i) == {j \in S : j <= i}
<1>1. IsFiniteSet(S) /\ S \subseteq Int
  <2>1. S \subseteq 1 .. Len(raw)
    BY DEF Firsts
  <2>2. IsFiniteSet(1 .. Len(raw)) /\ 1 .. Len(raw) \subseteq Int
    BY FS_Interval
  <2> HIDE DEF S
  <2> QED
    BY <2>1, <2>2, FS_Subset
<1> HIDE DEF S
<1>2. \A i : T(i) \subseteq S /\ IsFiniteSet(T(i))
  BY <1>1, FS_Subset
<1>3. ASSUME NEW i \in S PROVE Cardinality(T(i)) \in 1 .. Cardinality(S)
  <2>1. i \in T(i)
    BY <1>1, <1>3
  <2>2. Cardinality(T(i)) # 0
    BY <1>2, <2>1, FS_EmptySet
  <2> QED
    BY <1>1, <1>2, <2>2, FS_Subset, FS_CardinalityType
<1>4. ASSUME NEW i \in S, NEW j \in S, i < j PROVE Cardinality(T(i)) < Cardinality(T(j))
  <2>1. i \in Int /\ j \in Int
    BY <1>1
  <2>2. T(i) \subseteq T(j) /\ j \in T(j) /\ j \notin T(i)
    <3>1. ASSUME NEW k \in T(i) PROVE k \in T(j)
      <4>1. k \in Int /\ k <= i /\ k \in S
        BY <1>1, <3>1
      <4> QED
        BY <1>4, <2>1, <4>1
    <3>2. j \in T(j) /\ j \notin T(i)
      BY <1>4, <2>1
    <3> QED
      BY <3>1, <3>2
  <2> HIDE DEF T
  <2>3. Cardinality(T(i)) <= Cardinality(T(j)) /\ Cardinality(T(i)) # Cardinality(T(j))
    BY <1>2, <2>2, FS_Subset
  <2> QED
    BY <1>2, <2>3, FS_CardinalityType
<1> QED
  BY <1>1, <1>3, <1>4, FS_CardinalityType DEF Rank, S

LEMMA RankIsReached ==
  ASSUME NEW raw, Len(raw) \in Nat, NEW k \in 1 .. Cardinality(Firsts(raw))
  PROVE  \E i \in Firsts(raw) : Rank(raw, i) = k
<1> DEFINE S == Firsts(raw)
           N == 1 .. Cardinality(S)
           f == [i \in S |-> Rank(raw, i)]
<1>1. /\ IsFiniteSet(S) /\ Cardinality(S) \in Nat /\ S \subseteq Int
      /\ \A i \in S : Rank(raw, i) \in N
      /\ \A i, j \in S : i < j => Rank(raw, i) < Rank(raw, j)
  <2>1. S \subseteq Int
    BY DEF Firsts
  <2> QED
    BY <2>1, RankOfFirst
<1> HIDE DEF S
<1>2. f \in Injection(S, N)
  BY <1>1 DEF Injection, IsInjective
<1>3. IsFiniteSet(N) /\ Cardinality(N) = Cardinality(S)
  BY <1>1, FS_Interval
<1>4. f \in Surjection(S, N)
  BY <1>2, <1>3, FS_Injection
<1> QED
  BY <1>4 DEF Surjection, S

(* An id that occurs has a first place. *)
LEMMA FirstPlace ==
  ASSUME NEW raw, Len(raw) \in Nat, NEW k \in 1 .. Len(raw), raw[k] # Blank
  PROVE  \E i \in Firsts(raw) : raw[i] = raw[k]
<1> DEFINE P == {i \in Nat : i \in 1 .. Len(raw) /\ raw[i] = raw[k]}
<1>1. k \in P
  OBVIOUS
<1>2. PICK i \in P : \A j \in P : ~(j < i)
  <2>1. \E i \in P : \A j \in P : <<j, i>> \notin OpToRel(<, Nat)
    BY <1>1, NatLessThanWellFounded, WFMin, Zenon
  <2> QED
    BY <2>1 DEF OpToRel
<1> QED
  BY <1>2 DEF Firsts

LEMMA ModelIDs ==
  ASSUME NEW raw, List(raw), NEW ids, ids = UniqueIDs(raw)
  PROVE  /\ List(ids) /\ ids = [i \in 1 .. Len(ids) |-> ids[i]]
         /\ {ids[i] : i \in 1 .. Len(ids)} = {raw[i] : i \in DOMAIN raw} \ {Blank}
         /\ \A i, j \in 1 .. Len(ids) : ids[i] = ids[j] => i = j
         /\ raw = <<>> => ids = <<>>
<1> DEFINE S == Firsts(raw)
           At(k) == CHOOSE i \in S : Rank(raw, i) = k
<1>1. Len(raw) \in Nat /\ DOMAIN raw = 1 .. Len(raw)
  BY DEF List
<1>2. Cardinality(S) \in Nat
  BY <1>1, RankOfFirst
<1>3. Len(ids) = Cardinality(S) /\ ids = [k \in 1 .. Len(ids) |-> raw[At(k)]]
  BY <1>2 DEF UniqueIDs
<1>4. ASSUME NEW k \in 1 .. Len(ids) PROVE At(k) \in S /\ Rank(raw, At(k)) = k
  BY <1>1, <1>3, <1>4, RankIsReached
<1>5. ASSUME NEW i \in S PROVE \E k \in 1 .. Len(ids) : At(k) = i
  <2> DEFINE k == Rank(raw, i)
  <2>1. k \in 1 .. Len(ids)
    BY <1>1, <1>3, <1>5, RankOfFirst
  <2>2. At(k) \in S /\ Rank(raw, At(k)) = k
    BY <1>4, <2>1
  <2>3. i \in Int /\ At(k) \in Int
    BY <1>1, <1>5, <2>2 DEF Firsts
  <2>4. At(k) = i
    <3> HIDE DEF At, S
    <3>1. ~(At(k) < i) /\ ~(i < At(k))
      BY <1>1, <1>2, <1>5, <2>1, <2>2, RankOfFirst DEF S
    <3> QED
      BY <2>3, <3>1
  <2> QED
    BY <2>1, <2>4
<1>6. \A i \in S : i \in 1 .. Len(raw) /\ raw[i] # Blank
  BY DEF Firsts
<1>7. ASSUME NEW i \in S, NEW j \in S, raw[i] = raw[j] PROVE i = j
  <2>1. ~(i < j) /\ ~(j < i)
    BY <1>1, <1>7 DEF Firsts
  <2> QED
    BY <1>1, <1>6, <1>7, <2>1
<1>8. {ids[i] : i \in 1 .. Len(ids)} = {raw[i] : i \in DOMAIN raw} \ {Blank}
  <2>1. ASSUME NEW k \in 1 .. Len(raw), raw[k] # Blank PROVE \E i \in S : raw[i] = raw[k]
    BY <1>1, <2>1, FirstPlace
  <2> HIDE DEF S, At
  <2>2. ASSUME NEW k \in 1 .. Len(ids)
        PROVE ids[k] \in {raw[i] : i \in 1 .. Len(raw)} \ {Blank}
    BY <1>3, <1>4, <1>6, <2>2
  <2>3. ASSUME NEW k \in 1 .. Len(raw), raw[k] # Blank
        PROVE  raw[k] \in {ids[i] : i \in 1 .. Len(ids)}
    BY <1>3, <1>5, <2>1, <2>3
  <2> QED
    BY <1>1, <2>2, <2>3
<1>9. ASSUME NEW i \in 1 .. Len(ids), NEW j \in 1 .. Len(ids), ids[i] = ids[j] PROVE i = j
  <2> HIDE DEF S, At
  <2> QED
    BY <1>3, <1>4, <1>7, <1>9
<1>10. ASSUME raw = <<>> PROVE ids = <<>>
  <2>1. S = {}
    BY <1>10 DEF Firsts
  <2> QED
    BY <1>3, <2>1, FS_EmptySet
<1> HIDE DEF S, At
<1> QED
  BY <1>2, <1>3, <1>8, <1>9, <1>10 DEF List
-----------------------------------------------------------------------------
(* Which of the nodes a step writes are lists and paths. *)
LEMMA NodesPut ==
  ASSUME NEW d, Nodes(d), NEW p, NEW tree, Nodes(tree)
  PROVE  Nodes(Put(d, p, tree))
BY DEF Nodes, Put, Object

LEMMA NodesPutNode ==
  ASSUME NEW d, Nodes(d), NEW p, NEW node,
         \/ \E v : node = Text(v)
         \/ \E items : node = ModelList(items) /\ List(items)
  PROVE  Nodes(PutNode(d, p, node))
<1>1. node.kind = "text" \/ (node.kind = "models" /\ List(node.models))
  BY DEF Text, ModelList
<1>2. Nodes([s \in {p} |-> node])
  BY <1>1 DEF Nodes
<1> QED
  BY <1>2, NodesPut DEF PutNode

LEMMA NodesEnsured ==
  ASSUME NEW d, Nodes(d), NEW p
  PROVE  Nodes(Ensured(d, p))
BY DEF Nodes, Ensured, Object

LEMMA NodesLLM ==
  ASSUME NEW d, Nodes(d), NEW e \in Environment
  PROVE  Nodes(NormalizeLLM(d, e))
<1>1. List(IDs(e))
  BY EnvironmentAssumption, ModelIDs DEF IDs
<1>2. ASSUME NEW f, Nodes(f) PROVE Nodes(WithBaseURL(f, e)) /\ Nodes(WithAPIKey(f, e))
  BY <1>2, NodesPutNode DEF WithBaseURL, WithAPIKey
<1>3. ASSUME NEW f, Nodes(f) PROVE Nodes(WithModels(f, e))
  <2> DEFINE listed == PutNode(f, ProviderModels, ModelList(BuildProviderModels(f, IDs(e))))
             named == PutNode(Ensured(listed, DefaultModel), Primary, Text(IDs(e)[1]))
  <2>1. List(BuildProviderModels(f, IDs(e)))
    BY <1>1 DEF List, BuildProviderModels
  <2>2. Nodes(listed)
    BY <1>3, <2>1, NodesPutNode
  <2>3. Nodes(named)
    <3> HIDE DEF listed
    <3> QED
      BY <2>2, NodesPutNode, NodesEnsured
  <2>4. Nodes(BuildAgentModels(named, IDs(e)))
    <3> HIDE DEF named
    <3> QED
      BY <2>3 DEF Nodes, BuildAgentModels, Object
  <2>5. Nodes(Put(named, AgentModels, BuildAgentModels(named, IDs(e))))
    <3> HIDE DEF named
    <3> QED
      BY <2>3, <2>4, NodesPut
  <2> QED
    BY <1>3, <2>5 DEF WithModels, Primary
<1> QED
  BY <1>2, <1>3, NodesEnsured DEF NormalizeLLM

(* A path that has been moved is below the user's directory. *)
LEMMA MovedPath ==
  ASSUME NEW n, Path(n.path), Under(Prefix, n.path)
  PROVE  Path(Moved(n).path) /\ ~Under(Prefix, Moved(n).path) /\ Moved(n).kind = "path"
<1>1. Moved(n) = [kind |-> "path", path |-> UserDir \o Below(Prefix, n.path)]
  BY DEF Moved, PluginPath
<1>2. Path(Prefix) /\ Path(UserDir) /\ ~Under(Prefix, UserDir) /\ ~Under(UserDir, Prefix)
  BY PathAssumption
<1> DEFINE rest == Below(Prefix, n.path)
           S == {UserDir[i] : i \in 1 .. Len(UserDir)} \cup {n.path[i] : i \in 1 .. Len(n.path)}
<1>3. UserDir \in Seq(S) /\ n.path \in Seq(S)
  <2>1. \A i \in 1 .. Len(UserDir) : UserDir[i] \in S
    OBVIOUS
  <2>2. \A i \in 1 .. Len(n.path) : n.path[i] \in S
    OBVIOUS
  <2> HIDE DEF S
  <2> QED
    BY <1>2, <2>1, <2>2, PathIsSeq
<1> HIDE DEF S
<1>4. rest \in Seq(S)
  BY <1>2, <1>3, SubSeqProperties DEF Below, Under, Path
<1> HIDE DEF rest
<1>5. /\ UserDir \o rest \in Seq(S)
      /\ \A i \in 1 .. Len(UserDir) : (UserDir \o rest)[i] = UserDir[i]
      /\ Len(UserDir) <= Len(UserDir \o rest)
  BY <1>3, <1>4, ConcatProperties, LenProperties
<1>6. Path(UserDir \o rest)
  BY <1>5, LenProperties DEF Path
<1>7. ~Under(Prefix, UserDir \o rest)
  BY <1>2, <1>5, <1>6 DEF Under, Path
<1> QED
  BY <1>1, <1>6, <1>7 DEF rest

LEMMA NodesNormalized ==
  ASSUME NEW d, Nodes(d), NEW e \in Environment, NEW ext
  PROVE  Nodes(Normalize(d, e, ext))
<1>1. ASSUME NEW f, Nodes(f) PROVE Nodes(RewriteInstalledPluginPaths(f))
  BY <1>1, MovedPath DEF Nodes, RewriteInstalledPluginPaths, Moved
<1>2. ASSUME NEW f, Nodes(f) PROVE Nodes(ReconcileChannels(f, e, ext))
  <2>1. Nodes(Ensured(f, <<"channels">>))
    BY <1>2, NodesEnsured
  <2>2. ASSUME NEW s, NEW c \in FromEnv(e, ext), s \in DOMAIN ChannelTree(c, e.channels[c])
        PROVE  ChannelTree(s[2], e.channels[s[2]])[s].kind \in {"object", "text"}
    <3>1. s[2] = c
      BY <2>2, ChannelPaths DEF ChannelTree, Token
    <3> QED
      BY <2>2, <3>1 DEF ChannelTree, Token, Object, Text
  <2> QED
    BY <2>1, <2>2 DEF Nodes, ReconcileChannels
<1> QED
  BY <1>1, <1>2, NodesLLM DEF Normalize
-----------------------------------------------------------------------------
(* A path that guards nothing and has nothing guarded below it. *)
Elsewhere(s) == ~Guarded(s) /\ ~Parent(s)

(* d and e have the same at s, or both nothing. *)
Agree(d, e, s) == s \in DOMAIN d \cup DOMAIN e => s \in DOMAIN d \cap DOMAIN e /\ e[s] = d[s]

(* What is captured of a field is a subtree that can stand there, or nothing. *)
BaselineOK ==
  /\ baseline = [p \in GuardPaths |-> baseline[p]]
  /\ \A p \in GuardPaths :
       /\ \A s \in DOMAIN baseline[p] : Under(p, s)
       /\ baseline[p] = [s \in DOMAIN baseline[p] |-> baseline[p][s]]
       /\ baseline[p] = <<>> \/ Tree(p, baseline[p])
       /\ Nodes(baseline[p])

LEMMA RestoredField ==
  ASSUME BaselineOK, NEW d, NEW p \in GuardPaths
  PROVE  /\ Sub(RestoreAt(d, p), p) = baseline[p]
         /\ \A q \in GuardPaths : q # p => Sub(RestoreAt(d, p), q) = Sub(d, q)
         /\ \A s : Elsewhere(s) => Agree(d, RestoreAt(d, p), s)
<1>1. /\ Path(p) /\ \A s \in DOMAIN baseline[p] : Under(p, s)
      /\ baseline[p] = [s \in DOMAIN baseline[p] |-> baseline[p][s]]
  BY GuardPathsApart DEF BaselineOK
<1>2. Sub(RestoreAt(d, p), p) = baseline[p]
  BY <1>1, SubAtPut, SubAtRemove DEF RestoreAt
<1>3. ASSUME NEW q \in GuardPaths, q # p PROVE Sub(RestoreAt(d, p), q) = Sub(d, q)
  BY <1>1, <1>3, GuardPathsApart, SubOfPut, SubOfRemove DEF RestoreAt
<1>4. ASSUME NEW s, Elsewhere(s) PROVE Agree(d, RestoreAt(d, p), s)
  <2>1. ~Under(p, s) /\ s \notin Above(p) /\ s \notin DOMAIN baseline[p]
    BY <1>1, <1>4 DEF Elsewhere, Guarded, Parent
  <2> QED
    BY <2>1 DEF RestoreAt, Put, Remove, Agree
<1> QED
  BY <1>2, <1>3, <1>4

LEMMA RestoredAll ==
  ASSUME BaselineOK, NEW d
  PROVE  /\ \A p \in GuardPaths : Sub(Restored(d), p) = baseline[p]
         /\ \A s : Elsewhere(s) => Agree(d, Restored(d), s)
<1> DEFINE d1 == RestoreAt(d, BaseURL)
           d2 == RestoreAt(d1, APIKey)
           d3 == RestoreAt(d2, ProviderModels)
<1>1. Restored(d) = RestoreAt(d3, DefaultModel)
  BY DEF Restored
<1> HIDE DEF d1, d2, d3
<1>2. /\ Sub(d1, BaseURL) = baseline[BaseURL]
      /\ \A s : Elsewhere(s) => Agree(d, d1, s)
  BY RestoredField DEF GuardPaths, d1
<1>3. /\ Sub(d2, BaseURL) = baseline[BaseURL] /\ Sub(d2, APIKey) = baseline[APIKey]
      /\ \A s : Elsewhere(s) => Agree(d, d2, s)
  <2>1. /\ Sub(d2, APIKey) = baseline[APIKey] /\ Sub(d2, BaseURL) = Sub(d1, BaseURL)
        /\ \A s : Elsewhere(s) => Agree(d1, d2, s)
    BY RestoredField, GuardPathsApart DEF GuardPaths, d2
  <2> QED
    BY <1>2, <2>1 DEF Agree
<1>4. /\ Sub(d3, BaseURL) = baseline[BaseURL] /\ Sub(d3, APIKey) = baseline[APIKey]
      /\ Sub(d3, ProviderModels) = baseline[ProviderModels]
      /\ \A s : Elsewhere(s) => Agree(d, d3, s)
  <2>1. /\ Sub(d3, ProviderModels) = baseline[ProviderModels]
        /\ Sub(d3, BaseURL) = Sub(d2, BaseURL) /\ Sub(d3, APIKey) = Sub(d2, APIKey)
        /\ \A s : Elsewhere(s) => Agree(d2, d3, s)
    BY RestoredField, GuardPathsApart DEF GuardPaths, d3
  <2> QED
    BY <1>3, <2>1 DEF Agree
<1>5. /\ Sub(Restored(d), DefaultModel) = baseline[DefaultModel]
      /\ \A p \in GuardPaths : p # DefaultModel => Sub(Restored(d), p) = Sub(d3, p)
      /\ \A s : Elsewhere(s) => Agree(d3, Restored(d), s)
  BY <1>1, RestoredField DEF GuardPaths
<1>6. \A p \in GuardPaths : Sub(Restored(d), p) = baseline[p]
  BY <1>4, <1>5 DEF GuardPaths
<1>7. \A s : Elsewhere(s) => Agree(d, Restored(d), s)
  BY <1>4, <1>5 DEF Agree
<1> QED
  BY <1>6, <1>7

LEMMA DocumentRestored ==
  ASSUME BaselineOK, NEW f, Document(f)
  PROVE  Document(Restored(f))
<1>1. ASSUME NEW d, Document(d), NEW p \in GuardPaths PROVE Document(RestoreAt(d, p))
  <2>1. Path(p)
    BY GuardPathsApart
  <2>2. p # <<>>
    <3>1. Len(BaseURL) = 4 /\ Len(APIKey) = 4 /\ Len(ProviderModels) = 4 /\ Len(DefaultModel) = 3
      BY ProviderPaths, AgentPaths
    <3> QED
      BY <3>1 DEF GuardPaths
  <2> QED
    BY <1>1, <2>1, <2>2, DocumentPut, DocumentRemove DEF RestoreAt, BaselineOK
<1> QED
  BY <1>1 DEF Restored, GuardPaths

(* The type invariant, inductive with what it says of the baseline. *)
Typed == TypeOK /\ BaselineOK

LEMMA NodesRestored ==
  ASSUME BaselineOK, NEW f, Nodes(f)
  PROVE  Nodes(Restored(f))
<1>1. ASSUME NEW d, Nodes(d), NEW p \in GuardPaths PROVE Nodes(RestoreAt(d, p))
  <2>1. Nodes(Remove(d, p))
    BY <1>1 DEF Nodes, Remove
  <2> QED
    BY <1>1, <2>1, NodesPut DEF RestoreAt, BaselineOK
<1> QED
  BY <1>1 DEF Restored, GuardPaths

LEMMA EmptyTree == DOMAIN <<>> = {} /\ <<>> = [s \in {} |-> <<>>[s]] /\ Nodes(<<>>)
BY DEF Nodes

LEMMA CapturedFields ==
  ASSUME NEW d, Document(d), Nodes(d), baseline' = Captured(d)
  PROVE  BaselineOK' /\ DOMAIN baseline' = GuardPaths
<1>1. ASSUME NEW p \in GuardPaths
      PROVE  /\ \A s \in DOMAIN Sub(d, p) : Under(p, s)
             /\ Sub(d, p) = [s \in DOMAIN Sub(d, p) |-> Sub(d, p)[s]]
             /\ Sub(d, p) = <<>> \/ Tree(p, Sub(d, p))
             /\ Nodes(Sub(d, p))
  <2>1. Path(p)
    BY GuardPathsApart
  <2>2. ASSUME p \notin DOMAIN d PROVE Sub(d, p) = <<>>
    <3>1. ASSUME NEW s \in DOMAIN d, Under(p, s) PROVE FALSE
      <4>1. Path(s) /\ p # s
        BY <2>2, <3>1 DEF Document
      <4>2. Len(p) < Len(s)
        BY <2>1, <3>1, <4>1, SamePath DEF Under, Path
      <4>3. p \in Above(s)
        BY <2>1, <3>1, <4>1, <4>2, IsAbove DEF Under
      <4> QED
        BY <2>2, <3>1, <4>3 DEF Document
    <3> QED
      BY <3>1, EmptyTree DEF Sub
  <2>3. ASSUME p \in DOMAIN d PROVE Tree(p, Sub(d, p))
    <3>1. Under(p, p)
      BY <2>1 DEF Under, Path
    <3> QED
      BY <2>3, <3>1 DEF Tree, Sub, Document
  <2>4. Nodes(Sub(d, p))
    BY DEF Nodes, Sub
  <2> QED
    BY <2>2, <2>3, <2>4 DEF Sub
<1> QED
  BY <1>1 DEF Captured, BaselineOK

LEMMA InitTyped == Init => Typed
<1> SUFFICES ASSUME Init PROVE Typed
  OBVIOUS
<1>1. BaselineOK
  BY EmptyTree DEF Init, BaselineOK
<1>2. Document(doc) /\ Nodes(doc) /\ DOMAIN baseline = GuardPaths /\ DOMAIN mine \subseteq Channel
  BY EmptyTree, DocumentAssumption DEF Init
<1>3. /\ env \in Environment /\ extensions \subseteq Channel
      /\ armed \in BOOLEAN /\ disturbed \in BOOLEAN /\ resumed \in BOOLEAN
      /\ step \in {"free", "normalizing", "capturing", "restoring"} /\ ~Holding
  BY DEF Init, Holding
<1>4. edits \in 0 .. MaxEdits /\ starts \in 0 .. MaxStarts
  BY BoundAssumption DEF Init
<1> QED
  BY <1>1, <1>2, <1>3, <1>4 DEF Typed, TypeOK, BaselineOK

LEMMA TypedStep ==
  ASSUME Typed, [Next]_vars
  PROVE  Typed'
<1> USE DEF Typed, TypeOK
<1>1. ASSUME UNCHANGED baseline PROVE BaselineOK'
  BY <1>1 DEF BaselineOK
<1>2. ASSUME NEW e \in Environment, Start(e) PROVE Typed'
  <2>1. Holding' => read' = doc
    BY <1>2 DEF Start, Holding
  <2>2. /\ armed' \in BOOLEAN /\ disturbed' \in BOOLEAN /\ resumed' \in BOOLEAN
        /\ step' \in {"free", "normalizing", "capturing", "restoring"}
    BY <1>2, EnvironmentAssumption DEF Start
  <2> QED
    BY <1>1, <1>2, <2>1, <2>2, BoundAssumption DEF Start
<1>3. CASE WriteNormalized
  <2>1. Document(read) /\ Nodes(read)
    BY <1>3 DEF WriteNormalized, Holding
  <2>2. Document(doc') /\ Nodes(doc')
    BY <1>3, <2>1, DocumentNormalized, NodesNormalized DEF WriteNormalized
  <2>3. DOMAIN mine' \subseteq Channel /\ disturbed' \in BOOLEAN /\ ~Holding' /\ step' = "capturing"
    BY <1>3 DEF WriteNormalized, Holding
  <2> QED
    BY <1>1, <1>3, <2>2, <2>3 DEF WriteNormalized
<1>4. CASE CaptureModelBaseline
  <2>1. BaselineOK' /\ DOMAIN baseline' = GuardPaths
    BY <1>4, CapturedFields DEF CaptureModelBaseline
  <2>2. ~Holding' /\ step' = "free"
    BY <1>4 DEF CaptureModelBaseline, Holding
  <2> QED
    BY <1>4, <2>1, <2>2 DEF CaptureModelBaseline, BaselineOK
<1>5. ASSUME NEW r \in Rev, Apply(r) PROVE Typed'
  <2>1. Document(doc') /\ Nodes(doc') /\ baseline' = Captured(doc')
    BY <1>5, DocumentNormalized, NodesNormalized, DocumentAssumption DEF Apply
  <2>2. BaselineOK' /\ DOMAIN baseline' = GuardPaths
    BY <2>1, CapturedFields
  <2>3. ~Holding'
    BY <1>5 DEF Apply, Holding
  <2> QED
    BY <1>5, <2>1, <2>2, <2>3, EmptyTree DEF Apply, BaselineOK
<1>6. CASE Check
  <2>1. read' = doc /\ step' = "restoring"
    BY <1>6 DEF Check
  <2> QED
    BY <1>1, <1>6, <2>1 DEF Check, history
<1>7. CASE Restore
  <2>1. Document(read) /\ Nodes(read)
    BY <1>7 DEF Restore, Holding
  <2>2. Document(doc') /\ Nodes(doc')
    BY <1>7, <2>1, DocumentRestored, NodesRestored DEF Restore
  <2>3. ~Holding' /\ step' = "free"
    BY <1>7 DEF Restore, Holding
  <2> QED
    BY <1>1, <1>7, <2>2, <2>3 DEF Restore, history
<1>8. ASSUME NEW p, Edited(p), Document(doc'), Nodes(doc'), DOMAIN mine' \subseteq Channel
      PROVE  Typed'
  <2>1. /\ Holding' = Holding /\ read' = read /\ step' = step
        /\ disturbed' \in BOOLEAN /\ edits' \in 0 .. MaxEdits
    BY <1>8, BoundAssumption DEF Edited, Holding, Disturbs
  <2> QED
    BY <1>1, <1>8, <2>1 DEF Edited
<1>9. ASSUME NEW tree \in EditTree, Write(tree) PROVE Typed'
  <2>1. Tree(Root(tree), tree) /\ Path(Root(tree))
    BY DocumentAssumption DEF Tree
  <2>2. Document(doc') /\ Nodes(doc')
    BY <1>9, <2>1, DocumentPut, NodesPut, DocumentAssumption DEF Write
  <2>3. DOMAIN mine' \subseteq Channel
    BY <1>9 DEF Write, Untouched, SetUpAt
  <2> QED
    BY <1>8, <1>9, <2>2, <2>3 DEF Write
<1>10. ASSUME NEW p \in EditPath, Delete(p) PROVE Typed'
  <2>1. Document(doc') /\ Nodes(doc')
    <3>1. Nodes(Remove(doc, p))
      BY DEF Nodes, Remove
    <3> QED
      BY <1>10, <3>1, DocumentRemove, DocumentAssumption DEF Delete
  <2>2. DOMAIN mine' \subseteq Channel
    BY <1>10 DEF Delete, Untouched
  <2> QED
    BY <1>8, <1>10, <2>1, <2>2 DEF Delete
<1>11. ASSUME NEW c \in Channel, ChangeExtension(c) PROVE Typed'
  BY <1>1, <1>11 DEF ChangeExtension, history, Holding
<1>12. CASE UNCHANGED vars
  BY <1>1, <1>12 DEF vars, history, Holding
<1> QED
  BY <1>2, <1>3, <1>4, <1>5, <1>6, <1>7, <1>9, <1>10, <1>11, <1>12 DEF Next

(* Typed is an invariant: whatever is seeded, edited, removed, normalized or *)
(* restored, openclaw.json stays a document whose parents are objects, and   *)
(* so does each captured field.                                              *)
THEOREM Invariance == Spec => []Typed
BY InitTyped, TypedStep, PTL DEF Spec

(* Every state has the types TypeOK gives it. *)
THEOREM TypeCorrect == Spec => []TypeOK
<1>1. Typed => TypeOK
  BY DEF Typed
<1> QED
  BY Invariance, <1>1, PTL

(* The model guard (EnforceModelBaseline) leaves no guarded field drifted    *)
(* after one pass over them, and everything that is neither in such a field  *)
(* nor a parent of one is as it was in the file it has read, for any edit    *)
(* that went before.                                                         *)
THEOREM RestoringIsExact == Spec => GuardIsExact
<1>1. ASSUME BaselineOK, Restore
      PROVE  /\ ~Drifted'
             /\ Same(read, doc', {s \in DOMAIN read \cup DOMAIN doc' : ~Guarded(s) /\ ~Parent(s)})
  <2>1. doc' = Restored(read) /\ baseline' = baseline
    BY <1>1 DEF Restore
  <2>2. ~Drifted'
    BY <1>1, <2>1, RestoredAll DEF Drifted
  <2>3. Same(read, doc', {s \in DOMAIN read \cup DOMAIN doc' : ~Guarded(s) /\ ~Parent(s)})
    BY <1>1, <2>1, RestoredAll DEF Same, Elsewhere, Agree
  <2> QED
    BY <2>2, <2>3
<1>2. BaselineOK /\ [Next]_vars =>
        [Restore => /\ ~Drifted'
                    /\ Same(read, doc', {s \in DOMAIN read \cup DOMAIN doc' :
                                           ~Guarded(s) /\ ~Parent(s)})]_vars
  BY <1>1
<1>3. Typed => BaselineOK
  BY DEF Typed
<1> QED
  BY <1>2, <1>3, Invariance, PTL DEF Spec, GuardIsExact
-----------------------------------------------------------------------------
(* What a write beside a path leaves as it was. *)
LEMMA PutBeside ==
  ASSUME NEW d, NEW p, NEW tree, \A s \in DOMAIN tree : Under(p, s),
         NEW s, ~Under(p, s), s \notin Above(p)
  PROVE  Agree(d, Put(d, p, tree), s)
BY DEF Put, Agree

LEMMA PutNodeBeside ==
  ASSUME NEW d, NEW p, Path(p), NEW node, NEW s, ~Under(p, s), s \notin Above(p)
  PROVE  Agree(d, PutNode(d, p, node), s)
<1>1. Under(p, p)
  BY DEF Under, Path
<1> QED
  BY <1>1, PutBeside DEF PutNode

LEMMA EnsuredBeside ==
  ASSUME NEW d, NEW p, NEW s, s # p, s \notin Above(p)
  PROVE  Agree(d, Ensured(d, p), s)
BY DEF Ensured, Agree

LEMMA AgreeChain ==
  ASSUME NEW d, NEW e, NEW f, NEW s, Agree(d, e, s), Agree(e, f, s)
  PROVE  Agree(d, f, s)
BY DEF Agree

LEMMA AboveFields ==
  ASSUME NEW s, ~Parent(s)
  PROVE  /\ s \notin Above(AutoProvider) \cup {AutoProvider} \cup Above(AgentModels)
         /\ s # DefaultModel => s \notin Above(Primary)
<1>1. s \notin Above(BaseURL) /\ s \notin Above(DefaultModel)
  BY DEF Parent, GuardPaths
<1>2. s \notin Above(AutoProvider) \cup {AutoProvider}
  <2>1. /\ Len(AutoProvider) < Len(BaseURL)
        /\ \A i \in 1 .. Len(AutoProvider) : AutoProvider[i] = BaseURL[i]
    BY ProviderPaths DEF Under
  <2>2. AutoProvider \in Above(BaseURL)
    BY <2>1, ProviderPaths, IsAbove
  <2> QED
    BY <1>1, <2>2, ProviderPaths, AboveUnder
<1>3. s \notin Above(AgentModels)
  <2>1. ASSUME NEW t \in Above(AgentModels) PROVE t \in Above(DefaultModel)
    <3>1. Path(t) /\ Len(t) \in Nat /\ Len(t) < 3 /\ \A i \in 1 .. Len(t) : t[i] = AgentModels[i]
      BY <2>1, Prefixes, AgentPaths
    <3>2. Len(t) < Len(DefaultModel) /\ \A i \in 1 .. Len(t) : t[i] = DefaultModel[i]
      BY <3>1, AgentPaths
    <3> QED
      BY <3>1, <3>2, AgentPaths, IsAbove
  <2> QED
    BY <1>1, <2>1
<1> QED
  BY <1>1, <1>2, <1>3, FieldPaths

(* A place nothing is written to with the environment e. *)
Aside(e, s) ==
  /\ ~Parent(s)
  /\ e.baseURL # Blank => ~Under(BaseURL, s)
  /\ e.apiKey # Unset => ~Under(APIKey, s)
  /\ IDs(e) # <<>> =>
       /\ s # DefaultModel
       /\ \A p \in {ProviderModels, Primary, AgentModels} : ~Under(p, s)

LEMMA LLMBeside ==
  ASSUME NEW d, NEW e, NEW s, Aside(e, s)
  PROVE  Agree(d, NormalizeLLM(d, e), s)
<1>1. /\ Path(Primary) /\ s \notin Above(AgentModels)
      /\ s \notin Above(AutoProvider) /\ s # AutoProvider
      /\ s # DefaultModel => s \notin Above(Primary)
  BY AboveFields, FieldPaths DEF Aside, Fields
<1>2. s \notin Above(BaseURL) /\ s \notin Above(APIKey) /\ s \notin Above(ProviderModels)
      /\ s \notin Above(DefaultModel)
  BY DEF Aside, Parent, GuardPaths
<1>3. ASSUME NEW f PROVE Agree(f, f, s)
  BY DEF Agree
<1>4. ASSUME NEW f PROVE Agree(f, WithBaseURL(f, e), s) /\ Agree(f, WithAPIKey(f, e), s)
  BY <1>2, <1>3, PutNodeBeside, ProviderPaths DEF WithBaseURL, WithAPIKey, Aside
<1>5. ASSUME NEW f PROVE Agree(f, WithModels(f, e), s)
  <2> DEFINE listed == PutNode(f, ProviderModels, ModelList(BuildProviderModels(f, IDs(e))))
             ensured == Ensured(listed, DefaultModel)
             named == PutNode(ensured, Primary, Text(IDs(e)[1]))
             all == Put(named, AgentModels, BuildAgentModels(named, IDs(e)))
  <2>1. CASE IDs(e) = <<>>
    BY <1>3, <2>1 DEF WithModels
  <2>2. CASE IDs(e) # <<>>
    <3>1. WithModels(f, e) = all
      BY <2>2 DEF WithModels, Primary
    <3>2. /\ s # DefaultModel /\ ~Under(ProviderModels, s) /\ ~Under(Primary, s)
          /\ ~Under(AgentModels, s)
      BY <2>2 DEF Aside
    <3>3. Agree(f, listed, s)
      BY <1>2, <3>2, PutNodeBeside, ProviderPaths
    <3>4. Agree(listed, ensured, s)
      BY <1>2, <3>2, EnsuredBeside
    <3>5. Agree(ensured, named, s)
      BY <1>1, <3>2, PutNodeBeside
    <3>6. Agree(named, all, s)
      BY <1>1, <3>2, PutBeside, AgentModelsUnder
    <3> HIDE DEF listed, ensured, named, all
    <3> QED
      BY <3>1, <3>3, <3>4, <3>5, <3>6 DEF Agree
  <2> QED
    BY <2>1, <2>2
<1>6. Agree(d, Ensured(d, AutoProvider), s)
  BY <1>1, EnsuredBeside
<1> QED
  BY <1>4, <1>5, <1>6, AgreeChain DEF NormalizeLLM

LEMMA ReconciledBeside ==
  ASSUME NEW d, NEW e, NEW ext, NEW s, s # <<>>, s # <<"channels">>,
         Len(s) >= 2 /\ s[1] = "channels" => s[2] \in Kept(e, ext)
  PROVE  Agree(d, ReconcileChannels(d, e, ext), s)
<1>1. s \notin Above(<<"channels">>)
  <2>1. Path(<<"channels">>) /\ Len(<<"channels">>) = 1
    BY DEF Path
  <2>2. ASSUME NEW t \in Above(<<"channels">>) PROVE t = <<>>
    <3> DEFINE q == <<"channels">>
    <3> HIDE DEF q
    <3>1. Path(q) /\ Len(q) = 1 /\ t \in Above(q)
      BY <2>1, <2>2 DEF q
    <3>2. Path(t) /\ Len(t) \in Nat /\ Len(t) < Len(q)
      BY <3>1, Prefixes
    <3>3. Len(t) = 0
      BY <3>1, <3>2
    <3> QED
      BY <3>2, <3>3 DEF Path
  <2> QED
    BY <2>2
<1>2. Agree(d, Ensured(d, <<"channels">>), s)
  BY <1>1, EnsuredBeside
<1>3. ASSUME NEW c \in FromEnv(e, ext) PROVE s \notin DOMAIN ChannelTree(c, e.channels[c])
  <2>1. ASSUME s \in {ChannelAt(c), Token(c)} PROVE FALSE
    <3>1. CASE s = ChannelAt(c)
      <4>1. Len(s) = 2 /\ s[1] = "channels" /\ s[2] = c
        BY <3>1, ChannelPaths
      <4> QED
        BY <1>3, <4>1 DEF Kept
    <3>2. CASE s = Token(c)
      BY <1>3, <3>2, ChannelPaths DEF Kept
    <3> QED
      BY <2>1, <3>1, <3>2
  <2> QED
    BY <2>1 DEF ChannelTree, Token
<1> QED
  BY <1>2, <1>3 DEF Agree, ReconcileChannels

LEMMA NormalizedBeside ==
  ASSUME NEW d, NEW e, NEW ext, NEW s, Aside(e, s), ~IsInstallPath(s),
         s # <<>>, s # <<"channels">>,
         Len(s) >= 2 /\ s[1] = "channels" => s[2] \in Kept(e, ext)
  PROVE  Agree(d, Normalize(d, e, ext), s)
<1>1. ASSUME NEW f PROVE Agree(f, RewriteInstalledPluginPaths(f), s)
  BY DEF Agree, RewriteInstalledPluginPaths
<1> DEFINE llm == NormalizeLLM(d, e)
           paths == RewriteInstalledPluginPaths(llm)
<1>2. Agree(d, llm, s) /\ Agree(llm, paths, s)
  BY <1>1, LLMBeside
<1>3. Agree(paths, ReconcileChannels(paths, e, ext), s)
  BY ReconciledBeside
<1> HIDE DEF llm, paths
<1> QED
  BY <1>2, <1>3, AgreeChain DEF Normalize, llm, paths
-----------------------------------------------------------------------------
(* Channels *)

LEMMA TokenAside ==
  ASSUME NEW c
  PROVE  /\ \A e : Aside(e, Token(c))
         /\ Elsewhere(Token(c)) /\ ~IsInstallPath(Token(c))
<1>1. Path(Token(c)) /\ Len(Token(c)) = 3 /\ Token(c)[1] = "channels"
  BY ChannelPaths
<1>2. ASSUME NEW p, Path(p), Len(p) >= 1, p[1] \in {"models", "agents"}
      PROVE  ~Under(p, Token(c)) /\ Token(c) \notin Above(p) /\ Token(c) # p
  <2>1. ~Under(p, Token(c)) /\ Token(c) # p
    BY <1>1, <1>2 DEF Under
  <2>2. Token(c) \notin Above(p)
    <3>1. ASSUME Token(c) \in Above(p) PROVE Token(c)[1] = p[1]
      BY <1>1, <1>2, <3>1, Prefixes
    <3> QED
      BY <1>1, <1>2, <3>1
  <2> QED
    BY <2>1, <2>2
<1>3. \A p \in Fields \cup GuardPaths : ~Under(p, Token(c)) /\ Token(c) \notin Above(p)
  BY <1>2, FieldPaths DEF Fields, GuardPaths
<1>4. Token(c) # DefaultModel
  BY <1>2, FieldPaths
<1> QED
  BY <1>1, <1>3, <1>4 DEF Aside, Elsewhere, Guarded, Parent, Fields, IsInstallPath, GuardPaths

LEMMA ApartFromChannel ==
  ASSUME NEW c, NEW p, Path(p), ~Under(p, ChannelAt(c)), ~Under(ChannelAt(c), p)
  PROVE  ~Under(p, Token(c)) /\ Token(c) \notin Above(p)
<1>1. /\ Path(ChannelAt(c)) /\ Path(Token(c)) /\ Len(ChannelAt(c)) = 2 /\ Len(Token(c)) = 3
      /\ \A i \in 1 .. 2 : ChannelAt(c)[i] = Token(c)[i]
  <2>1. Path(ChannelAt(c)) /\ Path(Token(c)) /\ Len(ChannelAt(c)) = 2 /\ Len(Token(c)) = 3
    BY ChannelPaths
  <2>2. /\ ChannelAt(c)[1] = "channels" /\ ChannelAt(c)[2] = c
        /\ Token(c)[1] = "channels" /\ Token(c)[2] = c
    BY ChannelPaths
  <2> QED
    BY <2>1, <2>2
<1>2. ChannelAt(c) \in Above(Token(c))
  <2>1. /\ Len(ChannelAt(c)) < Len(Token(c))
        /\ \A i \in 1 .. Len(ChannelAt(c)) : ChannelAt(c)[i] = Token(c)[i]
    BY <1>1
  <2> QED
    BY <1>1, <2>1, IsAbove
<1>3. ChannelAt(c) \notin Above(p)
  <2>1. ASSUME ChannelAt(c) \in Above(p) PROVE Under(ChannelAt(c), p)
    BY <2>1, Prefixes DEF Under, Path
  <2> QED
    BY <2>1
<1> QED
  BY <1>1, <1>2, <1>3, AboveUnder

(* A document has the tokens of the user's channels; so has the copy that    *)
(* will be written over the file.                                            *)
HasMine(d) ==
  \A c \in DOMAIN mine : Token(c) \in DOMAIN d /\ d[Token(c)] = Text(mine[c])

ChannelsOK == HasMine(doc) /\ (Holding => HasMine(read))

LEMMA EditedChannels ==
  ASSUME ChannelsOK, NEW p, Path(p), Edited(p),
         \A c \in Untouched(p) \cap DOMAIN mine' :
           mine'[c] = mine[c] /\ Agree(doc, doc', Token(c)),
         \A c \in DOMAIN mine' : c \notin Untouched(p) =>
           /\ ~Holding
           /\ Token(c) \in DOMAIN doc' /\ doc'[Token(c)] = Text(mine'[c])
  PROVE  ChannelsOK'
<1>1. \A c \in Untouched(p) : c \in DOMAIN mine
  BY DEF Untouched
<1>2. HasMine(doc)'
  BY <1>1 DEF HasMine, ChannelsOK, Agree
<1>3. read' = read /\ Holding' = Holding
  BY DEF Edited, Holding
<1>4. ASSUME Holding' PROVE HasMine(read)'
  BY <1>1, <1>3, <1>4 DEF HasMine, ChannelsOK
<1> QED
  BY <1>2, <1>4 DEF ChannelsOK

LEMMA ChannelsStep ==
  ASSUME Typed, ChannelsOK, [Next]_vars
  PROVE  ChannelsOK'
<1>1. ASSUME UNCHANGED <<doc, mine>>, ~Holding' \/ read' = doc PROVE ChannelsOK'
  BY <1>1 DEF ChannelsOK, HasMine
<1>2. ASSUME NEW e \in Environment, Start(e) PROVE ChannelsOK'
  BY <1>1, <1>2 DEF Start, Holding
<1>3. CASE WriteNormalized
  <2>1. ~Holding' /\ HasMine(doc) /\ HasMine(read)
    BY <1>3 DEF WriteNormalized, Holding, ChannelsOK
  <2>2. ASSUME NEW c \in DOMAIN mine'
        PROVE  c \in DOMAIN mine /\ mine'[c] = mine[c] /\ c \in Kept(env, extensions)
    BY <1>3, <2>2 DEF WriteNormalized, Kept, FromEnv
  <2>3. ASSUME NEW c \in DOMAIN mine', doc' = Normalize(read, env, extensions)
        PROVE  Agree(read, doc', Token(c))
    <3>1. Token(c)[2] = c /\ Len(Token(c)) = 3
      BY ChannelPaths
    <3>2. Token(c) # <<>> /\ Token(c) # <<"channels">>
      <4>1. Len(<<>>) = 0 /\ Len(<<"channels">>) = 1 /\ 0 # 3 /\ 1 # 3
        OBVIOUS
      <4> QED
        BY <3>1, <4>1, Zenon
    <3> QED
      BY <2>2, <2>3, <3>1, <3>2, TokenAside, NormalizedBeside
  <2>4. doc' = Normalize(read, env, extensions) \/ doc' = doc
    BY <1>3 DEF WriteNormalized
  <2>5. HasMine(doc)'
    BY <2>1, <2>2, <2>3, <2>4 DEF HasMine, Agree
  <2> QED
    BY <2>1, <2>5 DEF ChannelsOK
<1>4. CASE CaptureModelBaseline
  BY <1>1, <1>4 DEF CaptureModelBaseline, Holding
<1>5. ASSUME NEW r \in Rev, Apply(r) PROVE ChannelsOK'
  BY <1>5, EmptyTree DEF Apply, ChannelsOK, HasMine, Holding
<1>6. CASE Check
  BY <1>1, <1>6 DEF Check, history
<1>7. CASE Restore
  <2>1. doc' = Restored(read) /\ mine' = mine /\ ~Holding' /\ HasMine(read)
    BY <1>7 DEF Restore, history, Holding, ChannelsOK
  <2>2. ASSUME NEW c PROVE Agree(read, doc', Token(c))
    BY <2>1, TokenAside, RestoredAll DEF Typed
  <2> QED
    BY <2>1, <2>2 DEF ChannelsOK, HasMine, Agree
<1>8. ASSUME NEW tree \in EditTree, Write(tree) PROVE ChannelsOK'
  <2> DEFINE p == Root(tree)
  <2>1. Path(p) /\ \A s \in DOMAIN tree : Under(p, s)
    BY DocumentAssumption DEF Tree
  <2>2. doc' = Put(doc, p, tree) /\ Edited(p)
    BY <1>8 DEF Write
  <2>3. ASSUME NEW c \in Untouched(p) \cap DOMAIN mine'
        PROVE  mine'[c] = mine[c] /\ Agree(doc, doc', Token(c))
    <3>1. c \notin SetUpAt(p)
      BY <2>1, <2>3 DEF Untouched, SetUpAt, Under, Path
    <3>2. mine'[c] = mine[c]
      BY <1>8, <2>3, <3>1 DEF Write
    <3>3. Agree(doc, doc', Token(c))
      BY <2>1, <2>2, <2>3, ApartFromChannel, PutBeside DEF Untouched
    <3> QED
      BY <3>2, <3>3
  <2>4. ASSUME NEW c \in DOMAIN mine', c \notin Untouched(p)
        PROVE  ~Holding /\ Token(c) \in DOMAIN doc' /\ doc'[Token(c)] = Text(mine'[c])
    <3>1. c \in SetUpAt(p) /\ mine'[c] = tree[Token(c)].text
      BY <1>8, <2>4 DEF Write, Token
    <3>2. c \in Channel /\ p = ChannelAt(c) /\ ~Holding
      BY <3>1 DEF SetUpAt
    <3>3. Token(c) \in DOMAIN tree /\ tree[Token(c)] = Text(tree[Token(c)].text)
      BY <3>2, ChannelAssumption DEF Token
    <3> QED
      BY <2>2, <3>1, <3>2, <3>3 DEF Put
  <2> QED
    BY <2>1, <2>2, <2>3, <2>4, EditedChannels
<1>9. ASSUME NEW p \in EditPath, Delete(p) PROVE ChannelsOK'
  <2>1. /\ Path(p) /\ Edited(p) /\ doc' = Remove(doc, p) /\ DOMAIN mine' = Untouched(p)
        /\ \A c \in Untouched(p) : mine'[c] = mine[c]
    BY <1>9, DocumentAssumption DEF Delete
  <2>2. \A c \in Untouched(p) : Agree(doc, doc', Token(c))
    BY <2>1, ApartFromChannel DEF Untouched, Remove, Agree
  <2> QED
    BY <2>1, <2>2, EditedChannels
<1>10. ASSUME NEW k \in Channel, ChangeExtension(k) PROVE ChannelsOK'
  BY <1>10 DEF ChangeExtension, history, ChannelsOK, HasMine, Holding
<1>11. CASE UNCHANGED vars
  BY <1>11 DEF vars, history, ChannelsOK, HasMine, Holding
<1> QED
  BY <1>2, <1>3, <1>4, <1>5, <1>6, <1>7, <1>8, <1>9, <1>10, <1>11 DEF Next

(* A channel the user has set up keeps its token through starts, restored    *)
(* fields and edits elsewhere, while its extension is installed and the      *)
(* environment does not configure it (reconcileChannels), provided it was    *)
(* not set up between the agent's reading of the file and its write.         *)
THEOREM ChannelsSurvive == Spec => []ChannelSurvives
<1>1. Init => ChannelsOK
  BY EmptyTree DEF Init, ChannelsOK, HasMine, Holding
<1>2. ChannelsOK => ChannelSurvives
  BY DEF ChannelsOK, HasMine, ChannelSurvives, Present, Token
<1> QED
  BY <1>1, <1>2, ChannelsStep, Invariance, PTL DEF Spec
-----------------------------------------------------------------------------
(* What a write elsewhere, or of the same, leaves of a subtree. *)
LEMMA SubOfEnsured ==
  ASSUME NEW d, NEW p, Path(p), NEW q, Path(q), Apart(p, q)
  PROVE  Sub(Ensured(d, q), p) = Sub(d, p)
<1>1. \A t \in Above(q) \cup {q} : ~Under(p, t)
  BY ApartPaths DEF Under, Path, Apart
<1> QED
  BY <1>1 DEF Sub, Ensured

LEMMA EnsuredSame ==
  ASSUME NEW d, NEW p, NEW q,
         \A t \in Above(q) \cup {q} : Under(p, t) => t \in DOMAIN d /\ d[t] = Object
  PROVE  Sub(Ensured(d, q), p) = Sub(d, p)
BY DEF Sub, Ensured

LEMMA PutSame ==
  ASSUME NEW d, NEW p, NEW q, NEW tree, Sub(d, q) = tree,
         \A t \in Above(q) : Under(p, t) => t \in DOMAIN d /\ d[t] = Object
  PROVE  Sub(Put(d, q, tree), p) = Sub(d, p)
<1>1. /\ DOMAIN tree = {s \in DOMAIN d : Under(q, s)}
      /\ \A s \in DOMAIN tree : tree[s] = d[s]
  BY DEF Sub
<1> QED
  BY <1>1 DEF Sub, Put

LEMMA ObjectPut ==
  ASSUME NEW d, NEW p, NEW tree, \A t \in DOMAIN tree : Under(p, t),
         NEW s \in DOMAIN d, d[s] = Object, ~Under(p, s)
  PROVE  s \in DOMAIN Put(d, p, tree) /\ Put(d, p, tree)[s] = Object
BY DEF Put

LEMMA SubOfOthers ==
  ASSUME NEW d, NEW e, NEW ext, NEW p, Path(p), Len(p) >= 1, p[1] \in {"models", "agents"}
  PROVE  /\ Sub(RewriteInstalledPluginPaths(d), p) = Sub(d, p)
         /\ Sub(ReconcileChannels(d, e, ext), p) = Sub(d, p)
<1>1. ASSUME NEW s, Under(p, s) PROVE Len(s) >= 1 /\ s[1] \in {"models", "agents"}
  BY <1>1 DEF Under, Path
<1>2. Sub(RewriteInstalledPluginPaths(d), p) = Sub(d, p)
  BY <1>1 DEF Sub, RewriteInstalledPluginPaths, IsInstallPath
<1>3. ASSUME NEW s, Under(p, s) PROVE Agree(d, ReconcileChannels(d, e, ext), s)
  <2>1. s # <<>> /\ s # <<"channels">> /\ s[1] # "channels"
    BY <1>1, <1>3
  <2> QED
    BY <2>1, ReconciledBeside
<1>4. Sub(ReconcileChannels(d, e, ext), p) = Sub(d, p)
  BY <1>3 DEF Sub, Agree
<1> QED
  BY <1>2, <1>4
-----------------------------------------------------------------------------
(* What stands in the fields after a normalization. *)
LEMMA SameList ==
  ASSUME NEW d, NEW f, Sub(f, ProviderModels) = Sub(d, ProviderModels)
  PROVE  Listed(f) = Listed(d) /\ \A ids : BuildProviderModels(f, ids) = BuildProviderModels(d, ids)
<1>1. Under(ProviderModels, ProviderModels)
  BY ProviderPaths DEF Under
<1>2. /\ ProviderModels \in DOMAIN f <=> ProviderModels \in DOMAIN d
      /\ ProviderModels \in DOMAIN d => f[ProviderModels] = d[ProviderModels]
  BY <1>1 DEF Sub
<1>3. Listed(f) = Listed(d)
  BY <1>2 DEF Listed, Present
<1> QED
  BY <1>3 DEF BuildProviderModels, KeptOrDefault, Existing, Wins

LEMMA ListOf ==
  ASSUME NEW d, NEW items, Sub(d, ProviderModels) = Leaf(ProviderModels, ModelList(items))
  PROVE  Present(d, ProviderModels) /\ d[ProviderModels] = ModelList(items) /\ Listed(d) = items
<1>1. Present(d, ProviderModels) /\ d[ProviderModels] = ModelList(items)
  BY DEF Sub, Leaf, Present
<1> QED
  BY <1>1 DEF Listed, ModelList

LEMMA SameAgentModels ==
  ASSUME NEW d, NEW f, NEW ids,
         Sub(f, AgentModels) = Sub(d, AgentModels) \/ Sub(f, AgentModels) = BuildAgentModels(d, ids)
  PROVE  BuildAgentModels(f, ids) = BuildAgentModels(d, ids)
<1> DEFINE At(i) == Append(AgentModels, ids[i])
           Entries(g) == {s \in DOMAIN g : \E i \in 1 .. Len(ids) : Under(At(i), s)}
<1>1. ASSUME NEW i PROVE /\ Under(At(i), At(i))
                         /\ \A s : Under(At(i), s) => Under(AgentModels, s) /\ s # AgentModels
  BY AgentModelAt DEF Under, Path
<1> HIDE DEF At
<1>2. CASE Sub(f, AgentModels) = Sub(d, AgentModels)
  <2>1. Entries(f) = Entries(d) /\ \A s \in Entries(d) : f[s] = d[s]
    BY <1>1, <1>2 DEF Sub
  <2> QED
    BY <2>1 DEF BuildAgentModels, At
<1>3. CASE Sub(f, AgentModels) = BuildAgentModels(d, ids)
  <2> DEFINE tree == BuildAgentModels(d, ids)
             all == {At(i) : i \in 1 .. Len(ids)}
  <2>1. /\ DOMAIN tree = {AgentModels} \cup all \cup Entries(d)
        /\ \A s \in DOMAIN tree : tree[s] = IF s \in Entries(d) THEN d[s] ELSE Object
    BY DEF BuildAgentModels, At
  <2> HIDE DEF tree
  <2>2. /\ \A s : s \in DOMAIN f /\ Under(AgentModels, s) <=> s \in DOMAIN tree
        /\ \A s \in DOMAIN tree : f[s] = tree[s]
    <3>1. Sub(f, AgentModels) = tree
      BY <1>3 DEF tree
    <3> QED
      BY <3>1 DEF Sub
  <2>3. Entries(f) = all \cup Entries(d)
    BY <1>1, <2>1, <2>2
  <2>4. BuildAgentModels(f, ids)
          = [s \in {AgentModels} \cup all \cup Entries(f) |->
               IF s \in Entries(f) THEN f[s] ELSE Object]
    BY DEF BuildAgentModels, At
  <2>5. tree = [s \in {AgentModels} \cup all \cup Entries(d) |->
                  IF s \in Entries(d) THEN d[s] ELSE Object]
    BY DEF BuildAgentModels, At, tree
  <2>6. ASSUME NEW s \in {AgentModels} \cup all \cup Entries(d)
        PROVE  (IF s \in Entries(f) THEN f[s] ELSE Object)
                 = (IF s \in Entries(d) THEN d[s] ELSE Object)
    <3>1. s \in DOMAIN tree /\ f[s] = tree[s] /\ tree[s] = IF s \in Entries(d) THEN d[s] ELSE Object
      BY <2>1, <2>2, <2>6
    <3> HIDE DEF Entries, all
    <3> QED
      BY <2>3, <3>1
  <2> HIDE DEF Entries, all
  <2> QED
    BY <2>3, <2>4, <2>5, <2>6 DEF tree
<1> QED
  BY <1>2, <1>3

LEMMA NormalizedLLM ==
  ASSUME NEW d, NEW e, NEW n, n = NormalizeLLM(d, e)
  PROVE  /\ AutoProvider \in DOMAIN n /\ n[AutoProvider] = Object
         /\ e.baseURL # Blank => Sub(n, BaseURL) = Leaf(BaseURL, Text(e.baseURL))
         /\ e.apiKey # Unset => Sub(n, APIKey) = Leaf(APIKey, Text(e.apiKey))
         /\ IDs(e) # <<>> =>
              /\ Sub(n, ProviderModels)
                   = Leaf(ProviderModels, ModelList(BuildProviderModels(d, IDs(e))))
              /\ DefaultModel \in DOMAIN n /\ n[DefaultModel] = Object
              /\ Sub(n, Primary) = Leaf(Primary, Text(IDs(e)[1]))
              /\ Sub(n, AgentModels) = BuildAgentModels(n, IDs(e))
<1> DEFINE d0 == Ensured(d, AutoProvider)
           d1 == WithBaseURL(d0, e)
           d2 == WithAPIKey(d1, e)
           Provider(f) == AutoProvider \in DOMAIN f /\ f[AutoProvider] = Object
<1>1. /\ \A p \in Fields : Path(p) /\ Under(p, p)
      /\ \A p, q \in Fields : p # q => Apart(p, q)
  BY FieldPaths DEF Under, Path
<1>2. {BaseURL, APIKey, ProviderModels, Primary, AgentModels} = Fields
  BY DEF Fields
<1>3. ASSUME NEW f, NEW p \in Fields, NEW tree, \A s \in DOMAIN tree : Under(p, s),
             tree = [s \in DOMAIN tree |-> tree[s]]
      PROVE  /\ Sub(Put(f, p, tree), p) = tree
             /\ \A q \in Fields : q # p => Sub(Put(f, p, tree), q) = Sub(f, q)
             /\ Provider(f) => Provider(Put(f, p, tree))
  BY <1>1, <1>3, SubAtPut, SubOfPut, ObjectPut, FieldsDiffer
<1>4. ASSUME NEW f, NEW p \in Fields, NEW node
      PROVE  /\ Sub(PutNode(f, p, node), p) = Leaf(p, node)
             /\ \A q \in Fields : q # p => Sub(PutNode(f, p, node), q) = Sub(f, q)
             /\ Provider(f) => Provider(PutNode(f, p, node))
  BY <1>1, <1>3 DEF PutNode, Leaf
<1>5. Provider(d0) /\ Sub(d0, ProviderModels) = Sub(d, ProviderModels)
  <2>1. \A t \in Above(AutoProvider) \cup {AutoProvider} : ~Under(ProviderModels, t)
    BY ProviderPaths, Prefixes DEF Under
  <2> QED
    BY <2>1, EnsuredSame DEF Ensured
<1>6. /\ Provider(d1) /\ Sub(d1, ProviderModels) = Sub(d, ProviderModels)
      /\ e.baseURL # Blank => Sub(d1, BaseURL) = Leaf(BaseURL, Text(e.baseURL))
  <2> HIDE DEF d0, Provider
  <2>1. CASE e.baseURL = Blank
    BY <1>5, <2>1 DEF WithBaseURL
  <2>2. CASE e.baseURL # Blank
    BY <1>2, <1>4, <1>5, <2>2, FieldsDiffer DEF WithBaseURL
  <2> QED
    BY <2>1, <2>2
<1>7. /\ Provider(d2) /\ Sub(d2, ProviderModels) = Sub(d, ProviderModels)
      /\ e.baseURL # Blank => Sub(d2, BaseURL) = Leaf(BaseURL, Text(e.baseURL))
      /\ e.apiKey # Unset => Sub(d2, APIKey) = Leaf(APIKey, Text(e.apiKey))
  <2> HIDE DEF d1, Provider
  <2> QED
    BY <1>2, <1>4, <1>6, FieldsDiffer DEF WithAPIKey
<1> HIDE DEF d2
<1>8. CASE IDs(e) = <<>>
  <2>1. n = d2
    BY <1>8 DEF NormalizeLLM, WithModels, d2
  <2> QED
    BY <1>7, <1>8, <2>1
<1>9. CASE IDs(e) # <<>>
  <2> DEFINE items == BuildProviderModels(d2, IDs(e))
             listed == PutNode(d2, ProviderModels, ModelList(items))
             ensured == Ensured(listed, DefaultModel)
             named == PutNode(ensured, Primary, Text(IDs(e)[1]))
             tree == BuildAgentModels(named, IDs(e))
             Known(f) == /\ Provider(f)
                         /\ e.baseURL # Blank => Sub(f, BaseURL) = Leaf(BaseURL, Text(e.baseURL))
                         /\ e.apiKey # Unset => Sub(f, APIKey) = Leaf(APIKey, Text(e.apiKey))
                         /\ Sub(f, ProviderModels) = Leaf(ProviderModels, ModelList(items))
             Default(f) == DefaultModel \in DOMAIN f /\ f[DefaultModel] = Object
  <2>1. n = Put(named, AgentModels, tree)
    BY <1>9 DEF NormalizeLLM, WithModels, d2, Primary
  <2>2. items = BuildProviderModels(d, IDs(e))
    BY <1>7, SameList
  <2> HIDE DEF items
  <2>3. Known(listed)
    <3> HIDE DEF Provider
    <3> QED
      BY <1>2, <1>4, <1>7, FieldsDiffer
  <2> HIDE DEF listed
  <2>4. Known(ensured) /\ Default(ensured)
    <3>1. \A q \in {BaseURL, APIKey, ProviderModels} : Sub(ensured, q) = Sub(listed, q)
      BY FieldPaths, SubOfEnsured DEF Fields
    <3>2. Provider(ensured) /\ Default(ensured)
      BY <2>3 DEF Ensured
    <3> QED
      BY <2>3, <3>1, <3>2
  <2> HIDE DEF ensured
  <2>5. Known(named) /\ Default(named) /\ Sub(named, Primary) = Leaf(Primary, Text(IDs(e)[1]))
    <3>1. Default(named)
      <4> DEFINE leaf == [s \in {Primary} |-> Text(IDs(e)[1])]
      <4>1. \A t \in DOMAIN leaf : Under(Primary, t)
        BY <1>1, <1>2
      <4>2. named = Put(ensured, Primary, leaf)
        BY DEF PutNode, named
      <4> QED
        BY <2>4, <4>1, <4>2, ObjectPut, FieldPaths
    <3> HIDE DEF Provider, Default
    <3> QED
      BY <1>2, <1>4, <2>4, <3>1, FieldsDiffer DEF named
  <2> HIDE DEF named
  <2>6. /\ \A s \in DOMAIN tree : Under(AgentModels, s)
        /\ tree = [s \in DOMAIN tree |-> tree[s]]
    BY AgentModelsUnder DEF BuildAgentModels
  <2> HIDE DEF tree
  <2>7. Known(n) /\ Default(n) /\ Sub(n, Primary) = Leaf(Primary, Text(IDs(e)[1]))
        /\ Sub(n, AgentModels) = tree
    <3>1. ~Under(AgentModels, DefaultModel)
      BY AgentPaths DEF Under
    <3>2. Default(n)
      BY <2>1, <2>5, <2>6, <3>1, ObjectPut
    <3> HIDE DEF Provider, Default
    <3> QED
      BY <1>2, <1>3, <2>1, <2>5, <2>6, <3>2, FieldsDiffer
  <2>8. BuildAgentModels(n, IDs(e)) = tree
    BY <2>7, SameAgentModels DEF tree
  <2> QED
    BY <2>2, <2>7, <2>8
<1> QED
  BY <1>8, <1>9

LEMMA NormalizedFields ==
  ASSUME NEW d, NEW e, NEW ext, NEW n, n = Normalize(d, e, ext)
  PROVE  /\ AutoProvider \in DOMAIN n /\ n[AutoProvider] = Object
         /\ e.baseURL # Blank => Sub(n, BaseURL) = Leaf(BaseURL, Text(e.baseURL))
         /\ e.apiKey # Unset => Sub(n, APIKey) = Leaf(APIKey, Text(e.apiKey))
         /\ IDs(e) # <<>> =>
              /\ Sub(n, ProviderModels)
                   = Leaf(ProviderModels, ModelList(BuildProviderModels(d, IDs(e))))
              /\ DefaultModel \in DOMAIN n /\ n[DefaultModel] = Object
              /\ Sub(n, Primary) = Leaf(Primary, Text(IDs(e)[1]))
              /\ Sub(n, AgentModels) = BuildAgentModels(n, IDs(e))
<1> DEFINE llm == NormalizeLLM(d, e)
<1>1. n = ReconcileChannels(RewriteInstalledPluginPaths(llm), e, ext)
  BY DEF Normalize
<1> HIDE DEF llm
<1>2. ASSUME NEW p, Path(p), Len(p) >= 1, p[1] \in {"models", "agents"}
      PROVE  Sub(n, p) = Sub(llm, p)
  BY <1>1, <1>2, SubOfOthers
<1>3. ASSUME NEW p, Path(p), Len(p) >= 1, p[1] \in {"models", "agents"},
             p \in DOMAIN llm, llm[p] = Object
      PROVE  p \in DOMAIN n /\ n[p] = Object
  <2>1. Under(p, p)
    BY <1>3 DEF Under, Path
  <2>2. Sub(n, p) = Sub(llm, p)
    BY <1>2, <1>3
  <2> QED
    BY <1>3, <2>1, <2>2 DEF Sub
<1>4. AutoProvider \in DOMAIN n /\ n[AutoProvider] = Object
  BY <1>3, NormalizedLLM, ProviderPaths DEF llm
<1>5. \A p \in Fields : Sub(n, p) = Sub(llm, p)
  BY <1>2, FieldPaths
<1>6. ASSUME IDs(e) # <<>>
      PROVE  /\ DefaultModel \in DOMAIN n /\ n[DefaultModel] = Object
             /\ BuildAgentModels(n, IDs(e)) = BuildAgentModels(llm, IDs(e))
  BY <1>3, <1>5, <1>6, NormalizedLLM, FieldPaths, SameAgentModels DEF llm, Fields
<1> QED
  BY <1>4, <1>5, <1>6, NormalizedLLM DEF llm, Fields

(* A list of models as the normalization leaves it. *)
NormalItems(items, ids) ==
  /\ items = [i \in 1 .. Len(ids) |-> items[i]]
  /\ \A i \in 1 .. Len(ids) :
       /\ items[i] = [id |-> ids[i], settings |-> items[i].settings, name |-> items[i].name]
       /\ items[i].name # Blank
       /\ ids[i] = "auto" => items[i].name = DisplayName("auto")

LEMMA ListIsNormal ==
  ASSUME NEW d, NEW ids, Len(ids) \in Nat, \A i \in 1 .. Len(ids) : ids[i] # Blank
  PROVE  NormalItems(BuildProviderModels(d, ids), ids)
<1> DEFINE items == BuildProviderModels(d, ids)
<1>1. items = [i \in 1 .. Len(ids) |-> KeptOrDefault(d, ids[i])]
  BY DEF BuildProviderModels
<1>2. ASSUME NEW id, id # Blank PROVE DisplayName(id) # Blank
  BY <1>2, Zenon DEF DisplayName, Blank
<1>3. ASSUME NEW id, id # Blank, NEW m, m = KeptOrDefault(d, id)
      PROVE  /\ m = [id |-> id, settings |-> m.settings, name |-> m.name]
             /\ m.name # Blank
             /\ id = "auto" => m.name = DisplayName("auto")
  BY <1>2, <1>3 DEF KeptOrDefault, DefaultProviderModel
<1> HIDE DEF items
<1> QED
  BY <1>1, <1>3 DEF NormalItems, items

LEMMA ListAgain ==
  ASSUME NEW d, NEW ids, Len(ids) \in Nat, \A i, j \in 1 .. Len(ids) : ids[i] = ids[j] => i = j,
         NEW items, Listed(d) = items, NormalItems(items, ids)
  PROVE  BuildProviderModels(d, ids) = items
<1>1. ASSUME NEW i \in 1 .. Len(ids) PROVE KeptOrDefault(d, ids[i]) = items[i]
  <2>1. DOMAIN items = 1 .. Len(ids) /\ \A j \in 1 .. Len(ids) : items[j].id = ids[j]
    BY DEF NormalItems
  <2>2. Existing(d, ids[i]) = {i}
    BY <2>1 DEF Existing
  <2>3. Wins(d, ids[i]) = i
    BY <2>2 DEF Wins
  <2>4. /\ items[i] = [id |-> ids[i], settings |-> items[i].settings, name |-> items[i].name]
        /\ items[i].name # Blank /\ (ids[i] = "auto" => items[i].name = DisplayName("auto"))
    BY DEF NormalItems
  <2> QED
    BY <2>2, <2>3, <2>4 DEF KeptOrDefault
<1>2. items = [i \in 1 .. Len(ids) |-> items[i]]
  BY DEF NormalItems
<1> QED
  BY <1>1, <1>2 DEF BuildProviderModels

LEMMA EnvironmentIDs ==
  ASSUME NEW e \in Environment
  PROVE  /\ Len(IDs(e)) \in Nat /\ \A i \in 1 .. Len(IDs(e)) : IDs(e)[i] # Blank
         /\ {IDs(e)[i] : i \in 1 .. Len(IDs(e))} = {e.models[i] : i \in DOMAIN e.models} \ {Blank}
         /\ \A i, j \in 1 .. Len(IDs(e)) : IDs(e)[i] = IDs(e)[j] => i = j
         /\ e.models = <<>> => IDs(e) = <<>>
         /\ IDs(e) # <<>> => 1 \in 1 .. Len(IDs(e))
<1> DEFINE ids == IDs(e)
<1>1. List(e.models)
  BY EnvironmentAssumption
<1>2. /\ List(ids) /\ ids = [i \in 1 .. Len(ids) |-> ids[i]]
      /\ {ids[i] : i \in 1 .. Len(ids)} = {e.models[i] : i \in DOMAIN e.models} \ {Blank}
      /\ \A i, j \in 1 .. Len(ids) : ids[i] = ids[j] => i = j
      /\ e.models = <<>> => ids = <<>>
  BY <1>1, ModelIDs DEF IDs
<1> HIDE DEF ids
<1>3. \A i \in 1 .. Len(ids) : ids[i] # Blank
  BY <1>2
<1>4. ids # <<>> => 1 \in 1 .. Len(ids)
  BY <1>2 DEF List
<1> QED
  BY <1>2, <1>3, <1>4 DEF List, ids
-----------------------------------------------------------------------------
(* What the environment sets is locked in the baseline. *)
Locked(b, e) ==
  /\ e.baseURL # Blank => b[BaseURL] = Leaf(BaseURL, Text(e.baseURL))
  /\ e.apiKey # Unset => b[APIKey] = Leaf(APIKey, Text(e.apiKey))
  /\ IDs(e) # <<>> =>
       /\ LET items == b[ProviderModels][ProviderModels].models
          IN /\ b[ProviderModels] = Leaf(ProviderModels, ModelList(items))
             /\ NormalItems(items, IDs(e))
       /\ DefaultModel \in DOMAIN b[DefaultModel] /\ b[DefaultModel][DefaultModel] = Object
       /\ Sub(b[DefaultModel], Primary) = Leaf(Primary, Text(IDs(e)[1]))

(* Who captures has just normalized, unless somebody gets in between; and on *)
(* a file that was normal and locked that changes no guarded field.          *)
EnvironmentLocked ==
  /\ armed \/ step \in {"normalizing", "capturing"} => env.wellFormed
  /\ step \in {"normalizing", "capturing"} => ~armed
  /\ (armed /\ ~disturbed) \/ resumed => Locked(baseline, env)
  /\ step = "normalizing" =>
       /\ resumed => Captured(read) = baseline
       /\ ~disturbed => Captured(read) = Captured(doc)
  /\ step = "capturing" /\ ~disturbed =>
       /\ Locked(Captured(doc), env)
       /\ resumed => Captured(doc) = baseline

LEMMA SubOfDefault ==
  ASSUME NEW d
  PROVE  /\ DefaultModel \in DOMAIN Sub(d, DefaultModel) <=> DefaultModel \in DOMAIN d
         /\ DefaultModel \in DOMAIN d => Sub(d, DefaultModel)[DefaultModel] = d[DefaultModel]
         /\ Sub(Sub(d, DefaultModel), Primary) = Sub(d, Primary)
<1>1. Under(DefaultModel, DefaultModel)
  BY AgentPaths DEF Under
<1>2. ASSUME NEW s, Under(Primary, s) PROVE Under(DefaultModel, s)
  <2>1. Path(Primary) /\ Path(DefaultModel) /\ Under(DefaultModel, Primary)
    BY FieldPaths DEF Fields
  <2> QED
    BY <1>2, <2>1 DEF Under, Path
<1> QED
  BY <1>1, <1>2 DEF Sub

LEMMA CapturedIsLocked ==
  ASSUME NEW d, NEW e \in Environment, NEW ext
  PROVE  Locked(Captured(Normalize(d, e, ext)), e)
<1> DEFINE n == Normalize(d, e, ext)
           b == Captured(n)
           items == BuildProviderModels(d, IDs(e))
<1>1. b = [p \in GuardPaths |-> Sub(n, p)]
  BY DEF Captured
<1>2. NormalItems(items, IDs(e))
  BY EnvironmentIDs, ListIsNormal
<1> HIDE DEF n, b, items
<1>3. /\ b[BaseURL] = Sub(n, BaseURL) /\ b[APIKey] = Sub(n, APIKey)
      /\ b[ProviderModels] = Sub(n, ProviderModels) /\ b[DefaultModel] = Sub(n, DefaultModel)
  BY <1>1 DEF GuardPaths
<1>4. /\ e.baseURL # Blank => Sub(n, BaseURL) = Leaf(BaseURL, Text(e.baseURL))
      /\ e.apiKey # Unset => Sub(n, APIKey) = Leaf(APIKey, Text(e.apiKey))
      /\ IDs(e) # <<>> =>
              /\ Sub(n, ProviderModels) = Leaf(ProviderModels, ModelList(items))
              /\ DefaultModel \in DOMAIN n /\ n[DefaultModel] = Object
              /\ Sub(n, Primary) = Leaf(Primary, Text(IDs(e)[1]))
  BY NormalizedFields DEF n, items
<1>5. Leaf(ProviderModels, ModelList(items))[ProviderModels].models = items
  BY DEF Leaf, ModelList
<1> QED
  BY <1>2, <1>3, <1>4, <1>5, SubOfDefault DEF Locked, b, n

(* A field the environment does not set is left to the file. *)
LEMMA FieldsAside ==
  ASSUME NEW e, NEW s
  PROVE  /\ Under(BaseURL, s) /\ e.baseURL = Blank => Aside(e, s)
         /\ Under(APIKey, s) /\ e.apiKey = Unset => Aside(e, s)
         /\ Under(ProviderModels, s) /\ IDs(e) = <<>> => Aside(e, s)
         /\ Under(DefaultModel, s) /\ (IDs(e) # <<>> => s # DefaultModel /\ ~Under(Primary, s))
              => Aside(e, s)
<1>1. ASSUME NEW p \in GuardPaths, Under(p, s)
      PROVE  /\ ~Parent(s)
             /\ \A q \in GuardPaths : q # p => ~Under(q, s)
             /\ ~Under(AgentModels, s)
  <2>1. Path(p) /\ Apart(p, AgentModels) /\ Path(AgentModels)
    BY GuardPathsApart, FieldPaths, AgentPaths
  <2>2. \A q \in GuardPaths : s \notin Above(q)
    BY <1>1, GuardPathsApart, ApartPaths, AboveIsNotUnder
  <2> QED
    BY <1>1, <2>1, <2>2, GuardPathsApart, ApartPaths DEF Parent
<1>2. ASSUME NEW p \in {BaseURL, APIKey, ProviderModels}, Under(p, s)
      PROVE  s # DefaultModel /\ ~Under(Primary, s)
  <2>1. /\ Path(p) /\ Path(Primary) /\ Path(DefaultModel)
        /\ Apart(p, DefaultModel) /\ Apart(p, Primary)
    BY FieldPaths DEF Fields
  <2>2. Under(DefaultModel, DefaultModel)
    BY AgentPaths DEF Under
  <2> QED
    BY <1>2, <2>1, <2>2, ApartPaths
<1>3. GuardPaths = {BaseURL, APIKey, ProviderModels, DefaultModel}
  BY DEF GuardPaths
<1> QED
  BY <1>1, <1>2, <1>3, GuardPathsApart DEF Aside, Primary

LEMMA SubAside ==
  ASSUME NEW d, NEW e, NEW ext, NEW p, Path(p), Len(p) >= 1, p[1] \in {"models", "agents"},
         \A s : Under(p, s) => Aside(e, s)
  PROVE  Sub(Normalize(d, e, ext), p) = Sub(d, p)
<1>1. ASSUME NEW s, Under(p, s) PROVE Agree(d, Normalize(d, e, ext), s)
  <2>1. Len(s) >= 1 /\ s[1] \in {"models", "agents"}
    BY <1>1 DEF Under, Path
  <2>2. s # <<>> /\ s # <<"channels">> /\ s[1] # "channels" /\ ~IsInstallPath(s)
    BY <2>1 DEF IsInstallPath
  <2> QED
    BY <1>1, <2>2, NormalizedBeside
<1> QED
  BY <1>1 DEF Sub, Agree

LEMMA DefaultKept ==
  ASSUME NEW d, NEW e, NEW ext, NEW n, n = Normalize(d, e, ext),
         IDs(e) # <<>>, DefaultModel \in DOMAIN d, d[DefaultModel] = Object,
         Sub(d, Primary) = Sub(n, Primary)
  PROVE  Sub(n, DefaultModel) = Sub(d, DefaultModel)
<1>1. DefaultModel \in DOMAIN n /\ n[DefaultModel] = Object
  BY NormalizedFields
<1>2. ASSUME NEW s, Under(Primary, s) PROVE Agree(d, n, s)
  BY <1>2 DEF Agree, Sub
<1>3. ASSUME NEW s, Under(DefaultModel, s), s # DefaultModel, ~Under(Primary, s)
      PROVE  Agree(d, n, s)
  <2>1. Len(s) >= 1 /\ s[1] = "agents"
    BY <1>3, AgentPaths DEF Under, Path
  <2>2. s # <<>> /\ s # <<"channels">> /\ s[1] # "channels" /\ ~IsInstallPath(s)
    BY <2>1 DEF IsInstallPath
  <2>3. Aside(e, s)
    BY <1>3, FieldsAside
  <2> QED
    BY <2>2, <2>3, NormalizedBeside
<1>4. ASSUME NEW s, Under(DefaultModel, s) PROVE Agree(d, n, s)
  BY <1>1, <1>2, <1>3, <1>4 DEF Agree
<1> QED
  BY <1>4 DEF Sub, Agree

LEMMA LockedIsKept ==
  ASSUME NEW d, NEW e \in Environment, NEW ext, Locked(Captured(d), e)
  PROVE  Captured(Normalize(d, e, ext)) = Captured(d)
<1> DEFINE n == Normalize(d, e, ext)
           b == Captured(d)
<1>1. /\ b[BaseURL] = Sub(d, BaseURL) /\ b[APIKey] = Sub(d, APIKey)
      /\ b[ProviderModels] = Sub(d, ProviderModels) /\ b[DefaultModel] = Sub(d, DefaultModel)
  BY DEF Captured, GuardPaths
<1> HIDE DEF n, b
<1>2. /\ e.baseURL # Blank => b[BaseURL] = Leaf(BaseURL, Text(e.baseURL))
      /\ e.apiKey # Unset => b[APIKey] = Leaf(APIKey, Text(e.apiKey))
  BY DEF Locked, b
<1>3. Sub(n, BaseURL) = Sub(d, BaseURL)
  BY <1>1, <1>2, NormalizedFields, FieldsAside, SubAside, FieldPaths DEF Fields, n
<1>4. Sub(n, APIKey) = Sub(d, APIKey)
  BY <1>1, <1>2, NormalizedFields, FieldsAside, SubAside, FieldPaths DEF Fields, n
<1>5. Sub(n, ProviderModels) = Sub(d, ProviderModels)
  <2>1. CASE IDs(e) = <<>>
    BY <2>1, FieldsAside, SubAside, FieldPaths DEF Fields, n
  <2>2. CASE IDs(e) # <<>>
    <3> DEFINE items == b[ProviderModels][ProviderModels].models
    <3>1. /\ Sub(d, ProviderModels) = Leaf(ProviderModels, ModelList(items))
          /\ NormalItems(items, IDs(e))
      BY <1>1, <2>2 DEF Locked, b
    <3> HIDE DEF items
    <3>2. BuildProviderModels(d, IDs(e)) = items
      BY <3>1, ListOf, ListAgain, EnvironmentIDs
    <3> QED
      BY <2>2, <3>1, <3>2, NormalizedFields DEF n
  <2> QED
    BY <2>1, <2>2
<1>6. Sub(n, DefaultModel) = Sub(d, DefaultModel)
  <2>1. CASE IDs(e) = <<>>
    BY <2>1, FieldsAside, SubAside, FieldPaths DEF n
  <2>2. CASE IDs(e) # <<>>
    <3>1. /\ DefaultModel \in DOMAIN d /\ d[DefaultModel] = Object
          /\ Sub(d, Primary) = Leaf(Primary, Text(IDs(e)[1]))
      BY <1>1, <2>2, SubOfDefault DEF Locked, b
    <3>2. Sub(n, Primary) = Leaf(Primary, Text(IDs(e)[1]))
      BY <2>2, NormalizedFields DEF n
    <3> QED
      BY <2>2, <3>1, <3>2, DefaultKept DEF n
  <2> QED
    BY <2>1, <2>2
<1> QED
  BY <1>3, <1>4, <1>5, <1>6 DEF Captured, GuardPaths, n

-----------------------------------------------------------------------------
(* What an edit beside the guarded fields leaves captured. *)
LEMMA BesideIsApart ==
  ASSUME NEW p, Path(p), NEW g, Path(g), ~Under(p, g), ~Under(g, p)
  PROVE  Apart(g, p)
BY DEF Under, Apart, Path

LEMMA CapturedBeside ==
  ASSUME NEW p, Path(p), \A g \in GuardPaths : ~Under(p, g) /\ ~Under(g, p),
         NEW d, NEW tree, \A s \in DOMAIN tree : Under(p, s)
  PROVE  Captured(Put(d, p, tree)) = Captured(d) /\ Captured(Remove(d, p)) = Captured(d)
<1>1. ASSUME NEW g \in GuardPaths
      PROVE  Sub(Put(d, p, tree), g) = Sub(d, g) /\ Sub(Remove(d, p), g) = Sub(d, g)
  BY GuardPathsApart, BesideIsApart, SubOfPut, SubOfRemove
<1> QED
  BY <1>1 DEF Captured

LEMMA EditedLocked ==
  ASSUME EnvironmentLocked, NEW p, Edited(p), ~disturbed' => Captured(doc') = Captured(doc)
         \/ step \notin {"normalizing", "capturing"}
  PROVE  EnvironmentLocked'
BY DEF EnvironmentLocked, Edited

LEMMA LockedStep ==
  ASSUME Typed, EnvironmentLocked, [Next]_vars
  PROVE  EnvironmentLocked'
<1>1. ASSUME NEW e \in Environment, Start(e) PROVE EnvironmentLocked'
  <2>1. /\ armed' = FALSE /\ baseline' = baseline /\ doc' = doc /\ env' = e
        /\ step' = "normalizing" => e.wellFormed /\ read' = doc
        /\ step' \in {"normalizing", "free"}
        /\ resumed' => armed /\ ~disturbed /\ ~Drifted /\ e = env
    BY <1>1 DEF Start
  <2>2. ASSUME ~Drifted PROVE Captured(doc) = baseline
    BY <2>2 DEF Drifted, Captured, Typed, BaselineOK
  <2> QED
    BY <2>1, <2>2 DEF EnvironmentLocked
<1>2. CASE WriteNormalized
  <2> DEFINE n == Normalize(read, env, extensions)
  <2>1. /\ step = "normalizing" /\ step' = "capturing" /\ armed' = armed
        /\ env' = env /\ baseline' = baseline /\ resumed' = resumed
        /\ doc' = n \/ (n = read /\ doc' = doc /\ disturbed' = disturbed)
    BY <1>2 DEF WriteNormalized
  <2>2. Locked(Captured(n), env)
    BY CapturedIsLocked DEF Typed, TypeOK
  <2>3. ASSUME resumed PROVE Captured(n) = baseline
    BY <2>1, <2>3, LockedIsKept DEF EnvironmentLocked, Typed, TypeOK
  <2>4. ASSUME ~disturbed' PROVE Captured(doc') = Captured(n)
    BY <2>1, <2>4 DEF EnvironmentLocked
  <2>5. ~armed
    BY <2>1 DEF EnvironmentLocked
  <2> HIDE DEF n
  <2> QED
    BY <2>1, <2>2, <2>3, <2>4, <2>5 DEF EnvironmentLocked
<1>3. CASE CaptureModelBaseline
  BY <1>3 DEF CaptureModelBaseline, EnvironmentLocked
<1>4. ASSUME NEW r \in Rev, Apply(r) PROVE EnvironmentLocked'
  BY <1>4, CapturedIsLocked DEF Apply, EnvironmentLocked, Typed, TypeOK
<1>5. CASE Check
  BY <1>5 DEF Check, history, EnvironmentLocked
<1>6. CASE Restore
  BY <1>6 DEF Restore, history, EnvironmentLocked
<1>7. ASSUME NEW tree \in EditTree, Write(tree) PROVE EnvironmentLocked'
  <2>1. Path(Root(tree)) /\ \A s \in DOMAIN tree : Under(Root(tree), s)
    BY DocumentAssumption DEF Tree
  <2>2. Edited(Root(tree)) /\ doc' = Put(doc, Root(tree), tree)
    BY <1>7 DEF Write
  <2> QED
    BY <2>1, <2>2, EditedLocked, CapturedBeside DEF Edited, Disturbs
<1>8. ASSUME NEW p \in EditPath, Delete(p) PROVE EnvironmentLocked'
  <2>1. Path(p) /\ Edited(p) /\ doc' = Remove(doc, p) /\ \A s \in DOMAIN <<>> : Under(p, s)
    BY <1>8, DocumentAssumption, EmptyTree DEF Delete
  <2> QED
    BY <2>1, EditedLocked, CapturedBeside DEF Edited, Disturbs
<1>9. ASSUME NEW c \in Channel, ChangeExtension(c) PROVE EnvironmentLocked'
  BY <1>9 DEF ChangeExtension, history, EnvironmentLocked
<1>10. CASE UNCHANGED vars
  BY <1>10 DEF vars, history, EnvironmentLocked
<1> QED
  BY <1>1, <1>2, <1>3, <1>4, <1>5, <1>6, <1>7, <1>8, <1>9, <1>10 DEF Next

LEMMA LockedInvariant == Spec => []EnvironmentLocked
<1>1. Init => EnvironmentLocked
  BY DEF Init, EnvironmentLocked
<1> QED
  BY <1>1, LockedStep, Invariance, PTL DEF Spec

(* When nothing has drifted, the base URL, the key, the models, each once,   *)
(* and the primary model in the file are those of CLAWMANAGER_LLM_*, for any *)
(* environment, revision and edits, unless one of these fields was edited    *)
(* between the start's normalization and its capture of the baseline.        *)
THEOREM EnvironmentIsInjected == Spec => []EnvironmentInjected
<1>1. ASSUME Typed, EnvironmentLocked, armed, ~disturbed, ~Drifted
      PROVE  /\ env.baseURL # Blank => Field(BaseURL, env.baseURL)
             /\ env.apiKey # Unset => Field(APIKey, env.apiKey)
             /\ IDs(env) # <<>> =>
                  LET items == doc[ProviderModels].models
                  IN /\ {items[i].id : i \in DOMAIN items}
                          = {env.models[i] : i \in DOMAIN env.models} \ {Blank}
                     /\ \A i, j \in DOMAIN items : items[i].id = items[j].id => i = j
                     /\ Field(Append(DefaultModel, "primary"), items[1].id)
  <2>1. /\ Sub(doc, BaseURL) = baseline[BaseURL] /\ Sub(doc, APIKey) = baseline[APIKey]
        /\ Sub(doc, ProviderModels) = baseline[ProviderModels]
        /\ Sub(doc, DefaultModel) = baseline[DefaultModel]
    BY <1>1 DEF Drifted, GuardPaths
  <2>2. ASSUME NEW p, NEW v, Sub(doc, p) = Leaf(p, Text(v)) PROVE Field(p, v)
    BY <2>2 DEF Sub, Leaf, Field, Present
  <2>3. env \in Environment
    BY <1>1 DEF Typed, TypeOK
  <2>4. ASSUME IDs(env) # <<>>
        PROVE  LET items == doc[ProviderModels].models
                  IN /\ {items[i].id : i \in DOMAIN items}
                          = {env.models[i] : i \in DOMAIN env.models} \ {Blank}
                     /\ \A i, j \in DOMAIN items : items[i].id = items[j].id => i = j
                     /\ Field(Append(DefaultModel, "primary"), items[1].id)
    <3> DEFINE items == doc[ProviderModels].models
               ids == IDs(env)
    <3>1. NormalItems(items, ids)
      <4> DEFINE found == baseline[ProviderModels][ProviderModels].models
      <4>1. /\ Sub(doc, ProviderModels) = Leaf(ProviderModels, ModelList(found))
            /\ NormalItems(found, ids)
        BY <1>1, <2>1, <2>4 DEF EnvironmentLocked, Locked
      <4>2. doc[ProviderModels] = ModelList(found)
        BY <4>1, ListOf
      <4> QED
        BY <4>1, <4>2 DEF ModelList
    <3>2. Sub(doc, Primary) = Leaf(Primary, Text(ids[1]))
      BY <1>1, <2>1, <2>4, SubOfDefault DEF EnvironmentLocked, Locked
    <3> HIDE DEF items, ids
    <3>4. DOMAIN items = 1 .. Len(ids) /\ \A i \in 1 .. Len(ids) : items[i].id = ids[i]
      BY <3>1 DEF NormalItems
    <3>5. /\ {ids[i] : i \in 1 .. Len(ids)} = {env.models[i] : i \in DOMAIN env.models} \ {Blank}
          /\ \A i, j \in 1 .. Len(ids) : ids[i] = ids[j] => i = j
          /\ 1 \in 1 .. Len(ids)
      BY <2>3, <2>4, EnvironmentIDs DEF ids
    <3>6. {items[i].id : i \in DOMAIN items} = {ids[i] : i \in 1 .. Len(ids)}
      BY <3>4
    <3>7. Field(Append(DefaultModel, "primary"), items[1].id)
      BY <2>2, <3>2, <3>4, <3>5, PrimaryPath
    <3>8. \A i, j \in DOMAIN items : items[i].id = items[j].id => i = j
      BY <3>4, <3>5
    <3> QED
      BY <3>5, <3>6, <3>7, <3>8 DEF items
  <2>5. /\ env.baseURL # Blank => Sub(doc, BaseURL) = Leaf(BaseURL, Text(env.baseURL))
        /\ env.apiKey # Unset => Sub(doc, APIKey) = Leaf(APIKey, Text(env.apiKey))
    BY <1>1, <2>1 DEF EnvironmentLocked, Locked
  <2> QED
    BY <2>2, <2>4, <2>5
<1>2. Typed /\ EnvironmentLocked => EnvironmentInjected
  BY <1>1 DEF EnvironmentInjected
<1> QED
  BY <1>2, Invariance, LockedInvariant, PTL
(* An agent that starts again in the same environment, on a file in which no *)
(* guarded field has drifted, captures the baseline it had before: what was  *)
(* locked stays locked, the settings of the models included, unless a        *)
(* guarded field is edited while it starts.                                  *)
THEOREM BaselineSurvives == Spec => BaselineSurvivesRestart
<1>1. EnvironmentLocked /\ [Next]_vars =>
        [CaptureModelBaseline /\ resumed /\ ~disturbed => baseline' = baseline]_vars
  BY DEF EnvironmentLocked, CaptureModelBaseline
<1> QED
  BY <1>1, LockedInvariant, PTL DEF Spec, BaselineSurvivesRestart
-----------------------------------------------------------------------------
(* A start changes nothing but what it is told to. *)
LEMMA LastPlace ==
  ASSUME NEW n \in Nat, NEW S, S \subseteq 1 .. n, S # {}
  PROVE  \E i \in S : \A j \in S : j <= i
<1> DEFINE P == {k \in Nat : n - k \in S}
<1>1. PICK i \in S : i \in 1 .. n
  OBVIOUS
<1>2. n - i \in P
  <2>1. n - i \in Nat /\ n - (n - i) = i
    BY <1>1
  <2> QED
    BY <2>1
<1>3. PICK k \in P : \A l \in P : ~(l < k)
  <2>1. \E k \in P : \A l \in P : <<l, k>> \notin OpToRel(<, Nat)
    BY <1>2, NatLessThanWellFounded, WFMin, Zenon
  <2> QED
    BY <2>1 DEF OpToRel
<1>4. ASSUME NEW j \in S PROVE j <= n - k
  <2>1. j \in 1 .. n
    OBVIOUS
  <2>2. n - j \in Nat /\ n - (n - j) = j
    BY <2>1
  <2>3. n - j \in P
    BY <2>2
  <2> QED
    BY <1>3, <2>1, <2>2, <2>3
<1> QED
  BY <1>3, <1>4

LEMMA WinsIsThere ==
  ASSUME NEW d, Nodes(d), NEW id, Existing(d, id) # {}
  PROVE  Wins(d, id) \in Existing(d, id)
<1>1. List(Listed(d))
  BY DEF Nodes, Listed, Present, List
<1>2. \E i \in Existing(d, id) : \A j \in Existing(d, id) : j <= i
  BY <1>1, LastPlace DEF Existing, List
<1> QED
  BY <1>2 DEF Wins

LEMMA SettingsKept ==
  ASSUME NEW d, Nodes(d), NEW n, NEW ids, Len(ids) \in Nat, NEW i \in 1 .. Len(ids),
         Listed(n) = BuildProviderModels(d, ids), SettingsOf(d, ids[i]) # {}
  PROVE  SettingsOf(n, ids[i]) \subseteq SettingsOf(d, ids[i])
<1>1. Existing(d, ids[i]) # {}
  BY DEF SettingsOf
<1>2. Wins(d, ids[i]) \in Existing(d, ids[i])
  BY <1>1, WinsIsThere
<1>3. /\ DOMAIN Listed(n) = 1 .. Len(ids)
      /\ \A j \in 1 .. Len(ids) : Listed(n)[j] = KeptOrDefault(d, ids[j])
  BY DEF BuildProviderModels
<1>4. \A id : KeptOrDefault(d, id).id = id
  BY DEF KeptOrDefault, DefaultProviderModel
<1>5. ASSUME NEW j \in Existing(n, ids[i])
      PROVE  Listed(n)[j].settings = Listed(d)[Wins(d, ids[i])].settings
  <2>1. Listed(n)[j] = KeptOrDefault(d, ids[i])
    BY <1>3, <1>4, <1>5 DEF Existing
  <2> QED
    BY <1>1, <2>1 DEF KeptOrDefault
<1> QED
  BY <1>2, <1>5 DEF SettingsOf

LEMMA UntoldIsAside ==
  ASSUME NEW e, e = env, e \in Environment, NEW ext, NEW s, Untold(s)
  PROVE  /\ Aside(e, s) /\ s # <<>> /\ s # <<"channels">>
         /\ Len(s) >= 2 /\ s[1] = "channels" => s[2] \in Kept(e, ext)
<1>1. IDs(e) # <<>> => e.models # <<>>
  BY EnvironmentIDs
<1>2. Aside(e, s)
  BY <1>1, PrimaryPath DEF Aside, Overridden, Untold
<1>3. s # <<>>
  <2>1. Path(<<>>) /\ Len(<<>>) = 0
    BY DEF Path
  <2>2. <<>> \in Above(BaseURL)
    BY <2>1, ProviderPaths, IsAbove
  <2> QED
    BY <2>2 DEF Untold, Parent, GuardPaths
<1>4. ASSUME s[1] = "channels", Len(s) >= 1 PROVE FALSE
  <2>1. Under(<<"channels">>, s)
    BY <1>4 DEF Under
  <2> QED
    BY <2>1 DEF Untold
<1>5. s # <<"channels">>
  BY <1>4
<1> QED
  BY <1>2, <1>3, <1>4, <1>5

(* A start touches no field but those CLAWMANAGER_* overrides, the channels, *)
(* the paths of installed plugins and parents that were not objects; and a   *)
(* model that stays in the list keeps its settings (indexModelsByID).        *)
THEOREM StartingIsExact == Spec => StartIsExact
<1>1. ASSUME Typed, WriteNormalized, doc' # doc
      PROVE  /\ Same(read, doc', {s \in DOMAIN read \cup DOMAIN doc' : Untold(s)})
             /\ \A i \in DOMAIN IDs(env) :
                  SettingsOf(read, IDs(env)[i]) # {} =>
                    SettingsOf(doc', IDs(env)[i]) \subseteq SettingsOf(read, IDs(env)[i])
  <2>1. doc' = Normalize(read, env, extensions) /\ Nodes(read) /\ env \in Environment
    BY <1>1 DEF WriteNormalized, Typed, TypeOK, Holding
  <2>2. ASSUME NEW s \in DOMAIN read \cup DOMAIN doc', Untold(s), ~IsInstallPath(s)
        PROVE  s \in DOMAIN read \cap DOMAIN doc' /\ doc'[s] = read[s]
    <3>1. Agree(read, doc', s)
      BY <2>1, <2>2, UntoldIsAside, NormalizedBeside
    <3> QED
      BY <2>2, <3>1 DEF Agree
  <2>3. ASSUME NEW i \in DOMAIN IDs(env), SettingsOf(read, IDs(env)[i]) # {}
        PROVE  SettingsOf(doc', IDs(env)[i]) \subseteq SettingsOf(read, IDs(env)[i])
    <3>1. Len(IDs(env)) \in Nat /\ i \in 1 .. Len(IDs(env)) /\ IDs(env) # <<>>
      <4>1. List(IDs(env))
        BY <2>1, EnvironmentAssumption, ModelIDs DEF IDs
      <4> QED
        BY <2>3, <4>1 DEF List
    <3>2. Listed(doc') = BuildProviderModels(read, IDs(env))
      BY <2>1, <3>1, NormalizedFields, ListOf
    <3> QED
      BY <2>1, <2>3, <3>1, <3>2, SettingsKept
  <2> QED
    BY <2>2, <2>3 DEF Same, Untold
<1>2. Typed /\ [Next]_vars =>
        [WriteNormalized /\ doc' # doc =>
           /\ Same(read, doc', {s \in DOMAIN read \cup DOMAIN doc' : Untold(s)})
           /\ \A i \in DOMAIN IDs(env) :
                SettingsOf(read, IDs(env)[i]) # {} =>
                  SettingsOf(doc', IDs(env)[i]) \subseteq SettingsOf(read, IDs(env)[i])]_vars
  BY <1>1
<1> QED
  BY <1>2, Invariance, PTL DEF Spec, StartIsExact
-----------------------------------------------------------------------------
(* What is normal stays as it is. *)
LEMMA PutAgain ==
  ASSUME NEW d, Document(d), d = [s \in DOMAIN d |-> d[s]], NEW p \in DOMAIN d,
         NEW tree, tree = Sub(d, p)
  PROVE  Put(d, p, tree) = d
<1>1. \A t \in Above(p) : t \in DOMAIN d /\ d[t] = Object
  BY DEF Document
<1>2. DOMAIN tree = {s \in DOMAIN d : Under(p, s)} /\ \A s \in DOMAIN tree : tree[s] = d[s]
  BY DEF Sub
<1>3. {s \in DOMAIN d : ~Under(p, s)} \cup Above(p) \cup DOMAIN tree = DOMAIN d
  BY <1>1, <1>2
<1> HIDE DEF Sub
<1>4. \A s \in DOMAIN d :
        (IF s \in DOMAIN tree THEN tree[s] ELSE IF s \in Above(p) THEN Object ELSE d[s]) = d[s]
  BY <1>1, <1>2
<1> QED
  BY <1>3, <1>4 DEF Put

LEMMA EnsuredAgain ==
  ASSUME NEW d, Document(d), d = [s \in DOMAIN d |-> d[s]], NEW p \in DOMAIN d, d[p] = Object
  PROVE  Ensured(d, p) = d
<1>1. \A t \in Above(p) \cup {p} : t \in DOMAIN d /\ d[t] = Object
  BY DEF Document
<1> QED
  BY <1>1 DEF Ensured

LEMMA LLMAgain ==
  ASSUME NEW d, NEW e \in Environment, NEW ext, NEW n, n = Normalize(d, e, ext), Document(n)
  PROVE  NormalizeLLM(n, e) = n
<1>1. n = [s \in DOMAIN n |-> n[s]]
  BY DEF Normalize, ReconcileChannels
<1>2. ASSUME NEW p \in Fields, NEW node, Sub(n, p) = Leaf(p, node) PROVE PutNode(n, p, node) = n
  <2>1. p \in DOMAIN n
    BY <1>2 DEF Sub, Leaf
  <2> QED
    BY <1>1, <1>2, <2>1, PutAgain DEF PutNode, Leaf
<1>3. Ensured(n, AutoProvider) = n
  BY <1>1, EnsuredAgain, NormalizedFields
<1>4. WithBaseURL(n, e) = n
  BY <1>2, NormalizedFields DEF WithBaseURL, Fields
<1>5. WithAPIKey(n, e) = n
  BY <1>2, NormalizedFields DEF WithAPIKey, Fields
<1>6. WithModels(n, e) = n
  <2>1. CASE IDs(e) = <<>>
    BY <2>1 DEF WithModels
  <2>2. CASE IDs(e) # <<>>
    <3> DEFINE items == BuildProviderModels(d, IDs(e))
    <3>1. Sub(n, ProviderModels) = Leaf(ProviderModels, ModelList(items))
      BY <2>2, NormalizedFields
    <3>2. BuildProviderModels(n, IDs(e)) = items
      <4>1. NormalItems(items, IDs(e))
        BY EnvironmentIDs, ListIsNormal
      <4> HIDE DEF items
      <4> QED
        BY <3>1, <4>1, ListOf, ListAgain, EnvironmentIDs
    <3>3. PutNode(n, ProviderModels, ModelList(BuildProviderModels(n, IDs(e)))) = n
      BY <1>2, <3>1, <3>2 DEF Fields
    <3>4. Ensured(n, DefaultModel) = n
      BY <1>1, <2>2, EnsuredAgain, NormalizedFields
    <3>5. PutNode(n, DefaultModel \o <<"primary">>, Text(IDs(e)[1])) = n
      BY <1>2, <2>2, NormalizedFields DEF Fields, Primary
    <3>6. Put(n, AgentModels, BuildAgentModels(n, IDs(e))) = n
      <4>1. Sub(n, AgentModels) = BuildAgentModels(n, IDs(e))
        BY <2>2, NormalizedFields
      <4>2. AgentModels \in DOMAIN n
        BY <4>1 DEF BuildAgentModels, Sub
      <4> QED
        BY <1>1, <4>1, <4>2, PutAgain
    <3> QED
      BY <2>2, <3>3, <3>4, <3>5, <3>6 DEF WithModels
  <2> QED
    BY <2>1, <2>2
<1> QED
  BY <1>3, <1>4, <1>5, <1>6 DEF NormalizeLLM

LEMMA RewriteAgain ==
  ASSUME NEW d, Nodes(d), NEW e, NEW ext,
         NEW n, n = ReconcileChannels(RewriteInstalledPluginPaths(d), e, ext)
  PROVE  RewriteInstalledPluginPaths(n) = n
<1> DEFINE f == RewriteInstalledPluginPaths(d)
<1>1. ASSUME NEW s \in DOMAIN n, IsInstallPath(s), n[s].kind = "path"
      PROVE  ~Under(Prefix, n[s].path)
  <2>1. s # <<>> /\ s # <<"channels">> /\ s[1] # "channels"
    BY <1>1 DEF IsInstallPath
  <2>2. Agree(f, n, s)
    BY <2>1, ReconciledBeside
  <2>3. s \in DOMAIN d /\ n[s] = f[s]
    BY <1>1, <2>2 DEF Agree, RewriteInstalledPluginPaths
  <2>4. CASE d[s].kind = "path"
    <3>1. n[s] = Moved(d[s]) /\ Path(d[s].path)
      BY <1>1, <2>3, <2>4 DEF RewriteInstalledPluginPaths, Nodes
    <3> QED
      BY <3>1, MovedPath DEF Moved
  <2>5. CASE d[s].kind # "path"
    BY <1>1, <2>3, <2>5 DEF RewriteInstalledPluginPaths
  <2> QED
    BY <2>4, <2>5
<1>2. n = [s \in DOMAIN n |-> n[s]]
  BY DEF ReconcileChannels
<1> QED
  BY <1>1, <1>2 DEF RewriteInstalledPluginPaths, Moved

LEMMA ReconcileAgain ==
  ASSUME NEW d, NEW e, NEW ext, NEW n, n = ReconcileChannels(d, e, ext), Document(n)
  PROVE  ReconcileChannels(n, e, ext) = n
<1> DEFINE Free(s) == Len(s) >= 2 /\ s[1] = "channels" => s[2] \in Kept(e, ext)
           base == Ensured(d, <<"channels">>)
           new == UNION {DOMAIN ChannelTree(c, e.channels[c]) : c \in FromEnv(e, ext)}
           Set(s) == ChannelTree(s[2], e.channels[s[2]])[s]
<1>1. n = [s \in {s \in DOMAIN base : Free(s)} \cup new |-> IF s \in new THEN Set(s) ELSE base[s]]
  BY DEF ReconcileChannels
<1>2. ASSUME NEW s \in new PROVE ~Free(s)
  <2>1. PICK c \in FromEnv(e, ext) : s \in {ChannelAt(c), Token(c)}
    BY <1>2 DEF ChannelTree, Token
  <2>2. CASE s = ChannelAt(c)
    <3>1. Len(s) = 2 /\ s[1] = "channels" /\ s[2] = c
      BY <2>2, ChannelPaths
    <3> QED
      BY <2>1, <3>1 DEF Kept
  <2>3. CASE s = Token(c)
    BY <2>1, <2>3, ChannelPaths DEF Kept
  <2> QED
    BY <2>1, <2>2, <2>3
<1>3. <<"channels">> \in DOMAIN n /\ n[<<"channels">>] = Object
  <2>1. <<"channels">> \in DOMAIN base /\ base[<<"channels">>] = Object
    BY DEF Ensured
  <2>2. Free(<<"channels">>)
    OBVIOUS
  <2>3. <<"channels">> \notin new
    BY <1>2, <2>2
  <2> HIDE DEF base, new, Free, Set
  <2> QED
    BY <1>1, <2>1, <2>2, <2>3
<1>4. Ensured(n, <<"channels">>) = n
  <2>1. n = [s \in DOMAIN n |-> n[s]]
    BY <1>1
  <2> QED
    BY <1>3, <2>1, EnsuredAgain
<1>5. ReconcileChannels(n, e, ext)
        = [s \in {s \in DOMAIN n : Free(s)} \cup new |-> IF s \in new THEN Set(s) ELSE n[s]]
  BY <1>4 DEF ReconcileChannels
<1> HIDE DEF base, new, Free, Set
<1>6. {s \in DOMAIN n : Free(s)} \cup new = DOMAIN n
  BY <1>1, <1>2
<1>7. \A s \in DOMAIN n : (IF s \in new THEN Set(s) ELSE n[s]) = n[s]
  BY <1>1
<1>8. n = [s \in DOMAIN n |-> n[s]]
  BY <1>1
<1> QED
  BY <1>5, <1>6, <1>7, <1>8

(* Normalizing twice is normalizing once, in every state and environment that *)
(* parses: an agent that starts over an unchanged file writes nothing.       *)
THEOREM NormalStays == Spec => []NormalSettles
<1>1. ASSUME Typed, NEW e \in Environment, NEW n, n = Normalize(doc, e, extensions)
      PROVE  Normalize(n, e, extensions) = n
  <2> DEFINE llm == NormalizeLLM(doc, e)
             paths == RewriteInstalledPluginPaths(llm)
  <2>1. Document(n) /\ Nodes(llm)
    BY <1>1, DocumentNormalized, NodesLLM DEF Typed, TypeOK
  <2>2. NormalizeLLM(n, e) = n
    BY <1>1, <2>1, LLMAgain
  <2>3. n = ReconcileChannels(paths, e, extensions)
    BY <1>1 DEF Normalize
  <2> HIDE DEF llm
  <2>4. RewriteInstalledPluginPaths(n) = n
    BY <2>1, <2>3, RewriteAgain
  <2>5. ReconcileChannels(n, e, extensions) = n
    BY <2>1, <2>3, ReconcileAgain
  <2> QED
    BY <2>2, <2>4, <2>5 DEF Normalize
<1>2. Typed => NormalSettles
  BY <1>1 DEF NormalSettles
<1> QED
  BY <1>2, Invariance, PTL
=============================================================================
