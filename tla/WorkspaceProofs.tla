--------------------------- MODULE WorkspaceProofs ---------------------------
(* Proofs about Workspace, and with it about RepoAliases and               *)
(* ClusterTemplate, for every value of their constants.                    *)
EXTENDS Workspace, SequenceTheorems, TLAPS

----------------------------------------------------------------------------
(* The configurations in the alias file *)

\* A list without its i-th entry.
LEMMA Removed ==
    ASSUME NEW T, NEW s \in Seq(T), NEW i \in DOMAIN s
    PROVE  LET t == SubSeq(s, 1, i - 1) \o SubSeq(s, i + 1, Len(s)) IN
           /\ t \in Seq(T)
           /\ \A j \in DOMAIN t : \E k \in DOMAIN s :
                 /\ k # i /\ t[j] = s[k]
                 /\ k = IF j < i THEN j ELSE j + 1
           /\ \A k \in DOMAIN s : k # i => \E j \in DOMAIN t : t[j] = s[k]
<1>. DEFINE before == SubSeq(s, 1, i - 1)
            after == SubSeq(s, i + 1, Len(s))
            t == before \o after
            n == Len(s)
<1>1. n \in Nat /\ DOMAIN s = 1..n /\ i \in 1..n /\ i \in Nat
  OBVIOUS
<1>2. /\ before \in Seq(T) /\ Len(before) = i - 1
      /\ \A j \in 1..(i - 1) : before[j] = s[j]
  BY <1>1, SubSeqProperties
<1>3. /\ after \in Seq(T) /\ Len(after) = n - i
      /\ \A j \in 1..(n - i) : after[j] = s[i + j]
  <2>1. i + 1 \in 1..n + 1 /\ n \in i..n
    BY <1>1
  <2>2. /\ after \in Seq(T)
        /\ Len(after) = IF i + 1 <= n THEN n - (i + 1) + 1 ELSE 0
        /\ \A j \in 1..n - (i + 1) + 1 : after[j] = s[(i + 1) + j - 1]
    BY <2>1, SubSeqProperties
  <2>3. Len(after) = n - i
    BY <1>1, <2>2
  <2>4. \A j \in 1..(n - i) : j \in 1..n - (i + 1) + 1 /\ (i + 1) + j - 1 = i + j
    BY <1>1
  <2>. QED  BY <2>2, <2>3, <2>4
<1>. HIDE DEF before, after
<1>4. /\ t \in Seq(T) /\ Len(t) = Len(before) + Len(after)
      /\ \A j \in 1..Len(before) + Len(after) : t[j] =
            IF j <= Len(before) THEN before[j] ELSE after[j - Len(before)]
  BY <1>2, <1>3, ConcatProperties
<1>. HIDE DEF t
<1>5. DOMAIN t = 1..(n - 1) /\ Len(before) + Len(after) = n - 1
  <2>1. Len(before) + Len(after) = n - 1
    BY <1>1, <1>2, <1>3
  <2>2. DOMAIN t = 1..Len(t)
    BY <1>4
  <2>. QED  BY <1>4, <2>1, <2>2
<1>6. \A j \in 1..(n - 1) : j < i => t[j] = s[j]
  <2>. SUFFICES ASSUME NEW j \in 1..(n - 1), j < i
                PROVE  t[j] = s[j]
    OBVIOUS
  <2>1. j \in 1..(i - 1) /\ j <= Len(before)
    BY <1>1, <1>2
  <2>. QED  BY <1>2, <1>4, <1>5, <2>1
<1>7. \A j \in 1..(n - 1) : ~(j < i) => t[j] = s[j + 1]
  <2>. SUFFICES ASSUME NEW j \in 1..(n - 1), ~(j < i)
                PROVE  t[j] = s[j + 1]
    OBVIOUS
  <2>1. t[j] = after[j - (i - 1)]
    BY <1>1, <1>2, <1>4, <1>5
  <2>2. j - (i - 1) \in 1..(n - i) /\ i + (j - (i - 1)) = j + 1
    BY <1>1
  <2>. QED  BY <1>3, <2>1, <2>2
<1>8. \A j \in DOMAIN t : \E k \in DOMAIN s :
         k # i /\ t[j] = s[k] /\ k = IF j < i THEN j ELSE j + 1
  <2>. SUFFICES ASSUME NEW j \in 1..(n - 1)
                PROVE  \E k \in 1..n : k # i /\ t[j] = s[k]
                                       /\ k = IF j < i THEN j ELSE j + 1
    BY <1>1, <1>5
  <2>1. CASE j < i
    <3>1. j \in 1..n /\ j # i /\ t[j] = s[j]
      BY <1>1, <1>6, <2>1
    <3>. QED  BY <2>1, <3>1
  <2>2. CASE ~(j < i)
    <3>1. j + 1 \in 1..n /\ j + 1 # i /\ t[j] = s[j + 1]
      BY <1>1, <1>7, <2>2
    <3>. QED  BY <2>2, <3>1
  <2>. QED  BY <2>1, <2>2
<1>9. \A k \in DOMAIN s : k # i => \E j \in DOMAIN t : t[j] = s[k]
  <2>. SUFFICES ASSUME NEW k \in 1..n, k # i
                PROVE  \E j \in 1..(n - 1) : t[j] = s[k]
    BY <1>1, <1>5
  <2>1. CASE k < i
    <3>1. k \in 1..(n - 1) /\ t[k] = s[k]
      BY <1>1, <1>6, <2>1
    <3>. QED  BY <3>1
  <2>2. CASE ~(k < i)
    <3>1. k - 1 \in 1..(n - 1) /\ ~(k - 1 < i) /\ (k - 1) + 1 = k
      BY <1>1, <2>2
    <3>2. t[k - 1] = s[k]
      BY <1>7, <3>1
    <3>. QED  BY <3>1, <3>2
  <2>. QED  BY <2>1, <2>2
<1>. QED  BY <1>4, <1>8, <1>9 DEF t, before, after

\* In a list without an alias twice, the entry that is found is the only one.
LEMMA FirstIs ==
    ASSUME NEW c \in RepoCtxCfg, Coherent(c), NEW i \in DOMAIN c.repos
    PROVE  FirstWith(c.repos, c.repos[i].alias) = i
<1>. DEFINE repos == c.repos
            Is(k) == /\ repos[k].alias = repos[i].alias
                     /\ \A j \in 1..k - 1 : repos[j].alias # repos[i].alias
<1>1. repos \in Seq(RepoCtx) /\ DOMAIN repos = 1..Len(repos) /\ Len(repos) \in Nat
  BY DEF RepoCtxCfg
<1>2. \A k, l \in DOMAIN repos : repos[k].alias = repos[l].alias => k = l
  BY DEF Coherent
<1>0. i \in DOMAIN repos
  OBVIOUS
<1>. HIDE DEF repos
<1>3. Is(i)
  <2>. SUFFICES ASSUME NEW j \in 1..i - 1
                PROVE  repos[j].alias # repos[i].alias
    OBVIOUS
  <2>1. j \in DOMAIN repos /\ j # i
    BY <1>0, <1>1
  <2>. QED  BY <1>0, <1>2, <2>1
<1>4. \A k \in DOMAIN repos : Is(k) => k = i
  BY <1>0, <1>2
<1>5. FirstWith(repos, repos[i].alias) = CHOOSE k \in DOMAIN repos : Is(k)
  BY DEF FirstWith
<1>. HIDE DEF Is
<1>6. (CHOOSE k \in DOMAIN repos : Is(k)) = i
  BY <1>0, <1>3, <1>4
<1>. QED  BY <1>5, <1>6 DEF repos

\* How an alias resolves, in a file that can be loaded.
LEMMA ResolvedAt ==
    ASSUME NEW contents \in Contents, ~LoadFails(contents),
           Coherent(contents.cfg)
    PROVE  LET c == contents.cfg IN
           /\ DOMAIN Resolved(contents) = Aliases
           /\ Resolved(contents) = [a \in Aliases |-> Resolved(contents)[a]]
           /\ \A i \in DOMAIN c.repos :
                 Resolved(contents)[c.repos[i].alias] = c.repos[i].url
           /\ \A a \in Aliases :
                 ~AliasExists(c.repos, a) => Resolved(contents)[a] = NoUrl
<1>. DEFINE c == contents.cfg
            At(a) == IF GetRepoUrl(contents, a) = {} THEN NoUrl
                     ELSE CHOOSE u \in GetRepoUrl(contents, a) : TRUE
<1>1. c \in RepoCtxCfg /\ Coherent(c)
  BY DEF Contents
<1>2. c.repos \in Seq(RepoCtx) /\ \A i \in DOMAIN c.repos : c.repos[i] \in RepoCtx
  BY <1>1 DEF RepoCtxCfg
<1>3. Resolved(contents) = [a \in Aliases |-> At(a)]
  BY DEF Resolved
<1>4. \A a, u : GetRepoUrl(contents, a) = {u} => At(a) = u
  <2>1. \A u : (CHOOSE v \in {u} : TRUE) = u
    OBVIOUS
  <2>. QED  BY <2>1
<1>5. \A a : GetRepoUrl(contents, a) = {} => At(a) = NoUrl
  OBVIOUS
<1>. HIDE DEF At
<1>6. ASSUME NEW i \in DOMAIN c.repos
      PROVE  Resolved(contents)[c.repos[i].alias] = c.repos[i].url
  <2>. DEFINE a == c.repos[i].alias
  <2>1. a \in Aliases
    BY <1>2, <1>6 DEF RepoCtx
  <2>2. AliasExists(c.repos, a)
    BY <1>6 DEF AliasExists
  <2>3. FirstWith(c.repos, a) = i
    BY <1>1, <1>6, FirstIs
  <2>4. a = Default => c.default = c.repos[i].url
    BY <1>1, <1>6 DEF Coherent
  <2>5. GetRepoUrl(contents, a) = {c.repos[i].url}
    BY <2>2, <2>3, <2>4, Zenon DEF GetRepoUrl
  <2>. QED  BY <1>3, <1>4, <2>1, <2>5
<1>7. ASSUME NEW a \in Aliases, ~AliasExists(c.repos, a)
      PROVE  Resolved(contents)[a] = NoUrl
  <2>1. a = Default => c.default = NoUrl
    BY <1>1, <1>7 DEF Coherent
  <2>2. GetRepoUrl(contents, a) \in {{}, {NoUrl}}
    BY <1>7, <2>1 DEF GetRepoUrl
  <2>. QED  BY <1>3, <1>4, <1>5, <2>2
<1>. QED  BY <1>3, <1>6, <1>7

LEMMA EmptyFacts ==
    /\ EmptyCfg \in RepoCtxCfg
    /\ Empty \in Contents /\ Garbage \in Contents
    /\ Empty.cfg = EmptyCfg /\ Garbage.cfg = EmptyCfg
    /\ Empty.text = "empty" /\ Garbage.text = "garbage"
    /\ ~LoadFails(Empty)
    /\ Sound(Empty) /\ Sound(Garbage)
    /\ Coherent(EmptyCfg)
    /\ Resolved(Empty) = [a \in Aliases |-> NoUrl]
<1>1. /\ EmptyCfg.default = NoUrl /\ EmptyCfg.repos = <<>>
      /\ EmptyCfg \in RepoCtxCfg
  BY DEF EmptyCfg, RepoCtxCfg
<1>2. /\ Empty.cfg = EmptyCfg /\ Garbage.cfg = EmptyCfg
      /\ Empty.text = "empty" /\ Garbage.text = "garbage"
  BY DEF Empty, Garbage
<1>3. Empty \in Contents /\ Garbage \in Contents
  BY <1>1 DEF Empty, Garbage, Contents
<1>4. DOMAIN EmptyCfg.repos = {}
  BY <1>1
<1>5. Coherent(EmptyCfg)
  BY <1>1, <1>4 DEF Coherent
<1>6. ~LoadFails(Empty)
  BY <1>2 DEF LoadFails
<1>7. Sound(Empty) /\ Sound(Garbage)
  BY <1>2, <1>5 DEF Sound
<1>8. \A a : ~AliasExists(Empty.cfg.repos, a)
  BY <1>2, <1>4 DEF AliasExists
<1>9. Resolved(Empty) = [a \in Aliases |-> NoUrl]
  <2>1. Coherent(Empty.cfg)
    BY <1>2, <1>5
  <2>2. \A a \in Aliases : Resolved(Empty)[a] = NoUrl
    BY <1>3, <1>6, <1>8, <2>1, ResolvedAt
  <2>3. Resolved(Empty) = [a \in Aliases |-> Resolved(Empty)[a]]
    BY <1>3, <1>6, <2>1, ResolvedAt
  <2>. QED  BY <2>2, <2>3
<1>. QED  BY <1>1, <1>2, <1>3, <1>5, <1>6, <1>7, <1>9

\* The contents that a command writes.
LEMMA JsonFacts ==
    ASSUME NEW c \in RepoCtxCfg
    PROVE  /\ Json(c) \in Contents /\ Json(c).cfg = c /\ Json(c).text = "json"
           /\ ~LoadFails(Json(c)) /\ Json(c) # Empty
           /\ Coherent(c) => Sound(Json(c))
<1>1. Json(c).cfg = c /\ Json(c).text = "json"
  BY DEF Json
<1>2. Json(c) \in Contents
  BY DEF Json, Contents
<1>3. Json(c) # Empty
  BY <1>1, EmptyFacts
<1>. QED  BY <1>1, <1>2, <1>3 DEF LoadFails, Sound

LEMMA LoadedCfg ==
    ASSUME NEW contents \in Contents
    PROVE  /\ contents.cfg \in RepoCtxCfg
           /\ contents.cfg.repos \in Seq(RepoCtx)
           /\ contents.cfg.default \in Urls \cup {NoUrl}
           /\ \A i \in DOMAIN contents.cfg.repos :
                 /\ contents.cfg.repos[i].alias \in Aliases
                 /\ contents.cfg.repos[i].url \in Urls
           /\ contents.text \in {"empty", "json", "garbage"}
<1>1. contents.cfg \in RepoCtxCfg /\ contents.text \in {"empty", "json", "garbage"}
  BY DEF Contents
<1>2. /\ contents.cfg.repos \in Seq(RepoCtx)
      /\ contents.cfg.default \in Urls \cup {NoUrl}
  BY <1>1 DEF RepoCtxCfg
<1>3. \A i \in DOMAIN contents.cfg.repos : contents.cfg.repos[i] \in RepoCtx
  BY <1>2
<1>. QED  BY <1>1, <1>2, <1>3 DEF RepoCtx

LEMMA RegisteredType ==
    ASSUME NEW c \in RepoCtxCfg, NEW a \in Aliases, NEW u \in Urls
    PROVE  LET new == Registered(c, a, u) IN
           /\ new \in RepoCtxCfg
           /\ new.default = IF a = Default THEN u ELSE c.default
           /\ \A i \in DOMAIN c.repos :
                 i \in DOMAIN new.repos /\ new.repos[i] = c.repos[i]
           /\ \E n \in DOMAIN new.repos :
                 /\ new.repos[n].alias = a /\ new.repos[n].url = u
                 /\ \A i \in DOMAIN new.repos : i = n \/ i \in DOMAIN c.repos
<1>. DEFINE e == [alias |-> a, url |-> u]
            s == c.repos
            t == Append(s, e)
            d == IF a = Default THEN u ELSE c.default
            n == Len(s) + 1
<1>1. s \in Seq(RepoCtx) /\ c.default \in Urls \cup {NoUrl}
  BY DEF RepoCtxCfg
<1>2. e \in RepoCtx /\ e.alias = a /\ e.url = u
  BY DEF RepoCtx
<1>. HIDE DEF s, e
<1>3. /\ t \in Seq(RepoCtx) /\ Len(t) = Len(s) + 1 /\ t[n] = e
      /\ \A i \in 1..Len(s) : t[i] = s[i]
      /\ Len(s) \in Nat /\ DOMAIN s = 1..Len(s)
  BY <1>1, <1>2
<1>4. DOMAIN t = 1..n
  BY <1>3
<1>5. /\ n \in DOMAIN t /\ \A i \in DOMAIN t : i = n \/ i \in DOMAIN s
      /\ \A i \in DOMAIN s : i \in DOMAIN t /\ t[i] = s[i]
  BY <1>3, <1>4
<1>. HIDE DEF t, n
<1>6. d \in Urls \cup {NoUrl}
  BY <1>1
<1>. HIDE DEF d
<1>7. /\ Registered(c, a, u) = [default |-> d, repos |-> t]
  BY DEF Registered, d, t, s, e
<1>8. [default |-> d, repos |-> t] \in RepoCtxCfg
  BY <1>3, <1>6 DEF RepoCtxCfg
<1>. QED  BY <1>2, <1>3, <1>5, <1>7, <1>8 DEF d, s

LEMMA UnregisteredType ==
    ASSUME NEW c \in RepoCtxCfg, NEW i \in DOMAIN c.repos
    PROVE  LET new == Unregistered(c, i) IN
           /\ new \in RepoCtxCfg
           /\ new.default = IF c.repos[i].alias = Default THEN NoUrl
                            ELSE c.default
           /\ \A j \in DOMAIN new.repos : \E k \in DOMAIN c.repos :
                 /\ k # i /\ new.repos[j] = c.repos[k]
                 /\ k = IF j < i THEN j ELSE j + 1
           /\ \A k \in DOMAIN c.repos :
                 k # i => \E j \in DOMAIN new.repos : new.repos[j] = c.repos[k]
<1>. DEFINE s == c.repos
            t == SubSeq(s, 1, i - 1) \o SubSeq(s, i + 1, Len(s))
            d == IF s[i].alias = Default THEN NoUrl ELSE c.default
<1>1. s \in Seq(RepoCtx) /\ c.default \in Urls \cup {NoUrl} /\ i \in DOMAIN s
  BY DEF RepoCtxCfg
<1>2. Unregistered(c, i) = [default |-> d, repos |-> t]
  BY DEF Unregistered
<1>3. d \in Urls \cup {NoUrl}
  BY <1>1
<1>. HIDE DEF s
<1>4. /\ t \in Seq(RepoCtx)
      /\ \A j \in DOMAIN t : \E k \in DOMAIN s :
            k # i /\ t[j] = s[k] /\ k = IF j < i THEN j ELSE j + 1
      /\ \A k \in DOMAIN s : k # i => \E j \in DOMAIN t : t[j] = s[k]
  BY <1>1, Removed, Zenon
<1>. HIDE DEF t, d
<1>5. [default |-> d, repos |-> t] \in RepoCtxCfg
  BY <1>3, <1>4 DEF RepoCtxCfg
<1>. QED  BY <1>2, <1>4, <1>5 DEF d, s

\* Registering an alias that is not there yet keeps a configuration coherent
\* and changes how that alias resolves, and no other.
LEMMA RegisterResolves ==
    ASSUME NEW contents \in Contents, ~LoadFails(contents),
           Coherent(contents.cfg),
           NEW a \in Aliases, NEW u \in Urls, u \in argoRepos,
           ~AliasExists(contents.cfg.repos, a),
           a = Default => contents.cfg.default = NoUrl
    PROVE  LET new == Registered(contents.cfg, a, u) IN
           /\ new \in RepoCtxCfg /\ Coherent(new)
           /\ Resolved(Json(new)) = [Resolved(contents) EXCEPT ![a] = u]
<1>. DEFINE old == contents.cfg
            new == Registered(old, a, u)
<1>1. old \in RepoCtxCfg
  BY LoadedCfg
<1>2. /\ new \in RepoCtxCfg
      /\ new.default = IF a = Default THEN u ELSE old.default
      /\ \A i \in DOMAIN old.repos :
            i \in DOMAIN new.repos /\ new.repos[i] = old.repos[i]
  BY <1>1, RegisteredType
<1>3. PICK n \in DOMAIN new.repos :
            /\ new.repos[n].alias = a /\ new.repos[n].url = u
            /\ \A i \in DOMAIN new.repos : i = n \/ i \in DOMAIN old.repos
  BY <1>1, RegisteredType
<1>. HIDE DEF new
<1>4. \A i \in DOMAIN old.repos : old.repos[i].alias # a
  BY DEF AliasExists
<1>5. Coherent(new)
  <2>1. \A i, j \in DOMAIN new.repos :
           new.repos[i].alias = new.repos[j].alias => i = j
    BY <1>2, <1>3, <1>4 DEF Coherent
  <2>2. \A i \in DOMAIN new.repos : new.repos[i].url \in argoRepos
    BY <1>2, <1>3 DEF Coherent
  <2>3. \A i \in DOMAIN new.repos :
           new.repos[i].alias = Default => new.repos[i].url = new.default
    <3>. SUFFICES ASSUME NEW i \in DOMAIN new.repos,
                         new.repos[i].alias = Default
                  PROVE  new.repos[i].url = new.default
      OBVIOUS
    <3>1. CASE i = n
      BY <1>2, <1>3, <3>1
    <3>2. CASE i \in DOMAIN old.repos
      <4>1. old.repos[i].url = old.default /\ a # Default
        BY <1>2, <1>4, <3>2 DEF Coherent
      <4>. QED  BY <1>2, <3>2, <4>1
    <3>. QED  BY <1>3, <3>1, <3>2
  <2>4. new.default # NoUrl => AliasExists(new.repos, Default)
    <3>1. CASE a = Default
      BY <1>3, <3>1 DEF AliasExists
    <3>2. CASE a # Default
      BY <1>2, <3>2 DEF Coherent, AliasExists
    <3>. QED  BY <3>1, <3>2
  <2>. QED  BY <2>1, <2>2, <2>3, <2>4 DEF Coherent
<1>6. /\ DOMAIN Resolved(contents) = Aliases
      /\ \A i \in DOMAIN old.repos :
            Resolved(contents)[old.repos[i].alias] = old.repos[i].url
      /\ \A b \in Aliases :
            ~AliasExists(old.repos, b) => Resolved(contents)[b] = NoUrl
  BY ResolvedAt
<1>7. Json(new) \in Contents /\ ~LoadFails(Json(new)) /\ Json(new).cfg = new
  BY <1>2, JsonFacts
<1>8. /\ Resolved(Json(new)) = [b \in Aliases |-> Resolved(Json(new))[b]]
      /\ \A i \in DOMAIN new.repos :
            Resolved(Json(new))[new.repos[i].alias] = new.repos[i].url
      /\ \A b \in Aliases :
            ~AliasExists(new.repos, b) => Resolved(Json(new))[b] = NoUrl
  BY <1>5, <1>7, ResolvedAt
<1>. DEFINE before == Resolved(contents)
            after == Resolved(Json(new))
<1>. HIDE DEF before, after
<1>9. ASSUME NEW b \in Aliases
      PROVE  after[b] = IF b = a THEN u ELSE before[b]
  <2>1. CASE b = a
    BY <1>3, <1>8, <2>1 DEF after
  <2>2. CASE b # a /\ AliasExists(old.repos, b)
    <3>1. PICK i \in DOMAIN old.repos : old.repos[i].alias = b
      BY <2>2 DEF AliasExists
    <3>2. before[b] = old.repos[i].url
      BY <1>6, <3>1 DEF before
    <3>3. after[b] = old.repos[i].url
      BY <1>2, <1>8, <3>1 DEF after
    <3>. QED  BY <2>2, <3>2, <3>3
  <2>3. CASE b # a /\ ~AliasExists(old.repos, b)
    <3>1. before[b] = NoUrl
      BY <1>6, <2>3 DEF before
    <3>2. ~AliasExists(new.repos, b)
      BY <1>2, <1>3, <2>3 DEF AliasExists
    <3>3. after[b] = NoUrl
      BY <1>8, <3>2 DEF after
    <3>. QED  BY <2>3, <3>1, <3>3
  <2>. QED  BY <2>1, <2>2, <2>3
<1>10. after = [before EXCEPT ![a] = u]
  <2>1. after = [b \in Aliases |-> after[b]]
    BY <1>8 DEF after
  <2>2. before = [b \in Aliases |-> before[b]]
    BY ResolvedAt DEF before
  <2>. QED  BY <1>9, <2>1, <2>2
<1>. QED  BY <1>2, <1>5, <1>10 DEF before, after, new

\* And so does taking an entry away.
LEMMA UnregisterResolves ==
    ASSUME NEW contents \in Contents, ~LoadFails(contents),
           Coherent(contents.cfg),
           NEW a \in Aliases, AliasExists(contents.cfg.repos, a)
    PROVE  LET new == Unregistered(contents.cfg,
                                   FirstWith(contents.cfg.repos, a)) IN
           /\ new \in RepoCtxCfg /\ Coherent(new)
           /\ Resolved(Json(new)) = [Resolved(contents) EXCEPT ![a] = NoUrl]
<1>. DEFINE old == contents.cfg
<1>1. old \in RepoCtxCfg
  BY LoadedCfg
<1>2. PICK i \in DOMAIN old.repos : old.repos[i].alias = a
  BY DEF AliasExists
<1>3. FirstWith(old.repos, a) = i
  BY <1>1, <1>2, FirstIs
<1>. DEFINE new == Unregistered(old, i)
<1>4. /\ new \in RepoCtxCfg
      /\ new.default = IF old.repos[i].alias = Default THEN NoUrl
                       ELSE old.default
      /\ \A j \in DOMAIN new.repos : \E k \in DOMAIN old.repos :
            /\ k # i /\ new.repos[j] = old.repos[k]
            /\ k = IF j < i THEN j ELSE j + 1
      /\ \A k \in DOMAIN old.repos :
            k # i => \E j \in DOMAIN new.repos : new.repos[j] = old.repos[k]
  BY <1>1, UnregisteredType
<1>. HIDE DEF new
<1>5. \A k \in DOMAIN old.repos : k # i => old.repos[k].alias # a
  BY <1>2 DEF Coherent
<1>6. \A j \in DOMAIN new.repos : new.repos[j].alias # a
  BY <1>4, <1>5
<1>7. /\ \A j \in DOMAIN new.repos : j \in Int
      /\ i \in Int
  BY <1>1, <1>4 DEF RepoCtxCfg
<1>8. Coherent(new)
  <2>1. ASSUME NEW j \in DOMAIN new.repos, NEW k \in DOMAIN new.repos,
               new.repos[j].alias = new.repos[k].alias
        PROVE  j = k
    <3>1. PICK x \in DOMAIN old.repos :
                  new.repos[j] = old.repos[x] /\ x = IF j < i THEN j ELSE j + 1
      BY <1>4
    <3>2. PICK y \in DOMAIN old.repos :
                  new.repos[k] = old.repos[y] /\ y = IF k < i THEN k ELSE k + 1
      BY <1>4
    <3>3. x = y
      BY <2>1, <3>1, <3>2 DEF Coherent
    <3>. QED  BY <1>7, <3>1, <3>2, <3>3
  <2>2. \A j \in DOMAIN new.repos : new.repos[j].url \in argoRepos
    BY <1>4 DEF Coherent
  <2>3. \A j \in DOMAIN new.repos :
           new.repos[j].alias = Default => new.repos[j].url = new.default
    <3>. SUFFICES ASSUME NEW j \in DOMAIN new.repos,
                         new.repos[j].alias = Default
                  PROVE  new.repos[j].url = new.default
      OBVIOUS
    <3>1. PICK k \in DOMAIN old.repos : new.repos[j] = old.repos[k]
      BY <1>4
    <3>2. old.repos[k].url = old.default
      BY <3>1 DEF Coherent
    <3>3. a # Default
      BY <1>6
    <3>. QED  BY <1>2, <1>4, <3>1, <3>2, <3>3
  <2>4. ASSUME new.default # NoUrl
        PROVE  AliasExists(new.repos, Default)
    <3>1. a # Default /\ old.default # NoUrl
      BY <1>2, <1>4, <2>4
    <3>2. PICK k \in DOMAIN old.repos : old.repos[k].alias = Default
      BY <3>1 DEF Coherent, AliasExists
    <3>. QED  BY <1>2, <1>4, <3>1, <3>2 DEF AliasExists
  <2>. QED  BY <2>1, <2>2, <2>3, <2>4 DEF Coherent
<1>9. /\ \A k \in DOMAIN old.repos :
            Resolved(contents)[old.repos[k].alias] = old.repos[k].url
      /\ \A b \in Aliases :
            ~AliasExists(old.repos, b) => Resolved(contents)[b] = NoUrl
      /\ Resolved(contents) = [b \in Aliases |-> Resolved(contents)[b]]
  BY ResolvedAt
<1>10. Json(new) \in Contents /\ ~LoadFails(Json(new)) /\ Json(new).cfg = new
  BY <1>4, JsonFacts
<1>11. /\ Resolved(Json(new)) = [b \in Aliases |-> Resolved(Json(new))[b]]
       /\ \A j \in DOMAIN new.repos :
             Resolved(Json(new))[new.repos[j].alias] = new.repos[j].url
       /\ \A b \in Aliases :
             ~AliasExists(new.repos, b) => Resolved(Json(new))[b] = NoUrl
  BY <1>8, <1>10, ResolvedAt
<1>. DEFINE before == Resolved(contents)
            after == Resolved(Json(new))
<1>. HIDE DEF before, after
<1>12. ASSUME NEW b \in Aliases
       PROVE  after[b] = IF b = a THEN NoUrl ELSE before[b]
  <2>1. CASE b = a
    <3>1. ~AliasExists(new.repos, b)
      BY <1>6, <2>1 DEF AliasExists
    <3>. QED  BY <1>11, <2>1, <3>1 DEF after
  <2>2. CASE b # a /\ AliasExists(old.repos, b)
    <3>1. PICK k \in DOMAIN old.repos : old.repos[k].alias = b
      BY <2>2 DEF AliasExists
    <3>2. before[b] = old.repos[k].url
      BY <1>9, <3>1 DEF before
    <3>3. PICK j \in DOMAIN new.repos : new.repos[j] = old.repos[k]
      BY <1>2, <1>4, <2>2, <3>1
    <3>4. after[b] = old.repos[k].url
      BY <1>11, <3>1, <3>3 DEF after
    <3>. QED  BY <2>2, <3>2, <3>4
  <2>3. CASE b # a /\ ~AliasExists(old.repos, b)
    <3>1. before[b] = NoUrl
      BY <1>9, <2>3 DEF before
    <3>2. ~AliasExists(new.repos, b)
      BY <1>4, <2>3 DEF AliasExists
    <3>3. after[b] = NoUrl
      BY <1>11, <3>2 DEF after
    <3>. QED  BY <2>3, <3>1, <3>3
  <2>. QED  BY <2>1, <2>2, <2>3
<1>13. after = [before EXCEPT ![a] = NoUrl]
  <2>1. after = [b \in Aliases |-> after[b]]
    BY <1>11 DEF after
  <2>2. before = [b \in Aliases |-> before[b]]
    BY <1>9 DEF before
  <2>. QED  BY <1>12, <2>1, <2>2
<1>. QED  BY <1>3, <1>4, <1>8, <1>13 DEF before, after, new

----------------------------------------------------------------------------
(* The commands that rewrite the alias file *)

\* Argo CD keeps the repositories it has, which keeps configurations coherent.
LEMMA CoherentGrows ==
    ASSUME argoRepos \subseteq argoRepos'
    PROVE  /\ \A c : Coherent(c) => Coherent(c)'
           /\ \A contents : Sound(contents) => Sound(contents)'
BY DEF Coherent, Sound

\* What a command in progress writes is coherent, and its answer is what
\* changes in what the file says.
LEMMA RewriteResolves ==
    ASSUME NEW p \in Procs, cmd[p] \in Command, CommandInv(p),
           cmd[p].step # "argocd"
    PROVE  /\ cmd[p].new \in RepoCtxCfg /\ Coherent(cmd[p].new)
           /\ Resolved(Json(cmd[p].new)) =
                 [Resolved(cmd[p].read) EXCEPT ![cmd[p].alias] = cmd[p].url]
<1>. DEFINE c == cmd[p]
<1>1. /\ c.step \in {"argocd", "truncate", "write"} /\ c.read \in Contents
      /\ c.alias \in Aliases /\ c.url \in Urls \cup {NoUrl}
  BY DEF Command
<1>2. /\ Sound(c.read) /\ Rewrites(c)
      /\ c.url # NoUrl => c.url \in argoRepos
  BY <1>1 DEF CommandInv, InProgress
<1>. HIDE DEF c
<1>3. ~LoadFails(c.read) /\ Coherent(c.read.cfg)
  BY <1>2 DEF Sound, Rewrites
<1>4. CASE c.url # NoUrl
  <2>1. /\ ~AliasExists(c.read.cfg.repos, c.alias)
        /\ c.alias = Default => c.read.cfg.default = NoUrl
        /\ c.new = Registered(c.read.cfg, c.alias, c.url)
        /\ c.url \in Urls /\ c.url \in argoRepos
    BY <1>1, <1>2, <1>4 DEF Rewrites, LoadRepoCfg
  <2>2. LET new == Registered(c.read.cfg, c.alias, c.url) IN
        /\ new \in RepoCtxCfg /\ Coherent(new)
        /\ Resolved(Json(new)) =
              [Resolved(c.read) EXCEPT ![c.alias] = c.url]
    BY <1>1, <1>3, <2>1, RegisterResolves
  <2>. QED  BY <2>1, <2>2 DEF c
<1>5. CASE c.url = NoUrl
  <2>1. /\ AliasExists(c.read.cfg.repos, c.alias)
        /\ c.new = Unregistered(c.read.cfg,
                                FirstWith(c.read.cfg.repos, c.alias))
    BY <1>2, <1>5 DEF Rewrites, LoadRepoCfg
  <2>2. LET new == Unregistered(c.read.cfg,
                                FirstWith(c.read.cfg.repos, c.alias)) IN
        /\ new \in RepoCtxCfg /\ Coherent(new)
        /\ Resolved(Json(new)) = [Resolved(c.read) EXCEPT ![c.alias] = NoUrl]
    BY <1>1, <1>3, <2>1, UnregisterResolves
  <2>. QED  BY <1>5, <2>1, <2>2 DEF c
<1>. QED  BY <1>4, <1>5

Commands == Command \cup {Idle, Ended("ok"), Ended("failed")}

LEMMA EndedCommands ==
    /\ Idle.step = "idle" /\ \A outcome : Ended(outcome).step = outcome
    /\ \A c \in Commands :
          /\ c \in Command <=> c.step \in {"argocd", "truncate", "write"}
          /\ c \notin Command <=> c.step \in {"idle", "ok", "failed"}
<1>1. Idle.step = "idle" /\ \A outcome : Ended(outcome).step = outcome
  BY DEF Idle, Ended
<1>2. \A c \in Command : c.step \in {"argocd", "truncate", "write"}
  BY DEF Command
<1>. QED  BY <1>1, <1>2 DEF Commands

\* The parts of the type invariant.
LEMMA AliasTypes ==
    AliasTypeOK =>
        /\ file \in [ino: Nat, contents: Contents]
        /\ file.ino \in Nat /\ file.contents \in Contents
        /\ argoRepos \subseteq Urls
        /\ cmd \in [Procs -> Commands]
        /\ \A p \in Procs : cmd[p] \in Commands
        /\ acked \in [Aliases -> Urls \cup {NoUrl}]
        /\ disturbed \in BOOLEAN
<1>. SUFFICES ASSUME AliasTypeOK
              PROVE  /\ file \in [ino: Nat, contents: Contents]
                     /\ file.ino \in Nat /\ file.contents \in Contents
                     /\ argoRepos \subseteq Urls
                     /\ cmd \in [Procs -> Commands]
                     /\ \A p \in Procs : cmd[p] \in Commands
                     /\ acked \in [Aliases -> Urls \cup {NoUrl}]
                     /\ disturbed \in BOOLEAN
  OBVIOUS
<1>1. /\ file \in [ino: Nat, contents: Contents]
      /\ argoRepos \subseteq Urls
      /\ cmd \in [Procs -> Commands]
      /\ acked \in [Aliases -> Urls \cup {NoUrl}]
      /\ disturbed \in BOOLEAN
  BY Zenon DEF AliasTypeOK, Commands
<1>. QED  BY <1>1

\* A command in progress has the fields of one.
LEMMA CommandFields ==
    ASSUME NEW c \in Command
    PROVE  /\ c.alias \in Aliases /\ c.url \in Urls \cup {NoUrl}
           /\ c.ino \in Nat /\ c.read \in Contents /\ c.new \in RepoCtxCfg
           /\ c.step \in {"argocd", "truncate", "write"}
           /\ \A s \in {"argocd", "truncate", "write"} :
                 LET d == [c EXCEPT !.step = s] IN
                 /\ d \in Command /\ d.step = s
                 /\ d.alias = c.alias /\ d.url = c.url /\ d.ino = c.ino
                 /\ d.read = c.read /\ d.new = c.new
BY DEF Command

\* A command that does nothing stays what it was.
LEMMA CommandKept ==
    ASSUME AliasTypeOK, NEW p \in Procs, CommandInv(p), cmd'[p] = cmd[p],
           argoRepos \subseteq argoRepos',
           file.ino \in Nat, file'.ino \in Nat, file.ino <= file'.ino
    PROVE  CommandInv(p)'
<1>. SUFFICES ASSUME cmd'[p].step \in {"argocd", "truncate", "write"}
              PROVE  /\ cmd'[p].ino <= file'.ino
                     /\ Sound(cmd[p].read)'
                     /\ Rewrites(cmd[p])'
                     /\ cmd'[p].step # "argocd" /\ cmd'[p].url # NoUrl
                           => cmd'[p].url \in argoRepos'
  BY Zenon DEF CommandInv, InProgress
<1>1. /\ cmd[p].ino <= file.ino /\ Sound(cmd[p].read) /\ Rewrites(cmd[p])
      /\ cmd[p].step # "argocd" /\ cmd[p].url # NoUrl
            => cmd[p].url \in argoRepos
  BY Zenon DEF CommandInv, InProgress
<1>2. cmd[p] \in Commands
  BY AliasTypes
<1>3. cmd[p].ino \in Nat
  BY <1>2, EndedCommands, CommandFields
<1>4. Sound(cmd[p].read)'
  BY <1>1 DEF Sound, Coherent
<1>5. Rewrites(cmd[p])'
  BY <1>1 DEF Rewrites
<1>. QED  BY <1>1, <1>3, <1>4, <1>5

\* One that goes on keeps what it has read and will write.
LEMMA CommandAdvances ==
    ASSUME NEW p \in Procs, NEW new \in Command, cmd'[p] = new,
           argoRepos \subseteq argoRepos', new.ino <= file'.ino,
           Sound(new.read), Rewrites(new),
           new.step # "argocd" /\ new.url # NoUrl => new.url \in argoRepos'
    PROVE  CommandInv(p)'
<1>1. Sound(new.read)'
  BY DEF Sound, Coherent
<1>2. Rewrites(new)'
  BY DEF Rewrites
<1>3. Sound(cmd[p].read)' /\ Rewrites(cmd[p])'
  BY <1>1, <1>2 DEF Sound, Coherent, Rewrites
<1>. QED  BY <1>3 DEF CommandInv, InProgress

\* A step of a command that neither truncates nor writes the file.
LEMMA QuietCommand ==
    ASSUME AliasTypeOK, AliasInv, NEW p \in Procs, NEW new \in Commands,
           cmd' = [cmd EXCEPT ![p] = new],
           UNCHANGED <<file, acked>>,
           argoRepos \subseteq argoRepos',
           ~disturbed' => /\ ~disturbed
                          /\ cmd[p].step # "write" /\ new.step # "write",
           CommandInv(p)'
    PROVE  AliasInv'
<1>1. /\ cmd \in [Procs -> Commands] /\ file.ino \in Nat
      /\ file' = file /\ acked' = acked
  BY AliasTypes
<1>2. cmd'[p] = new /\ \A q \in Procs : q # p => cmd'[q] = cmd[q]
  BY <1>1
<1>3. Sound(file.contents)'
  BY <1>1 DEF AliasInv, Sound, Coherent
<1>4. ASSUME NEW q \in Procs
      PROVE  CommandInv(q)'
  <2>1. CASE q = p
    BY <2>1
  <2>2. CASE q # p
    <3>1. CommandInv(q) /\ cmd'[q] = cmd[q]
      BY <1>2, <2>2 DEF AliasInv
    <3>2. file'.ino \in Nat /\ file.ino <= file'.ino
      BY <1>1
    <3>. QED  BY <1>1, <3>1, <3>2, CommandKept
  <2>. QED  BY <2>1, <2>2
<1>5. ~disturbed' => \A q \in Procs :
         /\ cmd'[q].step = "write" <=> cmd[q].step = "write"
         /\ cmd'[q].step = "write" => cmd'[q] = cmd[q]
  BY <1>2
<1>6. WriterInv'
  <2>. SUFFICES ASSUME ~disturbed', NEW q \in Procs,
                       cmd'[q].step = "write", cmd'[q].ino = file'.ino,
                       file'.contents = Empty,
                       \A r \in Procs \ {q} : cmd'[r].step # "write"
                PROVE  Resolved(cmd'[q].read) = acked'
    BY DEF WriterInv, Resolved, GetRepoUrl, Empty, EmptyCfg
  <2>1. cmd'[q] = cmd[q] /\ cmd[q].step = "write"
    BY <1>5
  <2>2. \A r \in Procs \ {q} : cmd[r].step # "write"
    BY <1>5
  <2>3. ~disturbed /\ cmd[q].ino = file.ino /\ file.contents = Empty
    BY <1>1, <2>1
  <2>4. Resolved(cmd[q].read) = acked
    BY <2>1, <2>2, <2>3, Zenon DEF AliasInv, WriterInv
  <2>. QED  BY <1>1, <2>1, <2>4
<1>7. QuietInv'
  <2>. SUFFICES ASSUME ~disturbed', \A q \in Procs : cmd'[q].step # "write"
                PROVE  Resolved(file'.contents) = acked'
    BY DEF QuietInv, Resolved, GetRepoUrl
  <2>1. ~disturbed /\ \A q \in Procs : cmd[q].step # "write"
    BY <1>5
  <2>2. Resolved(file.contents) = acked
    BY <2>1, Zenon DEF AliasInv, QuietInv
  <2>. QED  BY <1>1, <2>2
<1>. QED  BY <1>3, <1>4, <1>6, <1>7 DEF AliasInv

\* The state between two steps on the alias file, but for the counters.
AliasState ==
    /\ file \in [ino: Nat, contents: Contents]
    /\ argoRepos \subseteq Urls
    /\ cmd \in [Procs -> Commands]
    /\ acked \in [Aliases -> Urls \cup {NoUrl}]
    /\ disturbed \in BOOLEAN
    /\ AliasInv

\* A command that ends without writing.
LEMMA EndsQuietly ==
    ASSUME AliasTypeOK, AliasInv, NEW p \in Procs,
           NEW outcome \in {"ok", "failed"},
           cmd' = [cmd EXCEPT ![p] = Ended(outcome)],
           UNCHANGED <<file, acked>>,
           argoRepos \subseteq argoRepos', argoRepos' \subseteq Urls,
           disturbed' \in BOOLEAN,
           ~disturbed' => ~disturbed /\ cmd[p].step # "write"
    PROVE  AliasState'
<1>. DEFINE new == Ended(outcome)
<1>1. /\ file \in [ino: Nat, contents: Contents] /\ cmd \in [Procs -> Commands]
      /\ acked \in [Aliases -> Urls \cup {NoUrl}]
  BY AliasTypes
<1>2. new \in Commands /\ new.step \in {"ok", "failed"}
  BY EndedCommands DEF Commands
<1>. HIDE DEF new
<1>3. cmd' = [cmd EXCEPT ![p] = new]
  BY DEF new
<1>4. cmd' \in [Procs -> Commands] /\ cmd'[p] = new
  BY <1>1, <1>2, <1>3
<1>5. CommandInv(p)'
  BY <1>2, <1>4 DEF CommandInv, InProgress
<1>6. AliasInv'
  BY <1>2, <1>3, <1>5, QuietCommand
<1>. QED  BY <1>1, <1>4, <1>6 DEF AliasState

\* A command that has opened the file, or goes on with it.
LEMMA GoesOn ==
    ASSUME AliasTypeOK, AliasInv, NEW p \in Procs, NEW new \in Command,
           cmd' = [cmd EXCEPT ![p] = new],
           cmd[p].step # "write", new.step # "write",
           UNCHANGED <<file, acked, disturbed>>,
           argoRepos \subseteq argoRepos', argoRepos' \subseteq Urls,
           new.ino <= file.ino, Sound(new.read), Rewrites(new),
           new.step # "argocd" /\ new.url # NoUrl => new.url \in argoRepos'
    PROVE  AliasState'
<1>1. /\ file \in [ino: Nat, contents: Contents] /\ cmd \in [Procs -> Commands]
      /\ acked \in [Aliases -> Urls \cup {NoUrl}] /\ disturbed \in BOOLEAN
  BY AliasTypes
<1>2. new \in Commands
  BY DEF Commands
<1>3. cmd' \in [Procs -> Commands] /\ cmd'[p] = new
  BY <1>1, <1>2
<1>4. new.ino <= file'.ino
  OBVIOUS
<1>5. CommandInv(p)'
  BY <1>3, <1>4, CommandAdvances
<1>6. AliasInv'
  BY <1>2, <1>5, QuietCommand
<1>. QED  BY <1>1, <1>3, <1>6 DEF AliasState

LEMMA RegisterStep ==
    ASSUME AliasTypeOK, AliasInv, NEW p \in Procs, NEW a \in Aliases,
           NEW u \in Urls, Register(p, a, u)
    PROVE  AliasState'
<1>. DEFINE c == file.contents.cfg
            end == IF LoadFails(file.contents) THEN {"failed"}
                   ELSE IF AliasExists(c.repos, a) THEN {"ok"}
                   ELSE IF a = Default /\ c.default # NoUrl THEN {"failed"}
                   ELSE {}
            new == [step |-> "argocd", alias |-> a, url |-> u,
                    ino |-> file.ino, read |-> file.contents,
                    new |-> Registered(c, a, u)]
<1>1. /\ file.ino \in Nat /\ file.contents \in Contents /\ argoRepos \subseteq Urls
      /\ cmd[p] \in Commands /\ disturbed \in BOOLEAN
  BY AliasTypes
<1>2. /\ cmd[p].step # "write"
      /\ UNCHANGED <<file, argoRepos, acked, disturbed>>
      /\ \/ \E outcome \in end : cmd' = [cmd EXCEPT ![p] = Ended(outcome)]
         \/ end = {} /\ cmd' = [cmd EXCEPT ![p] = new]
  BY DEF Register, Ready, LoadRepoCfg
<1>3. end \subseteq {"ok", "failed"}
  OBVIOUS
<1>4. end = {} => /\ ~LoadFails(file.contents) /\ ~AliasExists(c.repos, a)
                  /\ a = Default => c.default = NoUrl
  OBVIOUS
<1>. HIDE DEF end
<1>5. CASE \E outcome \in end : cmd' = [cmd EXCEPT ![p] = Ended(outcome)]
  <2>1. PICK outcome \in {"ok", "failed"} :
           cmd' = [cmd EXCEPT ![p] = Ended(outcome)]
    BY <1>3, <1>5
  <2>. QED  BY <1>1, <1>2, <2>1, EndsQuietly
<1>6. CASE end = {} /\ cmd' = [cmd EXCEPT ![p] = new]
  <2>1. c \in RepoCtxCfg
    BY <1>1, LoadedCfg
  <2>2. Registered(c, a, u) \in RepoCtxCfg
    BY <2>1, RegisteredType
  <2>3. new \in Command
    BY <1>1, <2>2 DEF Command
  <2>4. /\ new.step = "argocd" /\ new.ino = file.ino /\ new.alias = a
        /\ new.url = u /\ new.read = file.contents
        /\ new.new = Registered(c, a, u)
    OBVIOUS
  <2>. HIDE DEF new
  <2>5. Rewrites(new)
    BY <1>4, <1>6, <2>4, AliasAssumption DEF Rewrites, LoadRepoCfg
  <2>6. Sound(new.read)
    BY <2>4 DEF AliasInv
  <2>7. new.ino <= file.ino
    BY <1>1, <2>4
  <2>8. cmd' = [cmd EXCEPT ![p] = new]
    BY <1>6
  <2>. QED  BY <1>1, <1>2, <2>3, <2>4, <2>5, <2>6, <2>7, <2>8, GoesOn
<1>. QED  BY <1>2, <1>5, <1>6

LEMMA UnregisterStep ==
    ASSUME AliasTypeOK, AliasInv, NEW p \in Procs, NEW a \in Aliases,
           Unregister(p, a)
    PROVE  AliasState'
<1>. DEFINE c == file.contents.cfg
            end == IF LoadFails(file.contents) THEN {"failed"}
                   ELSE IF c.repos = <<>> THEN {"ok"}
                   ELSE IF ~AliasExists(c.repos, a) THEN {"failed"}
                   ELSE {}
            i == FirstWith(c.repos, a)
            new == [step |-> "truncate", alias |-> a, url |-> NoUrl,
                    ino |-> file.ino, read |-> file.contents,
                    new |-> Unregistered(c, i)]
<1>1. /\ file.ino \in Nat /\ file.contents \in Contents /\ argoRepos \subseteq Urls
      /\ cmd[p] \in Commands /\ disturbed \in BOOLEAN
  BY AliasTypes
<1>2. /\ cmd[p].step # "write"
      /\ UNCHANGED <<file, argoRepos, acked, disturbed>>
      /\ \/ \E outcome \in end : cmd' = [cmd EXCEPT ![p] = Ended(outcome)]
         \/ end = {} /\ cmd' = [cmd EXCEPT ![p] = new]
  BY DEF Unregister, Ready, LoadRepoCfg
<1>3. end \subseteq {"ok", "failed"}
  OBVIOUS
<1>4. end = {} => ~LoadFails(file.contents) /\ AliasExists(c.repos, a)
  OBVIOUS
<1>. HIDE DEF end
<1>5. CASE \E outcome \in end : cmd' = [cmd EXCEPT ![p] = Ended(outcome)]
  <2>1. PICK outcome \in {"ok", "failed"} :
           cmd' = [cmd EXCEPT ![p] = Ended(outcome)]
    BY <1>3, <1>5
  <2>. QED  BY <1>1, <1>2, <2>1, EndsQuietly
<1>6. CASE end = {} /\ cmd' = [cmd EXCEPT ![p] = new]
  <2>1. c \in RepoCtxCfg /\ Coherent(c)
    BY <1>1, LoadedCfg DEF AliasInv, Sound
  <2>2. PICK k \in DOMAIN c.repos : c.repos[k].alias = a
    BY <1>4, <1>6 DEF AliasExists
  <2>3. i = k
    BY <2>1, <2>2, FirstIs
  <2>4. Unregistered(c, i) \in RepoCtxCfg
    BY <2>1, <2>3, UnregisteredType
  <2>5. new \in Command
    BY <1>1, <2>4 DEF Command
  <2>6. /\ new.step = "truncate" /\ new.ino = file.ino /\ new.alias = a
        /\ new.url = NoUrl /\ new.read = file.contents
        /\ new.new = Unregistered(c, i)
    OBVIOUS
  <2>. HIDE DEF new
  <2>7. Rewrites(new)
    BY <1>4, <1>6, <2>6 DEF Rewrites, LoadRepoCfg
  <2>8. Sound(new.read)
    BY <2>6 DEF AliasInv
  <2>9. new.ino <= file.ino
    BY <1>1, <2>6
  <2>10. cmd' = [cmd EXCEPT ![p] = new]
    BY <1>6
  <2>. QED  BY <1>1, <1>2, <2>5, <2>6, <2>7, <2>8, <2>9, <2>10, GoesOn
<1>. QED  BY <1>2, <1>5, <1>6

LEMMA AddToArgoCdStep ==
    ASSUME AliasTypeOK, AliasInv, NEW p \in Procs, AddToArgoCd(p)
    PROVE  AliasState'
<1>. DEFINE c == cmd[p]
            new == [c EXCEPT !.step = "truncate"]
<1>1. /\ argoRepos \subseteq Urls /\ c \in Commands /\ disturbed \in BOOLEAN
      /\ cmd \in [Procs -> Commands]
  BY AliasTypes
<1>2. c.step = "argocd" /\ UNCHANGED <<file, acked, disturbed>>
  BY DEF AddToArgoCd
<1>3. c \in Command
  BY <1>1, <1>2, EndedCommands
<1>4. Sound(c.read) /\ Rewrites(c) /\ c.ino <= file.ino
  BY <1>2 DEF AliasInv, CommandInv, InProgress
<1>5. c.url # NoUrl
  BY <1>2, <1>4 DEF Rewrites
<1>6. c.url \in Urls
  BY <1>3, <1>5, CommandFields
<1>7. /\ new \in Command /\ new.step = "truncate" /\ new.alias = c.alias
      /\ new.url = c.url /\ new.ino = c.ino /\ new.read = c.read
      /\ new.new = c.new
  BY <1>3, CommandFields
<1>8. Rewrites(new)
  <2>. HIDE DEF new, c
  <2>. QED  BY <1>4, <1>5, <1>7 DEF Rewrites
<1>9. CASE /\ cmd' = [cmd EXCEPT ![p].step = "truncate"]
           /\ argoRepos' = argoRepos \cup {c.url}
  <2>1. cmd' = [cmd EXCEPT ![p] = new]
    BY <1>1, <1>9
  <2>. HIDE DEF new, c
  <2>2. /\ new.url \in argoRepos' /\ argoRepos \subseteq argoRepos'
        /\ argoRepos' \subseteq Urls
    BY <1>1, <1>6, <1>7, <1>9
  <2>3. cmd[p].step # "write" /\ new.step # "write"
    BY <1>2, <1>7 DEF c
  <2>. QED  BY <1>2, <1>4, <1>7, <1>8, <2>1, <2>2, <2>3, GoesOn
<1>10. CASE /\ cmd' = [cmd EXCEPT ![p] = Ended("failed")]
            /\ argoRepos' \in {argoRepos, argoRepos \cup {c.url}}
  <2>1. argoRepos \subseteq argoRepos' /\ argoRepos' \subseteq Urls
    BY <1>1, <1>6, <1>10
  <2>2. cmd[p].step # "write"
    BY <1>2
  <2>3. cmd' = [cmd EXCEPT ![p] = Ended("failed")]
    BY <1>10
  <2>. QED  BY <1>1, <1>2, <2>1, <2>2, <2>3, EndsQuietly
<1>. QED  BY <1>9, <1>10 DEF AddToArgoCd

LEMMA KilledStep ==
    ASSUME AliasTypeOK, AliasInv, NEW p \in Procs, Killed(p)
    PROVE  AliasState'
<1>1. argoRepos \subseteq Urls /\ disturbed \in BOOLEAN
  BY AliasTypes
<1>2. /\ cmd' = [cmd EXCEPT ![p] = Ended("failed")]
      /\ disturbed' = (disturbed \/ cmd[p].step = "write")
      /\ UNCHANGED <<file, argoRepos, acked>>
  BY DEF Killed
<1>3. disturbed' \in BOOLEAN /\ (~disturbed' => ~disturbed /\ cmd[p].step # "write")
  BY <1>2
<1>4. argoRepos \subseteq argoRepos' /\ argoRepos' \subseteq Urls
  BY <1>1, <1>2
<1>. QED  BY <1>2, <1>3, <1>4, EndsQuietly

LEMMA TruncateStep ==
    ASSUME AliasTypeOK, AliasInv, NEW p \in Procs, TruncateFile(p)
    PROVE  AliasState'
<1>. DEFINE c == cmd[p]
            new == [c EXCEPT !.step = "write"]
<1>1. /\ file \in [ino: Nat, contents: Contents] /\ file.ino \in Nat
      /\ argoRepos \subseteq Urls /\ c \in Commands /\ disturbed \in BOOLEAN
      /\ cmd \in [Procs -> Commands]
      /\ acked \in [Aliases -> Urls \cup {NoUrl}]
  BY AliasTypes
<1>2. /\ c.step = "truncate" /\ argoRepos' = argoRepos /\ acked' = acked
      /\ file' = IF c.ino = file.ino THEN [file EXCEPT !.contents = Empty]
                 ELSE file
      /\ disturbed' = (disturbed \/ ~(c.ino = file.ino)
                                 \/ file.contents # c.read)
      /\ cmd' = [cmd EXCEPT ![p].step = "write"]
  BY DEF TruncateFile
<1>3. c \in Command
  BY <1>1, <1>2, EndedCommands
<1>4. Sound(c.read) /\ Rewrites(c) /\ c.ino <= file.ino
      /\ (c.url # NoUrl => c.url \in argoRepos)
  BY <1>2 DEF AliasInv, CommandInv, InProgress
<1>5. /\ new \in Command /\ new.step = "write" /\ new.alias = c.alias
      /\ new.url = c.url /\ new.ino = c.ino /\ new.read = c.read
      /\ new.new = c.new
  BY <1>3, CommandFields
<1>6. cmd' = [cmd EXCEPT ![p] = new]
  BY <1>1, <1>2
<1>. HIDE DEF new
<1>7. /\ cmd' \in [Procs -> Commands] /\ cmd'[p] = new
      /\ \A q \in Procs : q # p => cmd'[q] = cmd[q]
  BY <1>1, <1>5, <1>6 DEF Commands
<1>8. /\ file' \in [ino: Nat, contents: Contents] /\ file'.ino = file.ino
      /\ file'.contents \in {Empty, file.contents}
  <2>1. Empty \in Contents
    BY EmptyFacts
  <2>. QED  BY <1>1, <1>2, <2>1
<1>9. Sound(file.contents)'
  <2>1. Sound(Empty) /\ Sound(file.contents)
    BY EmptyFacts DEF AliasInv
  <2>. QED  BY <1>2, <1>8, <2>1 DEF Sound, Coherent
<1>10. ASSUME NEW q \in Procs
       PROVE  CommandInv(q)'
  <2>1. CASE q = p
    <3>. HIDE DEF c
    <3>1. Rewrites(new)
      BY <1>2, <1>4, <1>5 DEF Rewrites
    <3>2. Sound(new.read) /\ new.ino <= file'.ino
      BY <1>4, <1>5, <1>8
    <3>3. new.url # NoUrl => new.url \in argoRepos'
      BY <1>2, <1>4, <1>5
    <3>. QED  BY <1>2, <1>5, <1>7, <2>1, <3>1, <3>2, <3>3, CommandAdvances
  <2>2. CASE q # p
    <3>1. CommandInv(q) /\ cmd'[q] = cmd[q]
      BY <1>7, <2>2 DEF AliasInv
    <3>2. file'.ino \in Nat /\ file.ino <= file'.ino
      BY <1>1, <1>8
    <3>. QED  BY <1>1, <1>2, <3>1, <3>2, CommandKept
  <2>. QED  BY <2>1, <2>2
<1>11. WriterInv'
  <2>. SUFFICES ASSUME ~disturbed', NEW q \in Procs,
                       \A r \in Procs \ {q} : cmd'[r].step # "write"
                PROVE  Resolved(cmd'[q].read) = acked'
    BY DEF WriterInv, Resolved, GetRepoUrl, Empty, EmptyCfg
  <2>1. q = p
    BY <1>5, <1>7
  <2>2. ~disturbed /\ file.contents = c.read
    BY <1>1, <1>2
  <2>3. \A r \in Procs : cmd[r].step # "write"
    BY <1>2, <1>7, <2>1
  <2>4. Resolved(file.contents) = acked
    BY <2>2, <2>3, Zenon DEF AliasInv, QuietInv
  <2>. QED  BY <1>2, <1>5, <1>7, <2>1, <2>2, <2>4
<1>12. QuietInv'
  BY <1>5, <1>7 DEF QuietInv
<1>13. disturbed' \in BOOLEAN
  BY <1>2
<1>. QED  BY <1>1, <1>2, <1>7, <1>8, <1>9, <1>10, <1>11, <1>12, <1>13
          DEF AliasState, AliasInv

LEMMA StoreStep ==
    ASSUME AliasTypeOK, AliasInv, NEW p \in Procs, StoreRepoCfg(p)
    PROVE  AliasState'
<1>. DEFINE c == cmd[p]
            new == Ended("ok")
            mine == c.ino = file.ino
<1>1. /\ file \in [ino: Nat, contents: Contents] /\ file.ino \in Nat
      /\ argoRepos \subseteq Urls /\ c \in Commands /\ disturbed \in BOOLEAN
      /\ cmd \in [Procs -> Commands]
      /\ acked \in [Aliases -> Urls \cup {NoUrl}]
  BY AliasTypes
<1>2. /\ c.step = "write" /\ argoRepos' = argoRepos
      /\ acked' = [acked EXCEPT ![c.alias] = c.url]
      /\ disturbed' = (disturbed \/ ~mine \/ file.contents # Empty)
      /\ cmd' = [cmd EXCEPT ![p] = new]
  BY DEF StoreRepoCfg
<1>3. c \in Command
  BY <1>1, <1>2, EndedCommands
<1>4. PICK after \in Written(file.contents, Json(c.new)) :
         file' = IF mine THEN [file EXCEPT !.contents = after] ELSE file
  BY DEF StoreRepoCfg
<1>5. /\ c.new \in RepoCtxCfg /\ Coherent(c.new)
      /\ Resolved(Json(c.new)) = [Resolved(c.read) EXCEPT ![c.alias] = c.url]
  <2>1. CommandInv(p) /\ cmd[p].step # "argocd"
    BY <1>2 DEF AliasInv
  <2>. QED  BY <1>3, <2>1, RewriteResolves
<1>6. /\ Json(c.new) \in Contents /\ Json(c.new) # Empty /\ Sound(Json(c.new))
  BY <1>5, JsonFacts
<1>7. after \in {Json(c.new), Garbage} /\ (file.contents = Empty => after = Json(c.new))
  BY <1>4, EmptyFacts DEF Written
<1>8. after \in Contents /\ Sound(after) /\ Sound(file.contents)
  BY <1>6, <1>7, EmptyFacts DEF AliasInv
<1>. HIDE DEF new
<1>9. new \in Commands /\ new.step = "ok"
  BY EndedCommands DEF Commands, new
<1>10. /\ cmd' \in [Procs -> Commands] /\ cmd'[p] = new
       /\ \A q \in Procs : q # p => cmd'[q] = cmd[q]
  BY <1>1, <1>2, <1>9
<1>11. /\ file' \in [ino: Nat, contents: Contents] /\ file'.ino = file.ino
       /\ file'.contents = IF mine THEN after ELSE file.contents
  BY <1>1, <1>4, <1>8
<1>12. Sound(file.contents)'
  BY <1>2, <1>8, <1>11 DEF Sound, Coherent
<1>13. ASSUME NEW q \in Procs
       PROVE  CommandInv(q)'
  <2>1. CASE q = p
    BY <1>9, <1>10, <2>1 DEF CommandInv, InProgress
  <2>2. CASE q # p
    <3>1. CommandInv(q) /\ cmd'[q] = cmd[q]
      BY <1>10, <2>2 DEF AliasInv
    <3>2. file'.ino \in Nat /\ file.ino <= file'.ino
      BY <1>1, <1>11
    <3>. QED  BY <1>1, <1>2, <3>1, <3>2, CommandKept
  <2>. QED  BY <2>1, <2>2
<1>14. ~disturbed' => /\ ~disturbed /\ mine /\ file.contents = Empty
                      /\ file'.contents = Json(c.new)
  BY <1>1, <1>2, <1>7, <1>11
<1>15. WriterInv'
  <2>1. ~disturbed' => file'.contents # Empty
    BY <1>6, <1>14
  <2>. QED  BY <2>1 DEF WriterInv, Empty, EmptyCfg
<1>16. QuietInv'
  <2>. SUFFICES ASSUME ~disturbed', \A q \in Procs : cmd'[q].step # "write"
                PROVE  Resolved(file'.contents) = acked'
    BY DEF QuietInv, Resolved, GetRepoUrl
  <2>1. \A q \in Procs \ {p} : cmd[q].step # "write"
    BY <1>10
  <2>2. Resolved(c.read) = acked
    BY <1>2, <1>14, <2>1, Zenon DEF AliasInv, WriterInv
  <2>. QED  BY <1>2, <1>5, <1>14, <2>2
<1>17. c.alias \in Aliases /\ c.url \in Urls \cup {NoUrl}
  BY <1>3, CommandFields
<1>18. disturbed' \in BOOLEAN /\ acked' \in [Aliases -> Urls \cup {NoUrl}]
  BY <1>1, <1>2, <1>17
<1>. QED  BY <1>1, <1>2, <1>10, <1>11, <1>12, <1>13, <1>15, <1>16, <1>18
          DEF AliasState, AliasInv

LEMMA RemoveStep ==
    ASSUME AliasTypeOK, AliasInv, RemoveFile
    PROVE  AliasState'
<1>1. /\ file.ino \in Nat /\ argoRepos \subseteq Urls
      /\ cmd \in [Procs -> Commands] /\ \A p \in Procs : cmd[p] \in Commands
  BY AliasTypes
<1>2. /\ file' = [ino |-> file.ino + 1, contents |-> Empty]
      /\ acked' = [a \in Aliases |-> NoUrl] /\ disturbed' = FALSE
      /\ argoRepos' = argoRepos /\ cmd' = cmd
  BY DEF RemoveFile
<1>3. /\ file'.ino = file.ino + 1 /\ file'.contents = Empty
      /\ file' \in [ino: Nat, contents: Contents]
  BY <1>1, <1>2, EmptyFacts
<1>4. Sound(file.contents)'
  <2>1. Sound(Empty)
    BY EmptyFacts
  <2>. QED  BY <1>2, <1>3, <2>1 DEF Sound, Coherent
<1>5. \A p \in Procs : CommandInv(p)'
  <2>1. file'.ino \in Nat /\ file.ino <= file'.ino
    BY <1>1, <1>3
  <2>. QED  BY <1>1, <1>2, <2>1, CommandKept DEF AliasInv
<1>6. WriterInv'
  <2>. SUFFICES ASSUME NEW p \in Procs, cmd'[p].step = "write",
                       cmd'[p].ino = file'.ino
                PROVE  FALSE
    BY DEF WriterInv, Empty, EmptyCfg, Resolved, GetRepoUrl
  <2>1. cmd[p].ino <= file.ino
    BY <1>2 DEF AliasInv, CommandInv, InProgress
  <2>2. cmd[p] \in Command
    BY <1>1, <1>2, EndedCommands
  <2>3. cmd[p].ino \in Nat
    BY <2>2, CommandFields
  <2>. QED  BY <1>1, <1>2, <1>3, <2>1, <2>3
<1>7. QuietInv'
  <2>1. Resolved(Empty) = [a \in Aliases |-> NoUrl]
    BY EmptyFacts
  <2>2. Resolved(file'.contents) = acked'
    BY <1>2, <1>3, <2>1
  <2>. QED  BY <2>2 DEF QuietInv, Resolved, GetRepoUrl
<1>. QED  BY <1>1, <1>2, <1>3, <1>4, <1>5, <1>6, <1>7
          DEF AliasState, AliasInv

AliasAction ==
    \/ UNCHANGED aliasState
    \/ RemoveFile
    \/ \E p \in Procs : AliasStep(p)
    \/ \E p \in Procs, a \in Aliases : Unregister(p, a)
    \/ \E p \in Procs, a \in Aliases, u \in Urls : Register(p, a, u)

LEMMA AliasNext ==
    ASSUME AliasTypeOK, AliasInv, AliasAction
    PROVE  AliasState'
<1>1. ASSUME UNCHANGED aliasState
      PROVE  AliasState'
  <2>1. /\ file' = file /\ argoRepos' = argoRepos /\ cmd' = cmd
        /\ acked' = acked /\ disturbed' = disturbed
    BY <1>1 DEF aliasState
  <2>2. AliasState
    BY AliasTypes DEF AliasState
  <2>3. Sound(file.contents)'
    BY <2>1, <2>2 DEF AliasState, AliasInv, Sound, Coherent
  <2>4. \A p \in Procs : CommandInv(p)'
    <3>1. file.ino \in Nat /\ file.ino <= file.ino
      BY AliasTypes
    <3>. QED  BY <2>1, <3>1, CommandKept DEF AliasInv
  <2>5. WriterInv'
    <3>. SUFFICES ASSUME ~disturbed', NEW q \in Procs,
                         cmd'[q].step = "write", cmd'[q].ino = file'.ino,
                         file'.contents = Empty,
                         \A r \in Procs \ {q} : cmd'[r].step # "write"
                  PROVE  Resolved(cmd'[q].read) = acked'
      BY DEF WriterInv, Resolved, GetRepoUrl, Empty, EmptyCfg
    <3>1. Resolved(cmd[q].read) = acked
      BY <2>1, Zenon DEF AliasInv, WriterInv
    <3>. QED  BY <2>1, <3>1
  <2>6. QuietInv'
    <3>1. QuietInv
      BY DEF AliasInv
    <3>. QED  BY <2>1, <3>1 DEF QuietInv, Resolved, GetRepoUrl
  <2>. QED  BY <2>1, <2>2, <2>3, <2>4, <2>5, <2>6 DEF AliasState, AliasInv
<1>2. ASSUME NEW p \in Procs, AliasStep(p)
      PROVE  AliasState'
  BY <1>2, AddToArgoCdStep, TruncateStep, StoreStep, KilledStep DEF AliasStep
<1>. QED  BY <1>1, <1>2, RemoveStep, UnregisterStep, RegisterStep
          DEF AliasAction

\* Between two steps on the alias file, it is sound.
LEMMA AliasSound == AliasInv => AliasFileSound
BY DEF AliasInv, QuietInv, AliasFileSound, Sound

----------------------------------------------------------------------------
(* Directories, and what preparing one does to it *)

LEMMA FilledTwice ==
    \A a : /\ Filled(Filled(a)) = Filled(a)
           /\ a.min # "" => Filled(a).min = a.min
           /\ a.max # "" => Filled(a).max = a.max
<1>. SUFFICES ASSUME NEW a
              PROVE  /\ Filled(Filled(a)) = Filled(a)
                     /\ a.min # "" => Filled(a).min = a.min
                     /\ a.max # "" => Filled(a).max = a.max
  OBVIOUS
<1>1. /\ Filled(a).min = IF a.min = "" THEN "flag" ELSE a.min
      /\ Filled(a).max = IF a.max = "" THEN "flag" ELSE a.max
      /\ Filled(a) = [min |-> Filled(a).min, max |-> Filled(a).max]
  BY DEF Filled
<1>2. Filled(a).min # "" /\ Filled(a).max # ""
  BY <1>1
<1>3. Filled(Filled(a)) = [min |-> Filled(a).min, max |-> Filled(a).max]
  <2>. DEFINE b == Filled(a)
  <2>. HIDE DEF b
  <2>1. b.min # "" /\ b.max # ""
    BY <1>2 DEF b
  <2>2. Filled(b) = [min |-> b.min, max |-> b.max]
    BY <2>1 DEF Filled
  <2>. QED  BY <2>2 DEF b
<1>. QED  BY <1>1, <1>3

LEMMA PrepareManifest ==
    ASSUME NEW m \in Manifest
    PROVE  LET n == Prepare(m) IN
           /\ n \in Manifest
           /\ n.clusters = m.clusters /\ n.ns = FALSE
           /\ Prepare(n) = n
           /\ \A a \in m.deployments : \E b \in n.deployments :
                 /\ a.min # "" => b.min = a.min
                 /\ a.max # "" => b.max = a.max
<1>. DEFINE D == m.deployments
            E == {Filled(a) : a \in D}
            n == [clusters |-> m.clusters, ns |-> FALSE, deployments |-> E]
<1>1. /\ m.clusters \in 0..2 /\ D \in SUBSET [min: Limit, max: Limit]
      /\ m = [clusters |-> m.clusters, ns |-> m.ns, deployments |-> D]
  BY DEF Manifest
<1>2. Prepare(m) = n
  <2>1. Prepare(m) = [m EXCEPT !.ns = FALSE, !.deployments = E]
    BY Zenon DEF Prepare
  <2>. HIDE DEF D, E
  <2>. QED  BY <1>1, <2>1
<1>3. \A a \in [min: Limit, max: Limit] : Filled(a) \in [min: Limit, max: Limit]
  BY DEF Filled, Limit
<1>4. E \in SUBSET [min: Limit, max: Limit]
  BY <1>1, <1>3
<1>5. {Filled(b) : b \in E} = E
  <2>1. \A b \in E : Filled(b) = b
    BY FilledTwice
  <2>. HIDE DEF E
  <2>. QED  BY <2>1
<1>6. \A a \in D : \E b \in E :
         /\ a.min # "" => b.min = a.min
         /\ a.max # "" => b.max = a.max
  BY FilledTwice
<1>. HIDE DEF E, D
<1>7. n \in Manifest
  BY <1>1, <1>4 DEF Manifest
<1>8. n.clusters = m.clusters /\ n.ns = FALSE /\ n.deployments = E
  OBVIOUS
<1>9. Prepare(n) = n
  BY <1>5, <1>8 DEF Prepare
<1>. HIDE DEF n
<1>. QED  BY <1>2, <1>6, <1>7, <1>8, <1>9 DEF D

LEMMA OnlyIs ==
    ASSUME NEW d, NEW f, DOMAIN d.files = {f}
    PROVE  OnlyManifest(d) = f
BY DEF OnlyManifest

\* The prepared form, spelled out.
LEMMA NormalForm ==
    ASSUME NEW d,
           d = [subdir |-> d.subdir, kustomization |-> d.kustomization,
                configurations |-> d.configurations, files |-> d.files]
    PROVE  LET f == OnlyManifest(d) IN
           PrepareDir(d) =
              [subdir |-> d.subdir,
               kustomization |-> IF d.kustomization = "" THEN f
                                 ELSE d.kustomization,
               configurations |-> TRUE,
               files |-> [d.files EXCEPT ![f] = Prepare(d.files[f])]]
<1>. DEFINE f == OnlyManifest(d)
<1>1. PrepareDir(d) = [d EXCEPT !.files[f] = Prepare(@),
                                !.kustomization = IF @ = "" THEN f ELSE @,
                                !.configurations = TRUE]
  BY Zenon DEF PrepareDir
<1>. HIDE DEF f
<1>. QED  BY <1>1 DEF f

\* A directory that preparegit does not refuse: what it writes is compliant,
\* would stay as it is, and has all that the users wrote.
LEMMA PrepareFacts ==
    ASSUME NEW d, IsDir(d), ~PrepareDirFails(d)
    PROVE  LET n == PrepareDir(d) IN
           /\ IsDir(n) /\ ValidateDir(n) /\ ~PrepareDirFails(n)
           /\ PrepareDir(n) = n /\ KeepsUsers(d, n)
<1>. DEFINE old == d.files
            kust == d.kustomization
<1>1. PICK names \in SUBSET FileNames :
         d \in [subdir: BOOLEAN, kustomization: FileNames \cup {""},
                configurations: BOOLEAN, files: [names -> Manifest]]
  BY DEF IsDir
<1>2. /\ d.subdir \in BOOLEAN /\ kust \in FileNames \cup {""}
      /\ d.configurations \in BOOLEAN /\ old \in [names -> Manifest]
      /\ d = [subdir |-> d.subdir, kustomization |-> kust,
              configurations |-> d.configurations, files |-> old]
  BY <1>1
<1>3. PICK f \in DOMAIN old : DOMAIN old = {f}
  BY DEF PrepareDirFails, OneManifest
<1>4. OnlyManifest(d) = f
  BY <1>3, OnlyIs
<1>5. ~d.subdir /\ old[f].clusters = 1
  BY <1>4 DEF PrepareDirFails, OneManifest
<1>6. names = {f} /\ f \in FileNames /\ f # "" /\ old[f] \in Manifest
  BY <1>2, <1>3, TemplateAssumption
<1>. DEFINE m == old[f]
            new == [old EXCEPT ![f] = Prepare(m)]
            kust2 == IF kust = "" THEN f ELSE kust
            n == [subdir |-> d.subdir, kustomization |-> kust2,
                  configurations |-> TRUE, files |-> new]
<1>7. PrepareDir(d) = n
  <2>1. d = [subdir |-> d.subdir, kustomization |-> d.kustomization,
             configurations |-> d.configurations, files |-> d.files]
    BY <1>2
  <2>2. LET g == OnlyManifest(d) IN
        PrepareDir(d) =
           [subdir |-> d.subdir,
            kustomization |-> IF d.kustomization = "" THEN g
                              ELSE d.kustomization,
            configurations |-> TRUE,
            files |-> [d.files EXCEPT ![g] = Prepare(d.files[g])]]
    BY <2>1, NormalForm
  <2>. QED  BY <1>4, <2>2
<1>8. /\ Prepare(m) \in Manifest /\ Prepare(m).clusters = m.clusters
      /\ Prepare(m).ns = FALSE /\ Prepare(Prepare(m)) = Prepare(m)
      /\ \A a \in m.deployments : \E b \in Prepare(m).deployments :
            /\ a.min # "" => b.min = a.min
            /\ a.max # "" => b.max = a.max
  BY <1>6, PrepareManifest
<1>. HIDE DEF m
<1>9. /\ new \in [names -> Manifest] /\ DOMAIN new = {f}
      /\ new[f] = Prepare(m)
  BY <1>2, <1>6, <1>8
<1>10. kust2 \in FileNames /\ kust2 # "" /\ (kust # "" => kust2 = kust)
  BY <1>2, <1>6, TemplateAssumption
<1>. HIDE DEF new, kust2, old, kust
<1>11. /\ n.subdir = d.subdir /\ n.kustomization = kust2
       /\ n.configurations = TRUE /\ n.files = new
  OBVIOUS
<1>12. n \in [subdir: BOOLEAN, kustomization: FileNames \cup {""},
              configurations: BOOLEAN, files: [names -> Manifest]]
  BY <1>2, <1>9, <1>10
<1>13. PrepareDir(n) = n
  <2>1. OnlyManifest(n) = f
    BY <1>9, <1>11, OnlyIs
  <2>2. [new EXCEPT ![f] = Prepare(new[f])] = new
    BY <1>8, <1>9
  <2>3. PrepareDir(n) = [subdir |-> d.subdir,
            kustomization |-> IF kust2 = "" THEN f ELSE kust2,
            configurations |-> TRUE,
            files |-> [new EXCEPT ![f] = Prepare(new[f])]]
    <3>1. n = [subdir |-> n.subdir, kustomization |-> n.kustomization,
               configurations |-> n.configurations, files |-> n.files]
      OBVIOUS
    <3>. HIDE DEF n
    <3>2. LET g == OnlyManifest(n) IN
          PrepareDir(n) =
             [subdir |-> n.subdir,
              kustomization |-> IF n.kustomization = "" THEN g
                                ELSE n.kustomization,
              configurations |-> TRUE,
              files |-> [n.files EXCEPT ![g] = Prepare(n.files[g])]]
      BY <3>1, NormalForm
    <3>. QED  BY <1>11, <2>1, <3>2
  <2>. QED  BY <1>10, <2>2, <2>3
<1>. HIDE DEF n
<1>14. OnlyManifest(n) = f /\ OneManifest(n)
  <2>1. DOMAIN n.files = {f}
    BY <1>9, <1>11
  <2>. QED  BY <1>5, <1>11, <2>1, OnlyIs DEF OneManifest
<1>15. n.files[f].clusters = 1 /\ ~n.files[f].ns
  BY <1>5, <1>8, <1>9, <1>11 DEF m, old
<1>16. ValidateDir(n) /\ ~PrepareDirFails(n)
  BY <1>10, <1>11, <1>14, <1>15 DEF ValidateDir, PrepareDirFails
<1>17. KeepsUsers(d, n)
  <2>1. /\ DOMAIN n.files = DOMAIN d.files /\ n.subdir = d.subdir
        /\ d.kustomization # "" => n.kustomization = d.kustomization
        /\ d.configurations => n.configurations
    BY <1>3, <1>9, <1>10, <1>11 DEF old, kust
  <2>2. n.files[f] = Prepare(m) /\ d.files[f] = m /\ DOMAIN d.files = {f}
    BY <1>3, <1>9, <1>11 DEF old, m
  <2>3. \A g \in DOMAIN d.files :
          /\ n.files[g].clusters = d.files[g].clusters
          /\ \A a \in d.files[g].deployments :
                \E b \in n.files[g].deployments :
                    /\ a.min # "" => b.min = a.min
                    /\ a.max # "" => b.max = a.max
    BY <1>8, <2>2
  <2>. QED  BY <2>1, <2>3 DEF KeepsUsers
<1>18. IsDir(n)
  BY <1>12 DEF IsDir
<1>. QED  BY <1>7, <1>13, <1>16, <1>17, <1>18

----------------------------------------------------------------------------
(* The branches, and the commands that push to them *)

Dirs == [subdir: BOOLEAN, kustomization: FileNames \cup {""},
         configurations: BOOLEAN,
         files: UNION {[names -> Manifest] : names \in SUBSET FileNames}]
Trees == [Paths -> Dirs]
Branches == [rev: Nat, tree: Trees]
Pushes == [step: {"push"}, url: Urls, base: Nat, tree: Trees,
           path: Paths \cup {NoPath}]
Jobs == Pushes \cup {Idle, Ended("ok"), Ended("failed")}

LEMMA DirsFacts == \A d : IsDir(d) <=> d \in Dirs
<1>. DEFINE Of(names) == [subdir: BOOLEAN, kustomization: FileNames \cup {""},
                          configurations: BOOLEAN, files: [names -> Manifest]]
            All == UNION {[names -> Manifest] : names \in SUBSET FileNames}
<1>1. ASSUME NEW d, IsDir(d)
      PROVE  d \in Dirs
  <2>1. PICK names \in SUBSET FileNames : d \in Of(names)
    BY <1>1 DEF IsDir
  <2>2. [names -> Manifest] \subseteq All
    OBVIOUS
  <2>. HIDE DEF All
  <2>3. Of(names) \subseteq [subdir: BOOLEAN,
            kustomization: FileNames \cup {""}, configurations: BOOLEAN,
            files: All]
    BY <2>2
  <2>. QED  BY <2>1, <2>3 DEF Dirs, All
<1>2. ASSUME NEW d, d \in Dirs
      PROVE  IsDir(d)
  <2>1. d.files \in All
    BY <1>2 DEF Dirs
  <2>2. PICK names \in SUBSET FileNames : d.files \in [names -> Manifest]
    BY <2>1
  <2>3. d \in Of(names)
    <3>. HIDE DEF All
    <3>. QED  BY <1>2, <2>2 DEF Dirs
  <2>. QED  BY <2>3 DEF IsDir
<1>. QED  BY <1>1, <1>2

LEMMA TreesFacts == \A tree : IsTree(tree) <=> tree \in Trees
<1>1. ASSUME NEW tree, IsTree(tree)
      PROVE  tree \in Trees
  <2>1. \A d \in Paths : tree[d] \in Dirs
    BY <1>1, DirsFacts DEF IsTree
  <2>2. tree = [d \in Paths |-> tree[d]]
    BY <1>1 DEF IsTree
  <2>. QED  BY <2>1, <2>2 DEF Trees
<1>2. ASSUME NEW tree, tree \in Trees
      PROVE  IsTree(tree)
  BY <1>2, DirsFacts DEF Trees, IsTree
<1>. QED  BY <1>1, <1>2

LEMMA BranchesFacts == \A b : IsBranch(b) <=> b \in Branches
BY TreesFacts DEF IsBranch, Branches

LEMMA JobsFacts == \A j : IsJob(j) <=> j \in Jobs
<1>1. ASSUME NEW j, IsJob(j)
      PROVE  j \in Jobs
  <2>1. CASE j \in {Idle, Ended("ok"), Ended("failed")}
    BY <2>1 DEF Jobs
  <2>2. CASE /\ j \in [step: {"push"}, url: Urls, base: Nat, tree: {j.tree},
                       path: Paths \cup {NoPath}]
             /\ IsTree(j.tree)
    <3>1. j.tree \in Trees
      BY <2>2, TreesFacts
    <3>2. j \in Pushes
      BY <2>2, <3>1 DEF Pushes
    <3>. QED  BY <3>2 DEF Jobs
  <2>. QED  BY <1>1, <2>1, <2>2 DEF IsJob
<1>2. ASSUME NEW j, j \in Jobs
      PROVE  IsJob(j)
  <2>1. CASE j \in Pushes
    <3>1. IsTree(j.tree)
      BY <2>1, TreesFacts DEF Pushes
    <3>2. j \in [step: {"push"}, url: Urls, base: Nat, tree: {j.tree},
                 path: Paths \cup {NoPath}]
      BY <2>1 DEF Pushes
    <3>. QED  BY <3>1, <3>2 DEF IsJob
  <2>. QED  BY <1>2, <2>1 DEF Jobs, IsJob
<1>. QED  BY <1>1, <1>2

\* The types, without the counter of the users' pushes.
TemplateTypes ==
    /\ repo \in [Urls -> Branches]
    /\ job \in [Procs -> Jobs]
    /\ prepared \in [Urls -> [Paths -> BOOLEAN]]

LEMMA TemplateTypeParts ==
    TemplateTypeOK <=> TemplateTypes /\ edits \in 0 .. MaxEdits
<1>1. ASSUME TemplateTypeOK
      PROVE  TemplateTypes
  <2>1. /\ repo = [u \in Urls |-> repo[u]] /\ \A u \in Urls : IsBranch(repo[u])
        /\ job = [p \in Procs |-> job[p]] /\ \A p \in Procs : IsJob(job[p])
        /\ prepared \in [Urls -> [Paths -> BOOLEAN]]
    BY <1>1, Zenon DEF TemplateTypeOK
  <2>2. \A u \in Urls : repo[u] \in Branches
    BY <2>1, BranchesFacts
  <2>3. \A p \in Procs : job[p] \in Jobs
    BY <2>1, JobsFacts
  <2>. QED  BY <2>1, <2>2, <2>3 DEF TemplateTypes
<1>2. ASSUME TemplateTypes
      PROVE  /\ repo = [u \in Urls |-> repo[u]]
             /\ \A u \in Urls : IsBranch(repo[u])
             /\ job = [p \in Procs |-> job[p]] /\ \A p \in Procs : IsJob(job[p])
             /\ prepared \in [Urls -> [Paths -> BOOLEAN]]
  BY <1>2, BranchesFacts, JobsFacts DEF TemplateTypes
<1>. QED  BY <1>1, <1>2, Zenon DEF TemplateTypeOK

LEMMA JobSteps ==
    /\ \A j \in Jobs : j \in Pushes <=> j.step = "push"
    /\ \A j \in Jobs : j \notin Pushes <=> j.step \in {"idle", "ok", "failed"}
<1>1. \A j \in Pushes : j.step = "push"
  BY DEF Pushes
<1>. QED  BY <1>1, EndedCommands DEF Jobs

LEMMA PushFields ==
    ASSUME NEW j \in Pushes
    PROVE  /\ j.step = "push" /\ j.url \in Urls /\ j.base \in Nat
           /\ j.tree \in Trees /\ j.path \in Paths \cup {NoPath}
           /\ \A d \in Paths : j.tree[d] \in Dirs
BY DEF Pushes, Trees

LEMMA BranchFields ==
    ASSUME NEW b \in Branches
    PROVE  /\ b.rev \in Nat /\ b.tree \in Trees
           /\ \A d \in Paths : b.tree[d] \in Dirs
BY DEF Branches, Trees

\* A job that is left alone still knows what the server will take, whatever
\* is pushed.
LEMMA PushKept ==
    ASSUME TemplateTypes, NEW p \in Procs, PushInv(p), job'[p] = job[p],
           \A u \in Urls : \/ repo'[u] = repo[u]
                           \/ repo'[u].rev \in Nat /\ repo[u].rev < repo'[u].rev
    PROVE  PushInv(p)'
<1>. DEFINE j == job[p]
            u == j.url
<1>. SUFFICES ASSUME job'[p].step = "push"
              PROVE  PushInv(p)'
  BY DEF PushInv
<1>1. j \in Pushes
  BY JobSteps DEF TemplateTypes
<1>2. u \in Urls /\ j.base \in Nat /\ repo[u] \in Branches /\ repo[u].rev \in Nat
  <2>1. u \in Urls /\ j.base \in Nat
    BY <1>1, PushFields
  <2>2. repo[u] \in Branches
    BY <2>1 DEF TemplateTypes
  <2>. QED  BY <2>1, <2>2, BranchFields
<1>3. j.base <= repo[u].rev
  BY DEF PushInv
<1>4. CASE repo'[u] = repo[u]
  <2>1. job'[p] = j /\ repo'[job'[p].url] = repo[u]
    BY <1>4
  <2>2. j.path # NoPath /\ j.base = repo[u].rev =>
           /\ ~PrepareDirFails(repo[u].tree[j.path])
           /\ j.tree = [repo[u].tree EXCEPT
                  ![j.path] = PrepareDir(repo[u].tree[j.path])]
    BY DEF PushInv
  <2>. HIDE DEF j
  <2>. QED  BY <1>3, <2>1, <2>2 DEF PushInv
<1>5. CASE repo'[u].rev \in Nat /\ repo[u].rev < repo'[u].rev
  <2>1. job'[p] = j
    OBVIOUS
  <2>2. j.base <= repo'[u].rev /\ j.base # repo'[u].rev
    BY <1>2, <1>3, <1>5
  <2>. HIDE DEF j
  <2>. QED  BY <2>1, <2>2 DEF PushInv
<1>. QED  BY <1>2, <1>4, <1>5

\* A step of a command that pushes nothing.
LEMMA JobStep ==
    ASSUME TemplateTypes, TemplateInv, NEW p \in Procs, NEW new \in Jobs,
           job' = [job EXCEPT ![p] = new], repo' = repo,
           prepared' \in [Urls -> [Paths -> BOOLEAN]],
           PreparedValidates', PushInv(p)'
    PROVE  TemplateTypes' /\ TemplateInv'
<1>1. job' \in [Procs -> Jobs] /\ \A q \in Procs : q # p => job'[q] = job[q]
  BY DEF TemplateTypes
<1>2. TemplateTypes'
  BY <1>1 DEF TemplateTypes
<1>3. \A q \in Procs : q # p => PushInv(q)'
  BY <1>1, PushKept DEF TemplateInv
<1>. QED  BY <1>2, <1>3 DEF TemplateInv

\* What is prepared does not change with the jobs.
LEMMA PreparedKept ==
    ASSUME PreparedValidates, repo' = repo, prepared' = prepared
    PROVE  PreparedValidates'
BY DEF PreparedValidates

LEMMA TemplateKept ==
    ASSUME TemplateTypes, TemplateInv, UNCHANGED <<repo, job, prepared>>
    PROVE  TemplateTypes' /\ TemplateInv'
<1>1. TemplateTypes'
  BY DEF TemplateTypes
<1>2. PreparedValidates'
  BY PreparedKept DEF TemplateInv
<1>3. \A p \in Procs : PushInv(p)'
  BY PushKept DEF TemplateInv
<1>. QED  BY <1>1, <1>2, <1>3 DEF TemplateInv

LEMMA EndsJob ==
    ASSUME TemplateTypes, TemplateInv, NEW p \in Procs,
           NEW outcome \in {"ok", "failed"},
           job' = [job EXCEPT ![p] = Ended(outcome)],
           UNCHANGED <<repo, prepared>>
    PROVE  TemplateTypes' /\ TemplateInv'
<1>. DEFINE new == Ended(outcome)
<1>1. new \in Jobs /\ new.step # "push"
  BY EndedCommands DEF Jobs
<1>. HIDE DEF new
<1>2. job' = [job EXCEPT ![p] = new]
  BY DEF new
<1>3. job'[p] = new
  BY <1>2 DEF TemplateTypes
<1>4. PushInv(p)'
  BY <1>1, <1>3 DEF PushInv
<1>5. PreparedValidates' /\ prepared' \in [Urls -> [Paths -> BOOLEAN]]
  BY PreparedKept DEF TemplateInv, TemplateTypes
<1>. QED  BY <1>1, <1>2, <1>4, <1>5, JobStep

\* The three ways in which preparegit gets to its commit.
LEMMA PrepareGitDirCases ==
    ASSUME TemplateTypes, NEW p \in Procs, NEW u \in Urls, NEW path \in Paths,
           PrepareGitDir(p, u, path)
    PROVE  LET d == repo[u].tree[path] IN
           \/ /\ job' = [job EXCEPT ![p] = Ended("failed")]
              /\ prepared' = prepared
           \/ /\ ~PrepareDirFails(d) /\ PrepareDir(d) = d
              /\ job' = [job EXCEPT ![p] = Ended("ok")]
              /\ prepared' = [prepared EXCEPT ![u][path] = TRUE]
           \/ /\ ~PrepareDirFails(d)
              /\ job' = [job EXCEPT ![p] =
                    [step |-> "push", url |-> u, base |-> repo[u].rev,
                     tree |-> [repo[u].tree EXCEPT ![path] = PrepareDir(d)],
                     path |-> path]]
              /\ prepared' = prepared
<1>. DEFINE d == repo[u].tree[path]
            tree == [repo[u].tree EXCEPT ![path] = PrepareDir(d)]
<1>1. repo[u].tree \in [Paths -> Dirs]
  BY BranchFields DEF TemplateTypes, Trees
<1>2. tree = repo[u].tree => PrepareDir(d) = d
  BY <1>1
<1>3. path # NoPath
  BY PathAssumption
<1>. HIDE DEF d, tree
<1>4. PrepareGitDir(p, u, path) =
         (\/ /\ PrepareDirFails(d)
             /\ job' = [job EXCEPT ![p] = Ended("failed")]
             /\ UNCHANGED prepared
          \/ /\ ~PrepareDirFails(d)
             /\ CommitChanges(p, u, tree, path))
  BY DEF PrepareGitDir, d, tree
<1>. QED  BY <1>2, <1>3, <1>4, Zenon DEF CommitChanges, d, tree

LEMMA PrepareGitDirStep ==
    ASSUME TemplateTypes, TemplateInv, NEW p \in Procs, NEW u \in Urls,
           NEW path \in Paths, PrepareGitDir(p, u, path), repo' = repo
    PROVE  TemplateTypes' /\ TemplateInv'
<1>. DEFINE d == repo[u].tree[path]
            tree == [repo[u].tree EXCEPT ![path] = PrepareDir(d)]
            new == [step |-> "push", url |-> u, base |-> repo[u].rev,
                    tree |-> tree, path |-> path]
<1>1. /\ repo[u] \in Branches /\ repo[u].rev \in Nat
      /\ repo[u].tree \in [Paths -> Dirs] /\ d \in Dirs
  BY BranchFields DEF TemplateTypes, Trees
<1>2. CASE /\ job' = [job EXCEPT ![p] = Ended("failed")]
           /\ prepared' = prepared
  BY <1>2, EndsJob
<1>3. CASE /\ ~PrepareDirFails(d) /\ PrepareDir(d) = d
           /\ job' = [job EXCEPT ![p] = Ended("ok")]
           /\ prepared' = [prepared EXCEPT ![u][path] = TRUE]
  <2>1. ValidateDir(d)
    BY <1>1, <1>3, PrepareFacts, DirsFacts
  <2>2. prepared' \in [Urls -> [Paths -> BOOLEAN]]
    BY <1>3 DEF TemplateTypes
  <2>3. ASSUME NEW v \in Urls, NEW e \in Paths, prepared'[v][e]
        PROVE  /\ ValidateDir(repo[v].tree[e])
               /\ ~PrepareDirFails(repo[v].tree[e])
               /\ PrepareDir(repo[v].tree[e]) = repo[v].tree[e]
    <3>1. prepared[v][e] \/ (v = u /\ e = path)
      <4>1. v # u => prepared'[v] = prepared[v]
        BY <1>3 DEF TemplateTypes
      <4>2. prepared'[u] = [prepared[u] EXCEPT ![path] = TRUE]
        BY <1>3 DEF TemplateTypes
      <4>3. e # path => prepared'[u][e] = prepared[u][e]
        BY <4>2 DEF TemplateTypes
      <4>. QED  BY <2>3, <4>1, <4>3
    <3>2. CASE prepared[v][e]
      BY <3>2 DEF TemplateInv, PreparedValidates
    <3>3. CASE v = u /\ e = path
      BY <1>3, <2>1, <3>3
    <3>. QED  BY <3>1, <3>2, <3>3
  <2>4. PreparedValidates'
    BY <2>3 DEF PreparedValidates
  <2>. DEFINE end == Ended("ok")
  <2>5. end \in Jobs /\ end.step # "push"
    BY EndedCommands DEF Jobs
  <2>. HIDE DEF end
  <2>6. job' = [job EXCEPT ![p] = end]
    BY <1>3 DEF end
  <2>7. job'[p] = end
    BY <2>6 DEF TemplateTypes
  <2>8. PushInv(p)'
    BY <2>5, <2>7 DEF PushInv
  <2>. QED  BY <2>2, <2>4, <2>5, <2>6, <2>8, JobStep
<1>4. CASE /\ ~PrepareDirFails(d)
           /\ job' = [job EXCEPT ![p] = new]
           /\ prepared' = prepared
  <2>1. PrepareDir(d) \in Dirs
    BY <1>1, <1>4, PrepareFacts, DirsFacts
  <2>. HIDE DEF d
  <2>2. tree \in Trees
    BY <1>1, <2>1 DEF Trees
  <2>3. new \in Jobs
    BY <1>1, <2>2 DEF Jobs, Pushes
  <2>4. /\ new.step = "push" /\ new.url = u /\ new.base = repo[u].rev
        /\ new.path = path /\ new.tree = tree
    OBVIOUS
  <2>. HIDE DEF tree, new
  <2>5. job' = [job EXCEPT ![p] = new] /\ job'[p] = new
    BY <1>4 DEF TemplateTypes
  <2>6. PushInv(p)'
    <3>1. new.base <= repo[u].rev
      BY <1>1, <2>4
    <3>2. /\ ~PrepareDirFails(repo[u].tree[path])
          /\ tree = [repo[u].tree EXCEPT
                 ![path] = PrepareDir(repo[u].tree[path])]
      BY <1>4 DEF d, tree
    <3>. QED  BY <2>4, <2>5, <3>1, <3>2 DEF PushInv
  <2>7. PreparedValidates' /\ prepared' \in [Urls -> [Paths -> BOOLEAN]]
    BY <1>4, PreparedKept DEF TemplateInv, TemplateTypes
  <2>. QED  BY <2>3, <2>5, <2>6, <2>7, JobStep
<1>5. \/ /\ job' = [job EXCEPT ![p] = Ended("failed")]
         /\ prepared' = prepared
      \/ /\ ~PrepareDirFails(d) /\ PrepareDir(d) = d
         /\ job' = [job EXCEPT ![p] = Ended("ok")]
         /\ prepared' = [prepared EXCEPT ![u][path] = TRUE]
      \/ /\ ~PrepareDirFails(d)
         /\ job' = [job EXCEPT ![p] = new]
         /\ prepared' = prepared
  BY PrepareGitDirCases
<1>. QED  BY <1>2, <1>3, <1>4, <1>5

\* The server takes the push of p.
Lands(p) ==
    LET u == job[p].url
    IN  /\ job[p].base = repo[u].rev
        /\ repo' = [repo EXCEPT ![u] =
                       [rev |-> repo[u].rev + 1, tree |-> job[p].tree]]
        /\ prepared' = PreparedAfter(u, job[p].tree, job[p].path)

LEMMA PushCases ==
    ASSUME NEW p \in Procs, TemplateStep(p), TemplateTypes
    PROVE  /\ job[p].step = "push"
           /\ \E outcome \in {"ok", "failed"} :
                 /\ job' = [job EXCEPT ![p] = Ended(outcome)]
                 /\ \/ outcome = "failed" /\ UNCHANGED <<repo, prepared>>
                    \/ Lands(p)
<1>. DEFINE u == job[p].url
            r == [repo EXCEPT ![u] = [rev |-> @.rev + 1, tree |-> job[p].tree]]
<1>1. r = [repo EXCEPT ![u] = [rev |-> repo[u].rev + 1, tree |-> job[p].tree]]
  BY DEF TemplateTypes
<1>2. CASE Push(p)
  BY <1>1, <1>2 DEF Push, Lands
<1>3. CASE PushFails(p)
  BY <1>1, <1>3 DEF PushFails, Lands
<1>. QED  BY <1>2, <1>3 DEF TemplateStep

\* What a push that the server takes does to its branch.
LEMMA LandsFacts ==
    ASSUME TemplateTypes, TemplateInv, NEW p \in Procs,
           job[p].step = "push", Lands(p)
    PROVE  LET u == job[p].url
               path == job[p].path
               old == repo[u]
               new == repo'[u]
           IN  /\ u \in Urls /\ path \in Paths \cup {NoPath}
               /\ repo' \in [Urls -> Branches]
               /\ \A v \in Urls : v # u => repo'[v] = repo[v]
               /\ new.rev = old.rev + 1 /\ old.rev \in Nat
               /\ new.tree = job[p].tree
               /\ path # NoPath =>
                     /\ \A d \in Paths \ {path} : new.tree[d] = old.tree[d]
                     /\ ValidateDir(new.tree[path])
                     /\ ~PrepareDirFails(new.tree[path])
                     /\ PrepareDir(new.tree[path]) = new.tree[path]
                     /\ KeepsUsers(old.tree[path], new.tree[path])
<1>. DEFINE j == job[p]
            u == j.url
            path == j.path
            old == repo[u]
            new == [rev |-> old.rev + 1, tree |-> j.tree]
<1>1. j \in Pushes
  BY JobSteps DEF TemplateTypes
<1>2. u \in Urls /\ path \in Paths \cup {NoPath} /\ j.tree \in Trees
  BY <1>1, PushFields
<1>3. old \in Branches
  BY <1>2 DEF TemplateTypes
<1>4. old.rev \in Nat /\ old.tree \in Trees /\ \A d \in Paths : old.tree[d] \in Dirs
  BY <1>3, BranchFields
<1>5. repo' = [repo EXCEPT ![u] = new]
  BY DEF Lands
<1>6. path # NoPath =>
         /\ ~PrepareDirFails(old.tree[path])
         /\ j.tree = [old.tree EXCEPT ![path] = PrepareDir(old.tree[path])]
  BY DEF TemplateInv, PushInv, Lands
<1>. HIDE DEF old, u, path, j
<1>7. new \in Branches /\ new.rev = old.rev + 1 /\ new.tree = j.tree
  BY <1>2, <1>4 DEF Branches
<1>. HIDE DEF new
<1>8. /\ repo' \in [Urls -> Branches] /\ repo'[u] = new
      /\ \A v \in Urls : v # u => repo'[v] = repo[v]
  BY <1>2, <1>5, <1>7 DEF TemplateTypes
<1>9. ASSUME path # NoPath
      PROVE  /\ \A d \in Paths \ {path} : new.tree[d] = old.tree[d]
             /\ ValidateDir(new.tree[path])
             /\ ~PrepareDirFails(new.tree[path])
             /\ PrepareDir(new.tree[path]) = new.tree[path]
             /\ KeepsUsers(old.tree[path], new.tree[path])
  <2>. DEFINE d == old.tree[path]
              n == PrepareDir(d)
  <2>1. path \in Paths /\ d \in Dirs /\ ~PrepareDirFails(d)
    BY <1>2, <1>4, <1>6, <1>9
  <2>2. IsDir(d)
    BY <2>1, DirsFacts
  <2>. HIDE DEF d
  <2>3. /\ ValidateDir(n) /\ ~PrepareDirFails(n) /\ PrepareDir(n) = n
        /\ KeepsUsers(d, n)
    BY <2>1, <2>2, PrepareFacts
  <2>. HIDE DEF n
  <2>4. /\ new.tree[path] = n
        /\ \A e \in Paths \ {path} : new.tree[e] = old.tree[e]
    BY <1>4, <1>6, <1>7, <1>9, <2>1 DEF n, d, Trees
  <2>. QED  BY <2>3, <2>4 DEF d
<1>. QED  BY <1>2, <1>4, <1>7, <1>8, <1>9 DEF old, u, path, j

LEMMA LandsStep ==
    ASSUME TemplateTypes, TemplateInv, NEW p \in Procs,
           job[p].step = "push", Lands(p), NEW outcome \in {"ok", "failed"},
           job' = [job EXCEPT ![p] = Ended(outcome)]
    PROVE  TemplateTypes' /\ TemplateInv'
<1>. DEFINE u == job[p].url
            path == job[p].path
            tree == job[p].tree
            end == Ended(outcome)
<1>1. end \in Jobs /\ end.step # "push"
  BY EndedCommands DEF Jobs
<1>. HIDE DEF end
<1>2. job' \in [Procs -> Jobs] /\ job'[p] = end
      /\ \A q \in Procs : q # p => job'[q] = job[q]
  BY <1>1 DEF TemplateTypes, end
<1>3. /\ u \in Urls /\ path \in Paths \cup {NoPath}
      /\ repo' \in [Urls -> Branches]
      /\ \A v \in Urls : v # u => repo'[v] = repo[v]
      /\ repo'[u].rev = repo[u].rev + 1 /\ repo[u].rev \in Nat
      /\ repo'[u].tree = tree
      /\ path # NoPath =>
            /\ ValidateDir(tree[path]) /\ ~PrepareDirFails(tree[path])
            /\ PrepareDir(tree[path]) = tree[path]
  BY LandsFacts
<1>4. prepared' = PreparedAfter(u, tree, path)
  BY DEF Lands
<1>. HIDE DEF u, path, tree
<1>. DEFINE at == [d \in Paths |-> \/ d = path
                                   \/ prepared[u][d] /\ tree[d] = repo[u].tree[d]]
<1>5. prepared' = [prepared EXCEPT ![u] = at]
  BY <1>3, <1>4 DEF PreparedAfter, TemplateTypes
<1>6. /\ prepared' \in [Urls -> [Paths -> BOOLEAN]]
      /\ prepared'[u] = at
      /\ \A v \in Urls : v # u => prepared'[v] = prepared[v]
  <2>1. at \in [Paths -> BOOLEAN]
    <3>1. \A d \in Paths : prepared[u][d] \in BOOLEAN
      BY <1>3 DEF TemplateTypes
    <3>. QED  BY <3>1
  <2>. HIDE DEF at
  <2>. QED  BY <1>3, <1>5, <2>1 DEF TemplateTypes
<1>7. ASSUME NEW v \in Urls, NEW d \in Paths, prepared'[v][d]
      PROVE  /\ ValidateDir(repo'[v].tree[d])
             /\ ~PrepareDirFails(repo'[v].tree[d])
             /\ PrepareDir(repo'[v].tree[d]) = repo'[v].tree[d]
  <2>1. CASE v # u
    BY <1>3, <1>6, <1>7, <2>1 DEF TemplateInv, PreparedValidates
  <2>2. CASE v = u
    <3>1. d = path \/ (prepared[u][d] /\ tree[d] = repo[u].tree[d])
      BY <1>6, <1>7, <2>2
    <3>2. CASE d = path
      <4>1. path # NoPath
        BY <3>2, PathAssumption
      <4>. QED  BY <1>3, <2>2, <3>2, <4>1
    <3>3. CASE prepared[u][d] /\ tree[d] = repo[u].tree[d]
      BY <1>3, <2>2, <3>3 DEF TemplateInv, PreparedValidates
    <3>. QED  BY <3>1, <3>2, <3>3
  <2>. QED  BY <2>1, <2>2
<1>8. PreparedValidates'
  BY <1>7 DEF PreparedValidates
<1>9. ASSUME NEW q \in Procs
      PROVE  PushInv(q)'
  <2>1. CASE q = p
    BY <1>1, <1>2, <2>1 DEF PushInv
  <2>2. CASE q # p
    <3>1. \A v \in Urls : \/ repo'[v] = repo[v]
                          \/ repo'[v].rev \in Nat /\ repo[v].rev < repo'[v].rev
      BY <1>3
    <3>. QED  BY <1>2, <2>2, <3>1, PushKept DEF TemplateInv
  <2>. QED  BY <2>1, <2>2
<1>. QED  BY <1>2, <1>3, <1>6, <1>8, <1>9 DEF TemplateTypes, TemplateInv

LEMMA PushStep ==
    ASSUME TemplateTypes, TemplateInv, NEW p \in Procs, TemplateStep(p)
    PROVE  TemplateTypes' /\ TemplateInv'
<1>1. PICK outcome \in {"ok", "failed"} :
         /\ job' = [job EXCEPT ![p] = Ended(outcome)]
         /\ \/ outcome = "failed" /\ UNCHANGED <<repo, prepared>>
            \/ Lands(p)
  BY PushCases
<1>2. CASE UNCHANGED <<repo, prepared>>
  BY <1>1, <1>2, EndsJob
<1>3. CASE Lands(p)
  BY <1>1, <1>3, PushCases, LandsStep
<1>. QED  BY <1>1, <1>2, <1>3

LEMMA AbsentIsDir == Absent \in Dirs
<1>. DEFINE none == [f \in {} |-> 0]
<1>1. none \in [{} -> Manifest]
  OBVIOUS
<1>. HIDE DEF none
<1>2. {} \in SUBSET FileNames
  OBVIOUS
<1>3. Absent \in [subdir: BOOLEAN, kustomization: FileNames \cup {""},
                  configurations: BOOLEAN, files: [{} -> Manifest]]
  BY <1>1 DEF Absent, none
<1>4. IsDir(Absent)
  BY <1>2, <1>3, Zenon DEF IsDir
<1>. QED  BY <1>4, DirsFacts

\* What a push of a user does to the branch.
LEMMA UserPushesFacts ==
    ASSUME TemplateTypes, NEW u \in Urls, NEW path \in Paths,
           UserPushes(u, path)
    PROVE  /\ repo' \in [Urls -> Branches]
           /\ repo'[u].rev = repo[u].rev + 1 /\ repo[u].rev \in Nat
           /\ \A v \in Urls : v # u => repo'[v] = repo[v]
           /\ \A d \in Paths \ {path} : repo'[u].tree[d] = repo[u].tree[d]
           /\ prepared' = [prepared EXCEPT ![u][path] = FALSE]
           /\ job' = job
<1>1. PICK d \in UserDirs \cup {Absent} :
         /\ repo' = [repo EXCEPT ![u] =
                        [rev |-> @.rev + 1, tree |-> [@.tree EXCEPT ![path] = d]]]
         /\ prepared' = [prepared EXCEPT ![u][path] = FALSE]
  BY DEF UserPushes
<1>2. repo[u] \in Branches /\ repo[u].rev \in Nat /\ repo[u].tree \in Trees
  BY BranchFields DEF TemplateTypes
<1>3. d \in Dirs
  <2>1. \A e \in UserDirs : e \in Dirs
    BY TemplateAssumption, DirsFacts
  <2>2. Absent \in Dirs
    BY AbsentIsDir
  <2>. QED  BY <2>1, <2>2
<1>. DEFINE new == [rev |-> repo[u].rev + 1,
                    tree |-> [repo[u].tree EXCEPT ![path] = d]]
<1>4. [repo[u].tree EXCEPT ![path] = d] \in Trees
      /\ \A e \in Paths \ {path} :
            [repo[u].tree EXCEPT ![path] = d][e] = repo[u].tree[e]
  BY <1>2, <1>3 DEF Trees
<1>5. new \in Branches
  BY <1>2, <1>4 DEF Branches
<1>6. repo' = [repo EXCEPT ![u] = new]
  BY <1>1 DEF TemplateTypes
<1>7. new.rev = repo[u].rev + 1
      /\ \A e \in Paths \ {path} : new.tree[e] = repo[u].tree[e]
  BY <1>4
<1>. HIDE DEF new
<1>8. /\ repo' \in [Urls -> Branches] /\ repo'[u] = new
      /\ \A v \in Urls : v # u => repo'[v] = repo[v]
  BY <1>5, <1>6 DEF TemplateTypes
<1>9. job' = job
  BY DEF UserPushes
<1>. QED  BY <1>1, <1>2, <1>7, <1>8, <1>9

LEMMA UserPushesStep ==
    ASSUME TemplateTypes, TemplateInv, NEW u \in Urls, NEW path \in Paths,
           UserPushes(u, path)
    PROVE  TemplateTypes' /\ TemplateInv'
<1>1. /\ repo' \in [Urls -> Branches]
      /\ repo'[u].rev = repo[u].rev + 1 /\ repo[u].rev \in Nat
      /\ \A v \in Urls : v # u => repo'[v] = repo[v]
      /\ \A d \in Paths \ {path} : repo'[u].tree[d] = repo[u].tree[d]
      /\ prepared' = [prepared EXCEPT ![u][path] = FALSE]
      /\ job' = job
  BY UserPushesFacts
<1>2. /\ prepared' \in [Urls -> [Paths -> BOOLEAN]]
      /\ \A v \in Urls : v # u => prepared'[v] = prepared[v]
      /\ prepared'[u] = [prepared[u] EXCEPT ![path] = FALSE]
  BY <1>1 DEF TemplateTypes
<1>3. ~prepared'[u][path]
      /\ \A d \in Paths : d # path => prepared'[u][d] = prepared[u][d]
  BY <1>2 DEF TemplateTypes
<1>4. TemplateTypes'
  BY <1>1, <1>2 DEF TemplateTypes
<1>5. ASSUME NEW v \in Urls, NEW d \in Paths, prepared'[v][d]
      PROVE  prepared[v][d] /\ repo'[v].tree[d] = repo[v].tree[d]
  BY <1>1, <1>2, <1>3, <1>5
<1>6. PreparedValidates'
  BY <1>5 DEF TemplateInv, PreparedValidates
<1>7. \A p \in Procs : PushInv(p)'
  <2>1. \A v \in Urls : \/ repo'[v] = repo[v]
                        \/ repo'[v].rev \in Nat /\ repo[v].rev < repo'[v].rev
    BY <1>1
  <2>. QED  BY <1>1, <2>1, PushKept DEF TemplateInv
<1>. QED  BY <1>4, <1>6, <1>7 DEF TemplateInv

----------------------------------------------------------------------------
(* The steps of the workspace *)

Runs == [step: {"off", "remove", "register", "registering", "check",
                "clearing", "generate", "pushing", "prepare",
                "preparing", "done", "declined", "failed"},
         url: Urls \cup {NoUrl},
         next: DOMAIN Examples]

RunTypes == init \in Runs /\ strayed \in BOOLEAN /\ meddled \subseteq Paths

Counters == /\ faults \in 0 .. MaxFaults
            /\ commands \in 0 .. MaxCommands
            /\ edits \in 0 .. MaxEdits

\* The invariant, by components.
LEMMA Parts ==
    IndInv <=> /\ AliasState /\ TemplateTypes /\ TemplateInv
               /\ Counters /\ RunTypes
               /\ InitJobInv /\ UserJobInv /\ StepInv /\ BehindReady
<1>1. AliasTypeOK /\ AliasInv <=> /\ AliasState /\ faults \in 0 .. MaxFaults
                                  /\ commands \in 0 .. MaxCommands
  BY Zenon DEF AliasTypeOK, AliasState, Commands
<1>. QED  BY <1>1, TemplateTypeParts, Zenon
          DEF IndInv, TypeOK, RunTypes, Runs, Counters

LEMMA RunFields ==
    ASSUME NEW run \in Runs
    PROVE  /\ run.url \in Urls \cup {NoUrl} /\ run.next \in DOMAIN Examples
           /\ \A s : LET r == [run EXCEPT !.step = s] IN
                 r.step = s /\ r.url = run.url /\ r.next = run.next
BY DEF Runs

LEMMA ExampleFacts ==
    /\ DOMAIN Examples = 1..Len(Examples) /\ Len(Examples) \in Nat
    /\ 1 \in DOMAIN Examples
    /\ \A i \in DOMAIN Examples : Examples[i] \in Paths /\ i \in Nat
    /\ \A i, j \in DOMAIN Examples : Examples[i] = Examples[j] => i = j
<1>1. Examples \in Seq(Paths) /\ Examples # <<>>
      /\ \A i, j \in DOMAIN Examples : Examples[i] = Examples[j] => i = j
  BY WorkspaceAssumption, Zenon
<1>. QED  BY <1>1

\* Each step is one of the alias file, or leaves it alone.
LEMMA NextAlias ==
    ASSUME IndInv, [Next]_vars
    PROVE  AliasState'
<1>1. AliasTypeOK /\ AliasInv
  BY DEF IndInv, TypeOK
<1>2. UNCHANGED aliasState => AliasAction
  BY DEF AliasAction
<1>3. ArlonInit => AliasAction
  <2>1. UNCHANGED aliasVars => UNCHANGED aliasState
    BY DEF aliasVars
  <2>2. CASE RegisterDefault
    <3>1. init.url \in Urls
      BY <2>2 DEF RegisterDefault, IndInv, StepInv
    <3>2. Register(InitProc, Default, init.url)
      BY <2>2 DEF RegisterDefault
    <3>. QED  BY <3>1, <3>2, AliasAssumption, WorkspaceAssumption
              DEF AliasAction
  <2>3. CASE RemoveRepoCtx
    BY <2>3 DEF RemoveRepoCtx, AliasAction
  <2>4. ASSUME ArlonInit, ~RegisterDefault, ~RemoveRepoCtx
        PROVE  UNCHANGED aliasState
    <3>1. CASE StartInit
      BY <3>1 DEF StartInit
    <3>2. CASE RegisterReturned \/ ExamplesCleared \/ ManifestPushed
      BY <2>1, <3>2 DEF RegisterReturned, ExamplesCleared, ManifestPushed,
                        Returned
    <3>3. CASE CheckExamples
      BY <2>1, <3>3 DEF CheckExamples
    <3>4. CASE PushManifests
      BY <2>1, <3>4 DEF PushManifests
    <3>5. CASE PrepareExample
      BY <3>5 DEF PrepareExample
    <3>6. CASE ExamplePrepared
      BY <2>1, <3>6 DEF ExamplePrepared
    <3>7. CASE InitFails
      BY <3>7 DEF InitFails
    <3>. QED  BY <2>4, <3>1, <3>2, <3>3, <3>4, <3>5, <3>6, <3>7
              DEF ArlonInit
  <2>. QED  BY <1>2, <2>2, <2>3, <2>4
<1>4. AliasCommands => AliasAction
  <2>. SUFFICES ASSUME NEW p \in Procs,
                       AliasStep(p) \/ (p \in Users /\ Start(p))
                PROVE  AliasAction
    BY DEF AliasCommands
  <2>1. CASE Start(p)
    BY <2>1 DEF Start, AliasAction
  <2>. QED  BY <2>1 DEF AliasAction
<1>5. TemplateCommands \/ UserEdits => UNCHANGED aliasState
  BY DEF TemplateCommands, UserEdits
<1>6. UNCHANGED vars => UNCHANGED aliasState
  BY DEF vars, aliasVars
<1>7. AliasAction
  BY <1>2, <1>3, <1>4, <1>5, <1>6 DEF Next
<1>. QED  BY <1>1, <1>7, AliasNext

\* The faults, the commands and the pushes of users stay within their bounds.
LEMMA NextCounters ==
    ASSUME IndInv, [Next]_vars
    PROVE  Counters'
<1>1. Counters /\ MaxFaults \in Nat /\ MaxCommands \in Nat /\ MaxEdits \in Nat
  BY Parts, AliasAssumption, TemplateAssumption
<1>. DEFINE F == faults' = faults \/ (faults < MaxFaults /\ faults' = faults + 1)
            C == commands' = commands
                 \/ (commands < MaxCommands /\ commands' = commands + 1)
            E == edits' = edits \/ (edits < MaxEdits /\ edits' = edits + 1)
<1>2. UNCHANGED aliasVars => F /\ C
  BY DEF aliasVars
<1>3. UNCHANGED templateVars => E
  BY DEF templateVars
<1>4. UNCHANGED vars => F /\ C /\ E
  BY <1>2, <1>3 DEF vars
<1>5. ArlonInit => F /\ C /\ E
  <2>1. StartInit => F /\ C /\ E
    BY <1>3 DEF StartInit
  <2>2. RemoveRepoCtx => F /\ C /\ E
    BY <1>3 DEF RemoveRepoCtx, RemoveFile
  <2>3. RegisterDefault => F /\ C /\ E
    BY <1>3 DEF RegisterDefault, Register
  <2>4. RegisterReturned \/ ExamplesCleared \/ ManifestPushed => F /\ C /\ E
    BY <1>2, <1>3 DEF RegisterReturned, ExamplesCleared, ManifestPushed,
                      Returned
  <2>5. CheckExamples => F /\ C /\ E
    BY <1>2 DEF CheckExamples
  <2>6. PushManifests => F /\ C /\ E
    BY <1>2 DEF PushManifests
  <2>7. PrepareExample => F /\ C /\ E
    BY DEF PrepareExample, PrepareGit
  <2>8. ExamplePrepared => F /\ C /\ E
    BY <1>2, <1>3 DEF ExamplePrepared
  <2>9. InitFails => F /\ C /\ E
    BY <1>3 DEF InitFails
  <2>. HIDE DEF F, C, E
  <2>. QED  BY <2>1, <2>2, <2>3, <2>4, <2>5, <2>6, <2>7, <2>8, <2>9
            DEF ArlonInit
<1>6. AliasCommands => F /\ C /\ E
  <2>1. \A p \in Procs : AliasStep(p) => F /\ C
    BY DEF AliasStep, AddToArgoCd, TruncateFile, StoreRepoCfg, Killed
  <2>2. \A p \in Procs : Start(p) => F /\ C
    <3>. SUFFICES ASSUME NEW p \in Procs, Start(p)
                  PROVE  F /\ C
      OBVIOUS
    <3>1. C
      BY DEF Start
    <3>2. PICK a \in Aliases : Unregister(p, a) \/ \E u \in Urls : Register(p, a, u)
      BY DEF Start
    <3>3. F
      BY <3>2 DEF Register, Unregister
    <3>. QED  BY <3>1, <3>3
  <2>. HIDE DEF F, C, E
  <2>. QED  BY <1>3, <2>1, <2>2 DEF AliasCommands
<1>7. TemplateCommands => F /\ C /\ E
  <2>1. \A p \in Procs : TemplateStep(p) => F /\ C /\ E
    BY DEF TemplateStep, Push, PushFails
  <2>2. \A p \in Procs, path \in Paths : StartPrepareGit(p, path) => F /\ C /\ E
    <3>1. \A p, us, path : PrepareGit(p, us, path) => F /\ E
      BY DEF PrepareGit
    <3>2. \A p : CloneFails(p) => F /\ E
      BY DEF CloneFails
    <3>3. \A p, path : StartPrepareGit(p, path) => C
      BY DEF StartPrepareGit
    <3>. HIDE DEF F, C, E
    <3>. QED  BY <3>1, <3>2, <3>3 DEF StartPrepareGit
  <2>. HIDE DEF F, C, E
  <2>. QED  BY <2>1, <2>2 DEF TemplateCommands
<1>8. UserEdits => F /\ C /\ E
  BY DEF UserEdits, UserPushes
<1>9. F /\ C /\ E
  <2>. HIDE DEF F, C, E
  <2>. QED  BY <1>4, <1>5, <1>6, <1>7, <1>8 DEF Next
<1>10. \A n \in Nat : \A x \in 0..n : x < n => x + 1 \in 0..n
  OBVIOUS
<1>. QED  BY <1>1, <1>9, <1>10 DEF Counters

\* The commits of arlon init itself.
LEMMA InitCommit ==
    ASSUME TemplateTypes, TemplateInv, NEW p \in Procs, NEW u \in Urls,
           NEW tree \in Trees, repo' = repo, prepared' = prepared,
           job' = [job EXCEPT ![p] =
                     [step |-> "push", url |-> u, base |-> repo[u].rev,
                      tree |-> tree, path |-> NoPath]]
    PROVE  TemplateTypes' /\ TemplateInv'
<1>. DEFINE new == [step |-> "push", url |-> u, base |-> repo[u].rev,
                    tree |-> tree, path |-> NoPath]
<1>1. repo[u].rev \in Nat
  BY BranchFields DEF TemplateTypes
<1>2. new \in Jobs
  BY <1>1 DEF Jobs, Pushes
<1>3. new.url = u /\ new.base = repo[u].rev /\ new.path = NoPath
  OBVIOUS
<1>. HIDE DEF new
<1>4. job' = [job EXCEPT ![p] = new] /\ job'[p] = new
  BY DEF new, TemplateTypes
<1>5. PushInv(p)'
  <2>1. /\ job'[p].url = u /\ job'[p].base = repo'[u].rev
        /\ job'[p].path = NoPath /\ repo'[u].rev \in Nat
    BY <1>1, <1>3, <1>4
  <2>2. job'[p].base <= repo'[job'[p].url].rev
    BY <2>1
  <2>. QED  BY <2>1, <2>2, Zenon DEF PushInv
<1>6. PreparedValidates' /\ prepared' \in [Urls -> [Paths -> BOOLEAN]]
  BY PreparedKept DEF TemplateInv, TemplateTypes
<1>. QED  BY <1>2, <1>4, <1>5, <1>6, JobStep

\* The tree with the manifest of an example in it.
LEMMA WithManifest ==
    ASSUME NEW tree \in Trees, NEW d \in Paths
    PROVE  LET files == tree[d].files
               with == [f \in DOMAIN files \cup {ExampleFile} |->
                           IF f = ExampleFile THEN Generated ELSE files[f]]
               new == [tree EXCEPT ![d].files = with]
           IN  /\ new \in Trees
               /\ \A e \in Paths \ {d} : new[e] = tree[e]
<1>. DEFINE files == tree[d].files
            with == [f \in DOMAIN files \cup {ExampleFile} |->
                        IF f = ExampleFile THEN Generated ELSE files[f]]
            dir == [tree[d] EXCEPT !.files = with]
            new == [tree EXCEPT ![d] = dir]
<1>1. tree[d] \in Dirs
  BY DEF Trees
<1>2. PICK names \in SUBSET FileNames :
         tree[d] \in [subdir: BOOLEAN, kustomization: FileNames \cup {""},
                      configurations: BOOLEAN, files: [names -> Manifest]]
  BY <1>1, DirsFacts DEF IsDir
<1>3. files \in [names -> Manifest]
  BY <1>2
<1>4. with \in [names \cup {ExampleFile} -> Manifest]
  <2>. HIDE DEF files
  <2>. QED  BY <1>3, WorkspaceAssumption
<1>. HIDE DEF with
<1>5. dir \in [subdir: BOOLEAN, kustomization: FileNames \cup {""},
               configurations: BOOLEAN,
               files: [names \cup {ExampleFile} -> Manifest]]
  BY <1>2, <1>4
<1>6. names \cup {ExampleFile} \in SUBSET FileNames
  BY WorkspaceAssumption
<1>. HIDE DEF dir
<1>7. dir \in Dirs
  BY <1>5, <1>6, DirsFacts, Zenon DEF IsDir
<1>8. new \in Trees /\ \A e \in Paths \ {d} : new[e] = tree[e]
  BY <1>7 DEF Trees
<1>9. [tree EXCEPT ![d].files = with] = new
  BY DEF dir, Trees
<1>. QED  BY <1>8, <1>9 DEF with

LEMMA PrepareGitStep ==
    ASSUME TemplateTypes, TemplateInv, argoRepos \subseteq Urls,
           NEW p \in Procs, NEW us, NEW path \in Paths, PrepareGit(p, us, path)
    PROVE  TemplateTypes' /\ TemplateInv'
<1>1. repo' = repo
  BY DEF PrepareGit
<1>2. CASE job' = [job EXCEPT ![p] = Ended("failed")] /\ prepared' = prepared
  BY <1>1, <1>2, EndsJob
<1>3. ASSUME NEW u \in WithCreds(us), PrepareGitDir(p, u, path)
      PROVE  TemplateTypes' /\ TemplateInv'
  <2>1. u \in Urls
    BY DEF WithCreds
  <2>. QED  BY <1>1, <1>3, <2>1, PrepareGitDirStep
<1>. QED  BY <1>2, <1>3 DEF PrepareGit

\* Each step keeps the branches and the pushes consistent.
LEMMA NextTemplate ==
    ASSUME IndInv, [Next]_vars
    PROVE  TemplateTypes' /\ TemplateInv'
<1>1. /\ TemplateTypes /\ TemplateInv /\ argoRepos \subseteq Urls
      /\ init \in Runs /\ StepInv
  BY Parts DEF AliasState, RunTypes
<1>2. UNCHANGED templateVars => TemplateTypes' /\ TemplateInv'
  BY <1>1, TemplateKept DEF templateVars
<1>3. InitProc \in Procs
  BY WorkspaceAssumption
<1>4. init.next \in DOMAIN Examples /\ Examples[init.next] \in Paths
  BY <1>1, RunFields, ExampleFacts
<1>5. init.step \in {"check", "generate"} =>
         init.url \in Urls /\ repo[init.url].tree \in Trees
  <2>. SUFFICES ASSUME init.step \in {"check", "generate"}
                PROVE  init.url \in Urls /\ repo[init.url].tree \in Trees
    OBVIOUS
  <2>1. init.url \in Urls
    BY <1>1 DEF StepInv
  <2>2. repo[init.url] \in Branches
    BY <1>1, <2>1 DEF TemplateTypes
  <2>. QED  BY <2>1, <2>2, BranchFields
<1>6. CASE CheckExamples
  <2>. DEFINE tree == Cleared(repo[init.url].tree)
  <2>1. init.url \in Urls /\ repo[init.url].tree \in Trees
    BY <1>5, <1>6 DEF CheckExamples
  <2>2. /\ repo' = repo /\ prepared' = prepared
        /\ \/ job' = job
           \/ job' = [job EXCEPT ![InitProc] =
                 [step |-> "push", url |-> init.url,
                  base |-> repo[init.url].rev, tree |-> tree, path |-> NoPath]]
    BY <1>6 DEF CheckExamples
  <2>3. tree \in Trees
    <3>1. \A d \in Paths : repo[init.url].tree[d] \in Dirs
      BY <2>1 DEF Trees
    <3>. QED  BY <3>1, AbsentIsDir DEF Cleared, Trees
  <2>. HIDE DEF tree
  <2>4. CASE job' = job
    BY <1>1, <2>2, <2>4, TemplateKept
  <2>. QED  BY <1>1, <1>3, <2>1, <2>2, <2>3, <2>4, InitCommit
<1>7. CASE PushManifests
  <2>. DEFINE d == Examples[init.next]
              old == repo[init.url].tree
              files == old[d].files
              with == [f \in DOMAIN files \cup {ExampleFile} |->
                          IF f = ExampleFile THEN Generated ELSE files[f]]
              tree == [old EXCEPT ![d].files = with]
  <2>1. init.url \in Urls /\ old \in Trees /\ d \in Paths
    BY <1>4, <1>5, <1>7 DEF PushManifests
  <2>2. tree \in Trees
    <3>. HIDE DEF old, d
    <3>. QED  BY <2>1, WithManifest, Zenon
  <2>3. repo' = repo /\ CommitChanges(InitProc, init.url, tree, NoPath)
    BY <1>7 DEF PushManifests
  <2>. HIDE DEF tree
  <2>4. /\ prepared' = prepared
        /\ \/ job' = [job EXCEPT ![InitProc] = Ended("ok")]
           \/ job' = [job EXCEPT ![InitProc] =
                 [step |-> "push", url |-> init.url,
                  base |-> repo[init.url].rev, tree |-> tree, path |-> NoPath]]
    BY <2>3 DEF CommitChanges
  <2>5. CASE job' = [job EXCEPT ![InitProc] = Ended("ok")]
    BY <1>1, <1>3, <2>3, <2>4, <2>5, EndsJob
  <2>. QED  BY <1>1, <1>3, <2>1, <2>2, <2>3, <2>4, <2>5, InitCommit
<1>8. CASE PrepareExample
  BY <1>1, <1>3, <1>4, <1>8, PrepareGitStep DEF PrepareExample
<1>9. ASSUME ArlonInit, ~CheckExamples, ~PushManifests, ~PrepareExample
      PROVE  UNCHANGED templateVars
  <2>1. StartInit \/ RemoveRepoCtx \/ RegisterDefault => UNCHANGED templateVars
    BY DEF StartInit, RemoveRepoCtx, RegisterDefault
  <2>2. RegisterReturned \/ ExamplesCleared \/ ManifestPushed
           => UNCHANGED templateVars
    BY DEF RegisterReturned, ExamplesCleared, ManifestPushed, Returned
  <2>3. ExamplePrepared \/ InitFails => UNCHANGED templateVars
    BY DEF ExamplePrepared, InitFails
  <2>. QED  BY <1>9, <2>1, <2>2, <2>3 DEF ArlonInit
<1>10. CASE TemplateCommands
  <2>1. PICK p \in Procs :
           \/ TemplateStep(p)
           \/ \E path \in Paths : StartPrepareGit(p, path)
    BY <1>10 DEF TemplateCommands
  <2>2. CASE TemplateStep(p)
    BY <1>1, <2>2, PushStep
  <2>3. ASSUME NEW path \in Paths, StartPrepareGit(p, path)
        PROVE  TemplateTypes' /\ TemplateInv'
    <3>1. \A us : PrepareGit(p, us, path) => TemplateTypes' /\ TemplateInv'
      BY <1>1, PrepareGitStep
    <3>2. CASE CloneFails(p)
      BY <1>1, <3>2, EndsJob DEF CloneFails
    <3>. QED  BY <2>3, <3>1, <3>2 DEF StartPrepareGit
  <2>. QED  BY <2>1, <2>2, <2>3
<1>11. CASE UserEdits
  BY <1>1, <1>11, UserPushesStep DEF UserEdits
<1>12. AliasCommands => UNCHANGED templateVars
  BY DEF AliasCommands
<1>13. UNCHANGED vars => UNCHANGED templateVars
  BY DEF vars
<1>. QED  BY <1>2, <1>6, <1>7, <1>8, <1>9, <1>10, <1>11, <1>12, <1>13 DEF Next

----------------------------------------------------------------------------
(* The run of arlon init *)

Steps == {"off", "remove", "register", "registering", "check", "clearing",
          "generate", "pushing", "prepare", "preparing", "done", "declined",
          "failed"}
Early == {"off", "remove", "register", "registering", "check", "clearing"}

\* A run that gets to another step, of the same example.
LEMMA Moves ==
    ASSUME init \in Runs, StepInv, NEW s \in Steps, init.step # "off",
           s \in Early => init.step \in Early,
           init' = [init EXCEPT !.step = s]
    PROVE  init' \in Runs /\ StepInv'
<1>1. init' \in Runs /\ init'.step = s /\ init'.url = init.url
      /\ init'.next = init.next
  BY DEF Runs, Steps
<1>2. init.url \in Urls /\ (init.step \in Early => init.next = 1)
  BY DEF StepInv, Early
<1>. QED  BY <1>1, <1>2 DEF StepInv, Early

LEMMA NextRun ==
    ASSUME IndInv, [Next]_vars
    PROVE  RunTypes' /\ StepInv'
<1>1. /\ init \in Runs /\ strayed \in BOOLEAN /\ meddled \subseteq Paths
      /\ StepInv
  BY Parts DEF RunTypes
<1>. DEFINE Good == RunTypes' /\ StepInv'
<1>. SUFFICES Good
  OBVIOUS
<1>2. CASE UNCHANGED initVars
  BY <1>1, <1>2 DEF initVars, RunTypes, StepInv
<1>3. CASE StartInit
  <2>1. PICK u \in Urls : init' = [step |-> "remove", url |-> u, next |-> 1]
    BY <1>3 DEF StartInit
  <2>2. init' \in Runs /\ init'.url = u /\ init'.next = 1
    BY <2>1, ExampleFacts DEF Runs
  <2>. QED  BY <1>3, <2>2 DEF StartInit, RunTypes, StepInv
<1>4. ASSUME NEW s \in Steps, init.step # "off",
             s \in Early => init.step \in Early,
             init' = [init EXCEPT !.step = s],
             strayed' \in BOOLEAN, meddled' = meddled
      PROVE  Good
  BY <1>1, <1>4, Moves DEF RunTypes
<1>. HIDE DEF Good
<1>5. CASE RemoveRepoCtx
  <2>. DEFINE s == "register"
  <2>1. s \in Steps /\ init.step # "off" /\ init.step \in Early
    BY <1>5 DEF RemoveRepoCtx, Steps, Early
  <2>2. init' = [init EXCEPT !.step = s] /\ strayed' = strayed /\ meddled' = meddled
    BY <1>5 DEF RemoveRepoCtx
  <2>. HIDE DEF s
  <2>. QED  BY <1>1, <1>4, <2>1, <2>2
<1>6. CASE RegisterDefault
  <2>. DEFINE s == "registering"
  <2>1. s \in Steps /\ init.step # "off" /\ init.step \in Early
    BY <1>6 DEF RegisterDefault, Steps, Early
  <2>2. init' = [init EXCEPT !.step = s] /\ strayed' = strayed /\ meddled' = meddled
    BY <1>6 DEF RegisterDefault
  <2>. HIDE DEF s
  <2>. QED  BY <1>1, <1>4, <2>1, <2>2
<1>7. CASE RegisterReturned
  <2>. DEFINE s == IF cmd[InitProc].step = "ok" THEN "check" ELSE "failed"
  <2>1. s \in Steps /\ init.step # "off" /\ init.step \in Early
    BY <1>7 DEF RegisterReturned, Returned, Steps, Early
  <2>2. init' = [init EXCEPT !.step = s] /\ strayed' = strayed /\ meddled' = meddled
    BY <1>7 DEF RegisterReturned, Returned
  <2>. HIDE DEF s
  <2>. QED  BY <1>1, <1>4, <2>1, <2>2
<1>8. CASE CheckExamples
  <2>1. PICK s \in {"declined", "clearing"} : init' = [init EXCEPT !.step = s]
    BY <1>8 DEF CheckExamples
  <2>2. s \in Steps /\ init.step # "off" /\ init.step \in Early
    BY <1>8 DEF CheckExamples, Steps, Early
  <2>3. strayed' = strayed /\ meddled' = meddled
    BY <1>8 DEF CheckExamples
  <2>. QED  BY <1>1, <1>4, <2>1, <2>2, <2>3
<1>9. CASE ExamplesCleared
  <2>. DEFINE s == IF job[InitProc].step = "ok" THEN "generate" ELSE "failed"
  <2>1. s \in Steps /\ init.step # "off" /\ s \notin Early
    BY <1>9 DEF ExamplesCleared, Returned, Steps, Early
  <2>2. init' = [init EXCEPT !.step = s] /\ strayed' = strayed /\ meddled' = meddled
    BY <1>9 DEF ExamplesCleared, Returned
  <2>. HIDE DEF s
  <2>. QED  BY <1>1, <1>4, <2>1, <2>2
<1>10. CASE PushManifests
  <2>. DEFINE s == "pushing"
  <2>1. s \in Steps /\ init.step # "off" /\ s \notin Early
    BY <1>10 DEF PushManifests, Steps, Early
  <2>2. init' = [init EXCEPT !.step = s] /\ strayed' = strayed /\ meddled' = meddled
    BY <1>10 DEF PushManifests
  <2>. HIDE DEF s
  <2>. QED  BY <1>1, <1>4, <2>1, <2>2
<1>11. CASE ManifestPushed
  <2>. DEFINE s == IF job[InitProc].step = "ok" THEN "prepare" ELSE "failed"
  <2>1. s \in Steps /\ init.step # "off" /\ s \notin Early
    BY <1>11 DEF ManifestPushed, Returned, Steps, Early
  <2>2. init' = [init EXCEPT !.step = s] /\ strayed' = strayed /\ meddled' = meddled
    BY <1>11 DEF ManifestPushed, Returned
  <2>. HIDE DEF s
  <2>. QED  BY <1>1, <1>4, <2>1, <2>2
<1>12. CASE PrepareExample
  <2>. DEFINE s == "preparing"
  <2>1. s \in Steps /\ init.step # "off" /\ s \notin Early
    BY <1>12 DEF PrepareExample, Steps, Early
  <2>2. /\ init' = [init EXCEPT !.step = s] /\ meddled' = meddled
        /\ strayed' = (strayed \/ GetRepoUrl(file.contents, Default) # {init.url})
    BY <1>12 DEF PrepareExample
  <2>3. strayed' \in BOOLEAN
    BY <2>2
  <2>. HIDE DEF s
  <2>. QED  BY <1>4, <2>1, <2>2, <2>3
<1>13. CASE ExamplePrepared
  <2>1. init.step = "preparing" /\ strayed' = strayed /\ meddled' = meddled
    BY <1>13 DEF ExamplePrepared
  <2>2. \/ init' = [init EXCEPT !.step = "failed"]
        \/ init' = [init EXCEPT !.step = "done"]
        \/ /\ init.next # Len(Examples)
           /\ init' = [init EXCEPT !.step = "generate", !.next = @ + 1]
    BY <1>13 DEF ExamplePrepared
  <2>3. ASSUME NEW s \in {"failed", "done"}, init' = [init EXCEPT !.step = s]
        PROVE  Good
    <3>1. s \in Steps /\ s \notin Early /\ init.step # "off"
      BY <2>1 DEF Steps, Early
    <3>. QED  BY <1>1, <1>4, <2>1, <2>3, <3>1
  <2>4. CASE /\ init.next # Len(Examples)
             /\ init' = [init EXCEPT !.step = "generate", !.next = @ + 1]
    <3>1. init.next + 1 \in DOMAIN Examples
      BY <1>1, <2>4, RunFields, ExampleFacts
    <3>2. init' \in Runs /\ init'.step = "generate" /\ init'.url = init.url
      BY <1>1, <2>4, <3>1 DEF Runs
    <3>3. init.url \in Urls
      BY <1>1, <2>1 DEF StepInv
    <3>. QED  BY <1>1, <2>1, <3>2, <3>3 DEF Good, RunTypes, StepInv
  <2>. QED  BY <2>2, <2>3, <2>4
<1>14. CASE InitFails
  <2>. DEFINE s == "failed"
  <2>1. s \in Steps /\ init.step # "off" /\ s \notin Early
    BY <1>14 DEF InitFails, Steps, Early
  <2>2. init' = [init EXCEPT !.step = s] /\ strayed' = strayed /\ meddled' = meddled
    BY <1>14 DEF InitFails
  <2>. HIDE DEF s
  <2>. QED  BY <1>1, <1>4, <2>1, <2>2
<1>15. ArlonInit => Good
  BY <1>3, <1>5, <1>6, <1>7, <1>8, <1>9, <1>10, <1>11, <1>12, <1>13, <1>14
     DEF ArlonInit, Good
<1>16. CASE UserEdits
  <2>1. init' = init /\ strayed' = strayed
    BY <1>16 DEF UserEdits
  <2>2. meddled' \subseteq Paths
    BY <1>1, <1>16 DEF UserEdits
  <2>. QED  BY <1>1, <2>1, <2>2 DEF Good, RunTypes, StepInv
<1>17. AliasCommands \/ TemplateCommands \/ UNCHANGED vars => UNCHANGED initVars
  BY DEF AliasCommands, TemplateCommands, vars
<1>. QED  BY <1>2, <1>15, <1>16, <1>17 DEF Next

\* The job that preparegit leaves: a push for the directory, or the end of
\* the command, with success only if the directory was in order.
LEMMA PrepareGitJob ==
    ASSUME TemplateTypes, argoRepos \subseteq Urls, NEW p \in Procs, NEW us,
           NEW path \in Paths, PrepareGit(p, us, path)
    PROVE  \E new :
              /\ job' = [job EXCEPT ![p] = new]
              /\ new.step = "push" => new.path = path /\ new.url \in us
              /\ new.step = "ok" =>
                    \E u \in us : ValidateDir(repo[u].tree[path])
<1>1. CASE job' = [job EXCEPT ![p] = Ended("failed")]
  <2>1. Ended("failed").step = "failed"
    BY EndedCommands
  <2>. QED  BY <1>1, <2>1
<1>2. ASSUME NEW u \in WithCreds(us), PrepareGitDir(p, u, path),
             job' # [job EXCEPT ![p] = Ended("failed")]
      PROVE  \E new :
                /\ job' = [job EXCEPT ![p] = new]
                /\ new.step = "push" => new.path = path /\ new.url \in us
                /\ new.step = "ok" =>
                      \E v \in us : ValidateDir(repo[v].tree[path])
  <2>. DEFINE d == repo[u].tree[path]
  <2>1. u \in Urls /\ u \in us
    BY DEF WithCreds
  <2>2. d \in Dirs
    BY <2>1, BranchFields DEF TemplateTypes
  <2>3. CASE /\ ~PrepareDirFails(d) /\ PrepareDir(d) = d
             /\ job' = [job EXCEPT ![p] = Ended("ok")]
    <3>1. ValidateDir(d)
      BY <2>2, <2>3, PrepareFacts, DirsFacts
    <3>2. Ended("ok").step = "ok"
      BY EndedCommands
    <3>. QED  BY <2>1, <2>3, <3>1, <3>2
  <2>4. CASE job' = [job EXCEPT ![p] =
                 [step |-> "push", url |-> u, base |-> repo[u].rev,
                  tree |-> [repo[u].tree EXCEPT ![path] = PrepareDir(d)],
                  path |-> path]]
    <3>. DEFINE new == [step |-> "push", url |-> u, base |-> repo[u].rev,
                  tree |-> [repo[u].tree EXCEPT ![path] = PrepareDir(d)],
                  path |-> path]
    <3>1. new.step = "push" /\ new.path = path /\ new.url = u
      OBVIOUS
    <3>2. job' = [job EXCEPT ![p] = new]
      BY <2>4
    <3>. HIDE DEF new
    <3>. QED  BY <2>1, <3>1, <3>2
  <2>. QED  BY <1>2, <2>1, <2>3, <2>4, PrepareGitDirCases
<1>. QED  BY <1>1, <1>2 DEF PrepareGit

\* Users prepare directories, they have no other push in progress.
LEMMA NextUserJobs ==
    ASSUME IndInv, [Next]_vars
    PROVE  UserJobInv'
<1>1. /\ TemplateTypes /\ UserJobInv /\ argoRepos \subseteq Urls
      /\ init \in Runs
  BY Parts DEF AliasState, RunTypes
<1>2. InitProc \in Procs /\ InitProc \notin Users /\ Users \subseteq Procs
  BY WorkspaceAssumption DEF Users
<1>3. (\A p \in Users : job'[p] = job[p]) => UserJobInv'
  BY <1>1 DEF UserJobInv
<1>4. UNCHANGED templateVars => UserJobInv'
  BY <1>3 DEF templateVars
<1>5. \A new : job' = [job EXCEPT ![InitProc] = new] => UserJobInv'
  BY <1>1, <1>2, <1>3 DEF TemplateTypes
<1>6. ArlonInit => UserJobInv'
  <2>1. StartInit \/ RemoveRepoCtx \/ RegisterDefault => UserJobInv'
    BY <1>4 DEF StartInit, RemoveRepoCtx, RegisterDefault
  <2>2. RegisterReturned \/ ExamplesCleared \/ ManifestPushed => UserJobInv'
    BY <1>4 DEF RegisterReturned, ExamplesCleared, ManifestPushed, Returned
  <2>3. ExamplePrepared \/ InitFails => UserJobInv'
    BY <1>4 DEF ExamplePrepared, InitFails
  <2>4. CheckExamples => UserJobInv'
    <3>1. job' = job => UserJobInv'
      BY <1>3
    <3>. QED  BY <1>5, <3>1 DEF CheckExamples
  <2>5. PushManifests => UserJobInv'
    BY <1>5 DEF PushManifests, CommitChanges
  <2>6. ASSUME PrepareExample
        PROVE  UserJobInv'
    <3>1. Examples[init.next] \in Paths
      BY <1>1, RunFields, ExampleFacts
    <3>. QED  BY <1>1, <1>2, <1>5, <2>6, <3>1, PrepareGitJob
              DEF PrepareExample
  <2>. QED  BY <2>1, <2>2, <2>3, <2>4, <2>5, <2>6 DEF ArlonInit
<1>7. CASE TemplateCommands
  <2>1. PICK p \in Procs :
           \/ TemplateStep(p)
           \/ p \in Users /\ \E path \in Paths : StartPrepareGit(p, path)
    BY <1>7 DEF TemplateCommands
  <2>2. ASSUME NEW new, job' = [job EXCEPT ![p] = new],
               new.step = "push" => new.path # NoPath
        PROVE  UserJobInv'
    BY <1>1, <1>2, <2>2 DEF TemplateTypes, UserJobInv
  <2>3. \A outcome \in {"ok", "failed"} :
           job' = [job EXCEPT ![p] = Ended(outcome)] => UserJobInv'
    BY <2>2, EndedCommands
  <2>4. CASE TemplateStep(p)
    BY <1>1, <2>3, <2>4, PushCases
  <2>5. ASSUME NEW path \in Paths, StartPrepareGit(p, path)
        PROVE  UserJobInv'
    <3>1. path # NoPath
      BY PathAssumption
    <3>2. ASSUME NEW us, PrepareGit(p, us, path)
          PROVE  UserJobInv'
      BY <1>1, <2>2, <3>1, <3>2, PrepareGitJob
    <3>3. CASE CloneFails(p)
      BY <2>3, <3>3 DEF CloneFails
    <3>. QED  BY <2>5, <3>2, <3>3 DEF StartPrepareGit
  <2>. QED  BY <2>1, <2>4, <2>5
<1>8. UserEdits => UserJobInv'
  BY <1>3 DEF UserEdits, UserPushes
<1>9. AliasCommands \/ UNCHANGED vars => UserJobInv'
  BY <1>4 DEF AliasCommands, vars
<1>. QED  BY <1>6, <1>7, <1>8, <1>9 DEF Next

\* The push of arlon init stays the one of the step it is in.
LEMMA InitJobKept ==
    ASSUME TemplateTypes, PushInv(InitProc), InitJobInv,
           job'[InitProc] = job[InitProc], init' = init, strayed' = strayed,
           \A u \in Urls : \/ repo'[u] = repo[u]
                           \/ repo'[u].rev \in Nat /\ repo[u].rev < repo'[u].rev
    PROVE  InitJobInv'
<1>. DEFINE j == job[InitProc]
<1>. SUFFICES ASSUME job'[InitProc].step = "push"
              PROVE  InitJobInv'
  BY DEF InitJobInv
<1>1. j \in Pushes
  BY JobSteps, WorkspaceAssumption DEF TemplateTypes
<1>2. j.url \in Urls /\ j.base \in Nat
  BY <1>1, PushFields
<1>3. repo[j.url].rev \in Nat
  BY <1>2, BranchFields DEF TemplateTypes
<1>4. j.base <= repo[j.url].rev
  BY DEF PushInv
<1>5. repo'[j.url] = repo[j.url] \/ j.base # repo'[j.url].rev
  BY <1>2, <1>3, <1>4
<1>6. \/ init.step = "clearing" /\ j.url = init.url /\ j.path = NoPath
      \/ /\ init.step = "pushing" /\ j.url = init.url /\ j.path = NoPath
         /\ j.base = repo[j.url].rev =>
               \A d \in Paths \ {Examples[init.next]} :
                  j.tree[d] = repo[j.url].tree[d]
      \/ /\ init.step = "preparing" /\ (~strayed => j.url = init.url)
         /\ j.path = Examples[init.next]
  BY DEF InitJobInv
<1>7. job'[InitProc] = j
  OBVIOUS
<1>. HIDE DEF j
<1>. QED  BY <1>5, <1>6, <1>7 DEF InitJobInv

LEMMA NextInitJob ==
    ASSUME IndInv, [Next]_vars
    PROVE  InitJobInv'
<1>1. /\ TemplateTypes /\ InitJobInv /\ argoRepos \subseteq Urls
      /\ init \in Runs /\ StepInv /\ InitProc \in Procs
      /\ PushInv(InitProc) /\ TemplateInv
  BY Parts, WorkspaceAssumption DEF AliasState, RunTypes, TemplateInv
<1>2. job'[InitProc].step # "push" => InitJobInv'
  BY DEF InitJobInv
<1>3. /\ job' = job
      /\ \/ init.step \notin {"clearing", "pushing", "preparing"}
         \/ job[InitProc].step \in {"ok", "failed"}
      => InitJobInv'
  <2>1. /\ \/ init.step \notin {"clearing", "pushing", "preparing"}
           \/ job[InitProc].step \in {"ok", "failed"}
        => job[InitProc].step # "push"
    BY <1>1 DEF InitJobInv
  <2>. QED  BY <1>2, <2>1
<1>4. ASSUME NEW new, job' = [job EXCEPT ![InitProc] = new]
      PROVE  job'[InitProc] = new
  BY <1>1, <1>4 DEF TemplateTypes
<1>5. (UNCHANGED templateVars) /\ (UNCHANGED initVars) => InitJobInv'
  BY <1>1, InitJobKept DEF templateVars, initVars
<1>6. UNCHANGED templateVars => job' = job
  BY DEF templateVars
<1>7. ArlonInit => InitJobInv'
  <2>1. StartInit => InitJobInv'
    BY <1>3, <1>6 DEF StartInit, InitEnded
  <2>2. RemoveRepoCtx \/ RegisterDefault => InitJobInv'
    BY <1>3, <1>6 DEF RemoveRepoCtx, RegisterDefault
  <2>3. RegisterReturned \/ ExamplesCleared \/ ManifestPushed => InitJobInv'
    BY <1>3, <1>6 DEF RegisterReturned, ExamplesCleared, ManifestPushed,
                      Returned
  <2>4. ExamplePrepared \/ InitFails => InitJobInv'
    BY <1>3, <1>6 DEF ExamplePrepared, InitFails
  <2>5. ASSUME CheckExamples
        PROVE  InitJobInv'
    <3>1. CASE job' = job
      BY <1>3, <2>5, <3>1 DEF CheckExamples
    <3>. DEFINE new == [step |-> "push", url |-> init.url,
                        base |-> repo[init.url].rev,
                        tree |-> Cleared(repo[init.url].tree), path |-> NoPath]
    <3>2. CASE job' = [job EXCEPT ![InitProc] = new]
                /\ init' = [init EXCEPT !.step = "clearing"]
      <4>1. new.url = init.url /\ new.path = NoPath
        OBVIOUS
      <4>. HIDE DEF new
      <4>2. job'[InitProc] = new
        BY <1>4, <3>2
      <4>3. init'.step = "clearing" /\ init'.url = init.url
        BY <1>1, <3>2, RunFields
      <4>. QED  BY <4>1, <4>2, <4>3 DEF InitJobInv
    <3>. QED  BY <2>5, <3>1, <3>2 DEF CheckExamples
  <2>6. ASSUME PushManifests
        PROVE  InitJobInv'
    <3>. DEFINE d == Examples[init.next]
                old == repo[init.url].tree
                files == old[d].files
                with == [f \in DOMAIN files \cup {ExampleFile} |->
                            IF f = ExampleFile THEN Generated ELSE files[f]]
                tree == [old EXCEPT ![d].files = with]
    <3>1. init.url \in Urls /\ d \in Paths
      BY <1>1, <2>6, RunFields, ExampleFacts DEF PushManifests, StepInv
    <3>2. old \in Trees
      BY <1>1, <3>1, BranchFields DEF TemplateTypes
    <3>3. \A e \in Paths \ {d} : tree[e] = old[e]
      <4>. HIDE DEF old, d
      <4>. QED  BY <3>1, <3>2, WithManifest, Zenon
    <3>4. /\ CommitChanges(InitProc, init.url, tree, NoPath)
          /\ init' = [init EXCEPT !.step = "pushing"] /\ repo' = repo
      BY <2>6 DEF PushManifests
    <3>. HIDE DEF tree
    <3>. DEFINE new == [step |-> "push", url |-> init.url,
                        base |-> repo[init.url].rev, tree |-> tree,
                        path |-> NoPath]
    <3>5. \/ job' = [job EXCEPT ![InitProc] = Ended("ok")]
          \/ job' = [job EXCEPT ![InitProc] = new]
      BY <3>4 DEF CommitChanges
    <3>6. CASE job' = [job EXCEPT ![InitProc] = Ended("ok")]
      BY <1>2, <1>4, <3>6, EndedCommands
    <3>7. CASE job' = [job EXCEPT ![InitProc] = new]
      <4>1. new.url = init.url /\ new.path = NoPath /\ new.tree = tree
        OBVIOUS
      <4>. HIDE DEF new
      <4>2. job'[InitProc] = new
        BY <1>4, <3>7
      <4>3. /\ init'.step = "pushing" /\ init'.url = init.url
            /\ init'.next = init.next
        BY <1>1, <3>4, RunFields
      <4>4. \A e \in Paths \ {Examples[init.next]} :
               new.tree[e] = repo[new.url].tree[e]
        BY <3>3, <4>1
      <4>. QED  BY <3>4, <4>1, <4>2, <4>3, <4>4 DEF InitJobInv
    <3>. QED  BY <3>5, <3>6, <3>7
  <2>7. ASSUME PrepareExample
        PROVE  InitJobInv'
    <3>. DEFINE us == GetRepoUrl(file.contents, Default)
                path == Examples[init.next]
    <3>1. /\ PrepareGit(InitProc, us, path)
          /\ init' = [init EXCEPT !.step = "preparing"]
          /\ strayed' = (strayed \/ us # {init.url})
      BY <2>7 DEF PrepareExample
    <3>2. path \in Paths
      BY <1>1, RunFields, ExampleFacts
    <3>. HIDE DEF us, path
    <3>3. PICK new :
             /\ job' = [job EXCEPT ![InitProc] = new]
             /\ new.step = "push" => new.path = path /\ new.url \in us
      BY <1>1, <3>1, <3>2, PrepareGitJob
    <3>4. job'[InitProc] = new
      BY <1>4, <3>3
    <3>5. /\ init'.step = "preparing" /\ init'.url = init.url
          /\ init'.next = init.next
      BY <1>1, <3>1, RunFields
    <3>. QED  BY <3>1, <3>3, <3>4, <3>5 DEF InitJobInv, path
  <2>. QED  BY <2>1, <2>2, <2>3, <2>4, <2>5, <2>6, <2>7 DEF ArlonInit
<1>8. CASE TemplateCommands
  <2>1. UNCHANGED initVars
    BY <1>8 DEF TemplateCommands
  <2>2. init' = init /\ strayed' = strayed
    BY <2>1 DEF initVars
  <2>3. PICK p \in Procs :
           \/ TemplateStep(p)
           \/ p \in Users /\ \E path \in Paths : StartPrepareGit(p, path)
    BY <1>8 DEF TemplateCommands
  <2>4. CASE TemplateStep(p)
    <3>1. PICK outcome \in {"ok", "failed"} :
             /\ job[p].step = "push"
             /\ job' = [job EXCEPT ![p] = Ended(outcome)]
             /\ \/ UNCHANGED <<repo, prepared>>
                \/ Lands(p)
      BY <1>1, <2>4, PushCases
    <3>2. CASE p = InitProc
      <4>1. job'[InitProc] = Ended(outcome)
        BY <1>4, <3>1, <3>2
      <4>2. Ended(outcome).step # "push"
        BY EndedCommands
      <4>. QED  BY <1>2, <4>1, <4>2
    <3>3. CASE p # InitProc
      <4>1. job'[InitProc] = job[InitProc]
        BY <1>1, <3>1, <3>3 DEF TemplateTypes
      <4>2. \A u \in Urls : \/ repo'[u] = repo[u]
                            \/ repo'[u].rev \in Nat /\ repo[u].rev < repo'[u].rev
        <5>1. CASE repo' = repo
          BY <5>1
        <5>2. CASE Lands(p)
          <6>. DEFINE v == job[p].url
          <6>1. /\ \A u \in Urls : u # v => repo'[u] = repo[u]
                /\ repo'[v].rev = repo[v].rev + 1 /\ repo[v].rev \in Nat
            <7>1. job[p].step = "push"
              BY <3>1
            <7>. QED  BY <1>1, <5>2, <7>1, LandsFacts, Zenon
          <6>. HIDE DEF v
          <6>2. repo'[v].rev \in Nat /\ repo[v].rev < repo'[v].rev
            BY <6>1
          <6>. QED  BY <6>1, <6>2
        <5>. QED  BY <3>1, <5>1, <5>2
      <4>. QED  BY <1>1, <2>2, <4>1, <4>2, InitJobKept
    <3>. QED  BY <3>2, <3>3
  <2>5. ASSUME NEW path \in Paths, StartPrepareGit(p, path), p \in Users
        PROVE  InitJobInv'
    <3>1. p # InitProc
      BY <2>5 DEF Users
    <3>2. \A new : job' = [job EXCEPT ![p] = new] =>
                      job'[InitProc] = job[InitProc]
      BY <1>1, <3>1 DEF TemplateTypes
    <3>3. repo' = repo /\ job'[InitProc] = job[InitProc]
      <4>1. \A us : PrepareGit(p, us, path) =>
               repo' = repo /\ job'[InitProc] = job[InitProc]
        <5>1. \A us : PrepareGit(p, us, path) => repo' = repo
          BY DEF PrepareGit
        <5>. QED  BY <1>1, <3>2, <5>1, PrepareGitJob
      <4>2. CloneFails(p) => repo' = repo /\ job'[InitProc] = job[InitProc]
        BY <3>2 DEF CloneFails
      <4>. QED  BY <2>5, <4>1, <4>2 DEF StartPrepareGit
    <3>. QED  BY <1>1, <2>2, <3>3, InitJobKept
  <2>. QED  BY <2>3, <2>4, <2>5
<1>9. CASE UserEdits
  <2>1. init' = init /\ strayed' = strayed
    BY <1>9 DEF UserEdits
  <2>2. PICK u \in Urls, path \in Paths : UserPushes(u, path)
    BY <1>9 DEF UserEdits
  <2>3. /\ job' = job
        /\ \A v \in Urls : \/ repo'[v] = repo[v]
                           \/ repo'[v].rev \in Nat /\ repo[v].rev < repo'[v].rev
    BY <1>1, <2>2, UserPushesFacts
  <2>. QED  BY <1>1, <2>1, <2>3, InitJobKept
<1>10. AliasCommands \/ UNCHANGED vars => InitJobInv'
  BY <1>5 DEF AliasCommands, vars
<1>. QED  BY <1>7, <1>8, <1>9, <1>10 DEF Next

----------------------------------------------------------------------------
(* The examples that arlon init has prepared *)

LEMMA BehindFacts ==
    /\ \A d : d \in Behind <=> \E i \in DOMAIN Examples :
                 /\ d = Examples[i]
                 /\ \/ init.step = "done" \/ i < init.next
                    \/ /\ i = init.next /\ init.step = "preparing"
                       /\ job[InitProc].step = "ok"
    /\ \A d : d \in Behind' <=> \E i \in DOMAIN Examples :
                 /\ d = Examples[i]
                 /\ \/ init'.step = "done" \/ i < init'.next
                    \/ /\ i = init'.next /\ init'.step = "preparing"
                       /\ job'[InitProc].step = "ok"
    /\ Behind \subseteq Paths
<1>1. \A d : d \in Behind <=> \E i \in DOMAIN Examples :
                 /\ d = Examples[i]
                 /\ \/ init.step = "done" \/ i < init.next
                    \/ /\ i = init.next /\ init.step = "preparing"
                       /\ job[InitProc].step = "ok"
  BY DEF Behind
<1>2. \A d : d \in Behind' <=> \E i \in DOMAIN Examples :
                 /\ d = Examples[i]
                 /\ \/ init'.step = "done" \/ i < init'.next
                    \/ /\ i = init'.next /\ init'.step = "preparing"
                       /\ job'[InitProc].step = "ok"
  BY DEF Behind
<1>3. Behind \subseteq Paths
  BY <1>1, ExampleFacts
<1>. QED  BY <1>1, <1>2, <1>3

\* A step that neither pushes nor prepares another example.
LEMMA BehindKept ==
    ASSUME BehindReady, repo' = repo, Behind' \subseteq Behind,
           init'.url = init.url, ~strayed' => ~strayed, meddled' = meddled
    PROVE  BehindReady'
<1>. SUFFICES ASSUME ~strayed', NEW d \in Behind' \ meddled'
              PROVE  ValidateDir(repo'[init'.url].tree[d])
  BY DEF BehindReady
<1>1. d \in Behind \ meddled /\ ~strayed
  OBVIOUS
<1>2. ValidateDir(repo[init.url].tree[d])
  BY <1>1 DEF BehindReady
<1>. QED  BY <1>2

\* While arlon init stays where it is, so do the examples it has prepared.
LEMMA BehindSame ==
    ASSUME init' = init, job'[InitProc] = job[InitProc]
    PROVE  Behind' = Behind
BY DEF Behind

\* And when it gets to a step in which it prepares nothing.
LEMMA BehindShrinks ==
    ASSUME init'.next = init.next, init'.step \notin {"done", "preparing"}
    PROVE  Behind' \subseteq Behind
BY BehindFacts

LEMMA NextBehind ==
    ASSUME IndInv, [Next]_vars
    PROVE  BehindReady'
<1>1. /\ TemplateTypes /\ InitJobInv /\ argoRepos \subseteq Urls
      /\ init \in Runs /\ StepInv /\ InitProc \in Procs
      /\ TemplateInv /\ UserJobInv /\ BehindReady
  BY Parts, WorkspaceAssumption DEF AliasState, RunTypes
<1>2. ASSUME NEW new, job' = [job EXCEPT ![InitProc] = new]
      PROVE  job'[InitProc] = new
  BY <1>1, <1>2 DEF TemplateTypes
<1>3. UNCHANGED templateVars => repo' = repo /\ job' = job
  BY DEF templateVars
<1>4. init.next \in DOMAIN Examples /\ Examples[init.next] \in Paths
      /\ init.next \in Nat
  BY <1>1, RunFields, ExampleFacts
<1>5. ASSUME NEW s, init' = [init EXCEPT !.step = s],
             s \notin {"done", "preparing"}, repo' = repo,
             strayed' = strayed, meddled' = meddled
      PROVE  BehindReady'
  <2>1. init'.step = s /\ init'.next = init.next /\ init'.url = init.url
    BY <1>1, <1>5, RunFields
  <2>2. Behind' \subseteq Behind
    BY <1>5, <2>1, BehindShrinks
  <2>. QED  BY <1>1, <1>5, <2>1, <2>2, BehindKept
<1>6. CASE StartInit
  <2>1. init'.step = "remove" /\ init'.next = 1
    BY <1>6 DEF StartInit
  <2>2. \A i \in DOMAIN Examples : ~(i < 1)
    BY ExampleFacts
  <2>3. Behind' = {}
    BY <2>1, <2>2, BehindFacts
  <2>. QED  BY <2>3 DEF BehindReady
<1>7. CASE RemoveRepoCtx
  BY <1>3, <1>5, <1>7 DEF RemoveRepoCtx
<1>8. CASE RegisterDefault
  BY <1>3, <1>5, <1>8 DEF RegisterDefault
<1>9. CASE RegisterReturned \/ ExamplesCleared \/ ManifestPushed
  <2>1. repo' = repo /\ strayed' = strayed /\ meddled' = meddled
    BY <1>3, <1>9 DEF RegisterReturned, ExamplesCleared, ManifestPushed,
                      Returned
  <2>2. \E s \in {"check", "generate", "prepare", "failed"} :
           init' = [init EXCEPT !.step = s]
    BY <1>9 DEF RegisterReturned, ExamplesCleared, ManifestPushed, Returned
  <2>. QED  BY <1>5, <2>1, <2>2
<1>10. CASE CheckExamples
  <2>1. repo' = repo /\ strayed' = strayed /\ meddled' = meddled
    BY <1>10 DEF CheckExamples
  <2>2. \E s \in {"declined", "clearing"} : init' = [init EXCEPT !.step = s]
    BY <1>10 DEF CheckExamples
  <2>. QED  BY <1>5, <2>1, <2>2
<1>11. CASE PushManifests
  <2>1. repo' = repo /\ strayed' = strayed /\ meddled' = meddled
    BY <1>11 DEF PushManifests
  <2>2. init' = [init EXCEPT !.step = "pushing"]
    BY <1>11 DEF PushManifests
  <2>. QED  BY <1>5, <2>1, <2>2
<1>12. CASE InitFails
  <2>1. repo' = repo /\ strayed' = strayed /\ meddled' = meddled
    BY <1>3, <1>12 DEF InitFails
  <2>2. init' = [init EXCEPT !.step = "failed"]
    BY <1>12 DEF InitFails
  <2>. QED  BY <1>5, <2>1, <2>2
<1>13. CASE PrepareExample
  <2>. DEFINE us == GetRepoUrl(file.contents, Default)
              path == Examples[init.next]
  <2>1. /\ PrepareGit(InitProc, us, path) /\ repo' = repo
        /\ init' = [init EXCEPT !.step = "preparing"] /\ meddled' = meddled
        /\ strayed' = (strayed \/ us # {init.url})
    BY <1>13 DEF PrepareExample, PrepareGit
  <2>2. path \in Paths
    BY <1>4
  <2>. HIDE DEF us
  <2>3. PICK new :
           /\ job' = [job EXCEPT ![InitProc] = new]
           /\ new.step = "ok" => \E u \in us : ValidateDir(repo[u].tree[path])
    <3>. HIDE DEF path
    <3>. QED  BY <1>1, <2>1, <2>2, PrepareGitJob
  <2>4. job'[InitProc] = new
    BY <1>2, <2>3
  <2>5. /\ init'.step = "preparing" /\ init'.url = init.url
        /\ init'.next = init.next
    BY <1>1, <2>1, RunFields
  <2>. SUFFICES ASSUME ~strayed', NEW d \in Behind' \ meddled'
                PROVE  ValidateDir(repo[init.url].tree[d])
    BY <2>1, <2>5 DEF BehindReady
  <2>6. ~strayed /\ us = {init.url}
    BY <2>1
  <2>7. PICK i \in DOMAIN Examples :
           /\ d = Examples[i]
           /\ i < init.next \/ (i = init.next /\ new.step = "ok")
    BY <2>4, <2>5, BehindFacts
  <2>8. CASE i < init.next
    <3>1. d \in Behind \ meddled
      BY <2>1, <2>7, <2>8, BehindFacts
    <3>. QED  BY <1>1, <2>6, <3>1 DEF BehindReady
  <2>9. CASE i = init.next /\ new.step = "ok"
    BY <2>3, <2>6, <2>7, <2>9
  <2>. QED  BY <2>7, <2>8, <2>9
<1>14. CASE ExamplePrepared
  <2>1. /\ init.step = "preparing" /\ repo' = repo /\ job' = job
        /\ strayed' = strayed /\ meddled' = meddled
    BY <1>3, <1>14 DEF ExamplePrepared
  <2>2. \/ init' = [init EXCEPT !.step = "failed"]
        \/ /\ job[InitProc].step = "ok" /\ init.next = Len(Examples)
           /\ init' = [init EXCEPT !.step = "done"]
        \/ /\ job[InitProc].step = "ok"
           /\ init' = [init EXCEPT !.step = "generate", !.next = @ + 1]
    BY <1>14 DEF ExamplePrepared
  <2>3. CASE init' = [init EXCEPT !.step = "failed"]
    BY <1>5, <2>1, <2>3
  <2>4. CASE /\ job[InitProc].step = "ok" /\ init.next = Len(Examples)
             /\ init' = [init EXCEPT !.step = "done"]
    <3>1. init'.url = init.url
      BY <1>1, <2>4, RunFields
    <3>2. \A i \in DOMAIN Examples : i < init.next \/ i = init.next
      BY <2>4, ExampleFacts
    <3>3. Behind' \subseteq Behind
      BY <2>1, <2>4, <3>2, BehindFacts
    <3>. QED  BY <1>1, <2>1, <3>1, <3>3, BehindKept
  <2>5. CASE /\ job[InitProc].step = "ok"
             /\ init' = [init EXCEPT !.step = "generate", !.next = @ + 1]
    <3>1. /\ init'.url = init.url /\ init'.next = init.next + 1
          /\ init'.step = "generate"
      BY <1>1, <2>5 DEF Runs
    <3>2. \A i \in DOMAIN Examples :
             i < init.next + 1 => i < init.next \/ i = init.next
      BY <1>4, ExampleFacts
    <3>3. Behind' \subseteq Behind
      BY <2>1, <2>5, <3>1, <3>2, BehindFacts
    <3>. QED  BY <1>1, <2>1, <3>1, <3>3, BehindKept
  <2>. QED  BY <2>2, <2>3, <2>4, <2>5
<1>15. ArlonInit => BehindReady'
  BY <1>6, <1>7, <1>8, <1>9, <1>10, <1>11, <1>12, <1>13, <1>14 DEF ArlonInit
<1>16. CASE TemplateCommands
  <2>1. UNCHANGED initVars
    BY <1>16 DEF TemplateCommands
  <2>2. init' = init /\ strayed' = strayed /\ meddled' = meddled
    BY <2>1 DEF initVars
  <2>3. PICK p \in Procs :
           \/ TemplateStep(p)
           \/ p \in Users /\ \E path \in Paths : StartPrepareGit(p, path)
    BY <1>16 DEF TemplateCommands
  <2>4. ASSUME NEW path \in Paths, StartPrepareGit(p, path), p \in Users
        PROVE  BehindReady'
    <3>1. p # InitProc
      BY <2>4 DEF Users
    <3>2. \A new : job' = [job EXCEPT ![p] = new] =>
                      job'[InitProc] = job[InitProc]
      BY <1>1, <3>1 DEF TemplateTypes
    <3>3. repo' = repo /\ job'[InitProc] = job[InitProc]
      <4>1. \A us : PrepareGit(p, us, path) =>
               repo' = repo /\ job'[InitProc] = job[InitProc]
        <5>1. \A us : PrepareGit(p, us, path) => repo' = repo
          BY DEF PrepareGit
        <5>. QED  BY <1>1, <3>2, <5>1, PrepareGitJob
      <4>2. CloneFails(p) => repo' = repo /\ job'[InitProc] = job[InitProc]
        BY <3>2 DEF CloneFails
      <4>. QED  BY <2>4, <4>1, <4>2 DEF StartPrepareGit
    <3>4. Behind' \subseteq Behind
      BY <2>2, <3>3, BehindSame
    <3>. QED  BY <1>1, <2>2, <3>3, <3>4, BehindKept
  <2>5. CASE TemplateStep(p)
    <3>1. job[p].step = "push"
      BY <1>1, <2>5, PushCases
    <3>2. PICK outcome \in {"ok", "failed"} :
             /\ job' = [job EXCEPT ![p] = Ended(outcome)]
             /\ \/ outcome = "failed" /\ UNCHANGED <<repo, prepared>>
                \/ Lands(p)
      BY <1>1, <2>5, PushCases
    <3>. DEFINE u == job[p].url
                path == job[p].path
    <3>3. Behind' \subseteq Behind
             \cup (IF p = InitProc /\ init.step = "preparing" /\ outcome = "ok"
                   THEN {Examples[init.next]} ELSE {})
      <4>1. CASE p # InitProc
        <5>1. job'[InitProc] = job[InitProc]
          BY <1>1, <3>2, <4>1 DEF TemplateTypes
        <5>. QED  BY <2>2, <5>1, BehindSame
      <4>2. CASE p = InitProc
        <5>1. job'[InitProc].step = outcome
          BY <1>2, <3>2, <4>2, EndedCommands
        <5>. QED  BY <2>2, <4>2, <5>1, BehindFacts
      <4>. QED  BY <4>1, <4>2
    <3>4. CASE outcome = "failed" /\ UNCHANGED <<repo, prepared>>
      <4>1. Behind' \subseteq Behind
        BY <3>3, <3>4
      <4>. QED  BY <1>1, <2>2, <3>4, <4>1, BehindKept
    <3>5. CASE Lands(p)
      <4>1. /\ u \in Urls
            /\ \A v \in Urls : v # u => repo'[v] = repo[v]
            /\ repo'[u].tree = job[p].tree
            /\ path # NoPath =>
                  /\ \A e \in Paths \ {path} :
                        repo'[u].tree[e] = repo[u].tree[e]
                  /\ ValidateDir(repo'[u].tree[path])
        BY <1>1, <3>1, <3>5, LandsFacts
      <4>2. job[p].base = repo[u].rev
        BY <3>5 DEF Lands
      <4>. HIDE DEF u, path
      <4>. SUFFICES ASSUME ~strayed, NEW d \in Behind' \ meddled
                    PROVE  ValidateDir(repo'[init.url].tree[d])
        BY <2>2 DEF BehindReady
      <4>3. d \in Behind => ValidateDir(repo[init.url].tree[d])
        BY <1>1 DEF BehindReady
      <4>4. d \in Paths
        BY <1>4, <3>3, BehindFacts
      <4>5. init.url \in Urls
        <5>1. CASE init.step # "off"
          BY <1>1, <5>1 DEF StepInv
        <5>2. CASE init.step = "off"
          <6>1. init.next = 1
            BY <1>1, <5>2 DEF StepInv
          <6>2. \A i \in DOMAIN Examples : ~(i < 1)
            BY ExampleFacts
          <6>3. Behind = {}
            BY <5>2, <6>1, <6>2, BehindFacts
          <6>. QED  BY <3>3, <5>2, <6>3
        <5>. QED  BY <5>1, <5>2
      <4>6. CASE path # NoPath
        <5>1. CASE d = path /\ init.url = u
          BY <4>1, <4>6, <5>1
        <5>2. CASE init.url # u /\ d \in Behind
          BY <4>1, <4>3, <4>5, <5>2
        <5>3. CASE init.url = u /\ d # path /\ d \in Behind
          BY <4>1, <4>3, <4>4, <4>6, <5>3
        <5>4. CASE d \notin Behind
          <6>1. p = InitProc /\ init.step = "preparing" /\ d = Examples[init.next]
            BY <3>3, <5>4
          <6>2. u = init.url /\ path = Examples[init.next]
            BY <1>1, <3>1, <6>1 DEF InitJobInv, u, path
          <6>. QED  BY <5>1, <6>1, <6>2
        <5>. QED  BY <5>1, <5>2, <5>3, <5>4
      <4>7. CASE path = NoPath
        <5>1. p = InitProc
          BY <1>1, <3>1, <4>7 DEF UserJobInv, Users, path
        <5>2. \/ init.step = "clearing"
              \/ /\ init.step = "pushing" /\ u = init.url
                 /\ \A e \in Paths \ {Examples[init.next]} :
                       job[p].tree[e] = repo[u].tree[e]
          <6>1. path # Examples[init.next]
            BY <1>4, <4>7, PathAssumption
          <6>. QED  BY <1>1, <3>1, <4>2, <5>1, <6>1 DEF InitJobInv, u, path
        <5>3. d \in Behind
          BY <3>3, <5>2
        <5>4. PICK i \in DOMAIN Examples : d = Examples[i] /\ i < init.next
          BY <5>2, <5>3, BehindFacts
        <5>5. init.step # "clearing"
          <6>1. ~(i < 1)
            BY ExampleFacts
          <6>. QED  BY <1>1, <5>4, <6>1 DEF StepInv
        <5>6. d # Examples[init.next]
          <6>1. i # init.next
            BY <1>4, <5>4, ExampleFacts
          <6>. QED  BY <1>4, <5>4, <6>1, ExampleFacts
        <5>. QED  BY <4>1, <4>3, <4>4, <5>2, <5>3, <5>5, <5>6
      <4>. QED  BY <4>6, <4>7
    <3>. QED  BY <3>2, <3>4, <3>5
  <2>. QED  BY <2>3, <2>4, <2>5
<1>17. CASE UserEdits
  <2>1. PICK u \in Urls, path \in Paths :
           /\ UserPushes(u, path)
           /\ meddled' = IF u = init.url /\ path \in Behind
                         THEN meddled \cup {path} ELSE meddled
    BY <1>17 DEF UserEdits
  <2>2. init' = init /\ strayed' = strayed
    BY <1>17 DEF UserEdits
  <2>3. /\ job' = job /\ \A v \in Urls : v # u => repo'[v] = repo[v]
        /\ \A e \in Paths \ {path} : repo'[u].tree[e] = repo[u].tree[e]
    BY <1>1, <2>1, UserPushesFacts
  <2>4. Behind' = Behind
    BY <2>2, <2>3, BehindSame
  <2>. SUFFICES ASSUME ~strayed, NEW d \in Behind \ meddled'
                PROVE  ValidateDir(repo'[init.url].tree[d])
    BY <2>2, <2>4 DEF BehindReady
  <2>5. d \notin meddled /\ d \in Paths /\ (u = init.url => d # path)
    BY <2>1, BehindFacts
  <2>6. ValidateDir(repo[init.url].tree[d])
    BY <1>1, <2>5 DEF BehindReady
  <2>7. init.url \in Urls
    <3>1. CASE init.step # "off"
      BY <1>1, <3>1 DEF StepInv
    <3>2. CASE init.step = "off"
      <4>1. init.next = 1
        BY <1>1, <3>2 DEF StepInv
      <4>2. \A i \in DOMAIN Examples : ~(i < 1)
        BY ExampleFacts
      <4>. QED  BY <3>2, <4>1, <4>2, BehindFacts
    <3>. QED  BY <3>1, <3>2
  <2>8. CASE u = init.url
    BY <2>3, <2>5, <2>6, <2>8
  <2>9. CASE u # init.url
    BY <2>3, <2>6, <2>7, <2>9
  <2>. QED  BY <2>8, <2>9
<1>18. UNCHANGED <<templateVars, initVars>> => BehindReady'
  <2>. SUFFICES ASSUME UNCHANGED templateVars, UNCHANGED initVars
                PROVE  BehindReady'
    OBVIOUS
  <2>1. init' = init /\ strayed' = strayed /\ meddled' = meddled
    BY DEF initVars
  <2>2. repo' = repo /\ job' = job
    BY <1>3
  <2>3. Behind' = Behind
    BY <2>1, <2>2, BehindSame
  <2>. QED  BY <1>1, <2>1, <2>2, <2>3, BehindKept
<1>19. AliasCommands \/ UNCHANGED vars => BehindReady'
  BY <1>18 DEF AliasCommands, vars
<1>. QED  BY <1>15, <1>16, <1>17, <1>19 DEF Next

----------------------------------------------------------------------------
(* The theorems *)

LEMMA AliasStart == AliasInit => AliasState
<1>. SUFFICES ASSUME AliasInit PROVE AliasState
  OBVIOUS
<1>1. /\ file.ino = 0 /\ file.contents = Empty
      /\ file \in [ino: Nat, contents: Contents]
  BY EmptyFacts DEF AliasInit
<1>2. cmd \in [Procs -> Commands] /\ \A p \in Procs : cmd[p].step = "idle"
  BY EndedCommands DEF AliasInit, Commands
<1>3. /\ argoRepos \subseteq Urls /\ disturbed \in BOOLEAN
      /\ acked = [a \in Aliases |-> NoUrl]
      /\ acked \in [Aliases -> Urls \cup {NoUrl}]
  BY DEF AliasInit
<1>4. Sound(file.contents) /\ QuietInv
  BY <1>1, <1>3, EmptyFacts DEF QuietInv
<1>5. (\A p \in Procs : CommandInv(p)) /\ WriterInv
  BY <1>2 DEF CommandInv, InProgress, WriterInv
<1>. QED  BY <1>1, <1>2, <1>3, <1>4, <1>5 DEF AliasState, AliasInv

LEMMA TemplateStart == TemplateInit => TemplateTypes /\ TemplateInv
<1>. SUFFICES ASSUME TemplateInit PROVE TemplateTypes /\ TemplateInv
  OBVIOUS
<1>. DEFINE bare == [d \in Paths |-> Absent]
            first == [rev |-> 0, tree |-> bare]
<1>1. bare \in Trees
  BY AbsentIsDir DEF Trees
<1>. HIDE DEF bare
<1>2. first \in Branches
  BY <1>1 DEF Branches
<1>3. repo = [u \in Urls |-> first]
  BY DEF TemplateInit, bare
<1>. HIDE DEF first
<1>4. repo \in [Urls -> Branches]
  BY <1>2, <1>3
<1>5. job \in [Procs -> Jobs] /\ \A p \in Procs : job[p].step # "push"
  BY EndedCommands DEF TemplateInit, Jobs
<1>6. /\ prepared \in [Urls -> [Paths -> BOOLEAN]]
      /\ \A u \in Urls, d \in Paths : ~prepared[u][d]
  BY DEF TemplateInit
<1>. QED  BY <1>4, <1>5, <1>6
          DEF TemplateTypes, TemplateInv, PreparedValidates, PushInv

\* Nothing is started, nothing is pushed.
LEMMA IndInvInit == Init => IndInv
<1>. SUFFICES ASSUME Init PROVE IndInv
  OBVIOUS
<1>1. AliasState /\ TemplateTypes /\ TemplateInv
  BY AliasStart, TemplateStart DEF Init
<1>2. Counters
  <2>1. MaxFaults \in Nat /\ MaxCommands \in Nat /\ MaxEdits \in Nat
    BY AliasAssumption, TemplateAssumption, Zenon
  <2>2. faults = 0 /\ commands = 0 /\ edits = 0
    BY DEF Init, AliasInit, TemplateInit
  <2>. QED  BY <2>1, <2>2 DEF Counters
<1>3. init.step = "off" /\ init.next = 1
  BY DEF Init
<1>4. RunTypes
  BY ExampleFacts DEF Init, RunTypes, Runs
<1>5. \A p \in Procs : job[p].step # "push"
  BY EndedCommands DEF Init, TemplateInit
<1>6. InitJobInv /\ UserJobInv
  BY <1>5, WorkspaceAssumption DEF InitJobInv, UserJobInv, Users
<1>7. StepInv
  BY <1>3 DEF StepInv
<1>8. BehindReady
  <2>1. \A i \in DOMAIN Examples : ~(i < 1)
    BY ExampleFacts
  <2>2. Behind = {}
    BY <1>3, <2>1, BehindFacts
  <2>. QED  BY <2>2 DEF BehindReady
<1>. QED  BY <1>1, <1>2, <1>4, <1>6, <1>7, <1>8, Parts

\* Every step of init, of the commands and of the users keeps it.
LEMMA IndInvNext == IndInv /\ [Next]_vars => IndInv'
<1>1. IndInv /\ [Next]_vars =>
         /\ AliasState' /\ TemplateTypes' /\ TemplateInv'
         /\ Counters' /\ RunTypes'
         /\ InitJobInv' /\ UserJobInv' /\ StepInv' /\ BehindReady'
  BY NextAlias, NextTemplate, NextCounters, NextRun, NextInitJob,
     NextUserJobs, NextBehind
<1>. QED  BY <1>1, Parts, PTL

\* The inductive invariant of the workspace of arlon init --examples
\* (cmd/initialize/init.go) and the commands beside it.
THEOREM Invariance == Spec => []IndInv
BY IndInvInit, IndInvNext, PTL DEF Spec

\* The alias file, the clones and branches, and the run of init stay in
\* their types, and all counters within their bounds (RepoCtxCfg in
\* pkg/gitrepo, PrepareGitDir in pkg/basecluster, cmd/initialize/init.go).
THEOREM TypeCorrect == Spec => []TypeOK
<1>1. IndInv => TypeOK
  BY DEF IndInv
<1>. QED  BY <1>1, Invariance, PTL

\* However the rewrites of the alias file by register, unregister and init
\* overlap and wherever they are cut short, a file that parses names no alias
\* twice, has the default of its list and only repositories with credentials
\* in Argo CD; undisturbed, it is what the commands have answered (StoreRepoCfg
\* and LoadRepoCfg in pkg/gitrepo).
THEOREM AliasesSound == Spec => []AliasFileSound
<1>1. IndInv => AliasInv
  BY DEF IndInv
<1>. QED  BY <1>1, AliasSound, Invariance, PTL

\* A directory that preparegit was the last to write validates, and a second
\* preparegit leaves it alone (prepareDir and validateDir in pkg/basecluster).
THEOREM PreparedStaysValid == Spec => []PreparedValidates
<1>1. IndInv => PreparedValidates
  BY DEF IndInv, TemplateInv
<1>. QED  BY <1>1, Invariance, PTL

\* When arlon init --examples ends well, all examples are cluster templates,
\* but for those that others wrote to meanwhile, unless the alias default was
\* redirected (pushManifests and PrepareGitDir, which init calls in turn).
THEOREM ExamplesGetReady == Spec => []ExamplesReady
<1>1. IndInv => ExamplesReady
  <2>. SUFFICES ASSUME BehindReady PROVE ExamplesReady
    BY DEF IndInv
  <2>. SUFFICES ASSUME init.step = "done", ~strayed,
                       NEW d \in ExamplePaths \ meddled
                PROVE  ValidateDir(repo[init.url].tree[d])
    BY DEF ExamplesReady
  <2>1. d \in Behind
    BY BehindFacts DEF ExamplePaths
  <2>. QED  BY <2>1 DEF BehindReady
<1>. QED  BY <1>1, Invariance, PTL

\* The push of a command that landed.
LEMMA LandedKeeps ==
    ASSUME TemplateTypes, TemplateInv, NEW q \in Procs, TemplateStep(q),
           NEW p \in Procs, NEW u \in Urls,
           job[p].step = "push", job[p].path # NoPath,
           job'[p].step # "push", repo'[u] # repo[u]
    PROVE  /\ \A d \in Paths \ {job[p].path} :
                 repo'[u].tree[d] = repo[u].tree[d]
           /\ KeepsUsers(repo[u].tree[job[p].path],
                         repo'[u].tree[job[p].path])
<1>1. PICK outcome \in {"ok", "failed"} :
         /\ job' = [job EXCEPT ![q] = Ended(outcome)]
         /\ \/ outcome = "failed" /\ UNCHANGED <<repo, prepared>>
            \/ Lands(q)
  BY PushCases
<1>2. Lands(q)
  BY <1>1
<1>3. p = q
  BY <1>1 DEF TemplateTypes
<1>4. job[p].step = "push" /\ Lands(p)
  BY <1>2, <1>3
<1>5. /\ \A v \in Urls : v # job[p].url => repo'[v] = repo[v]
      /\ \A d \in Paths \ {job[p].path} :
            repo'[job[p].url].tree[d] = repo[job[p].url].tree[d]
      /\ KeepsUsers(repo[job[p].url].tree[job[p].path],
                    repo'[job[p].url].tree[job[p].path])
  BY <1>4, LandsFacts, Zenon
<1>6. u = job[p].url
  BY <1>5
<1>. QED  BY <1>5, <1>6

\* Only pushes change branches, those of the users apart from those of the
\* commands.
LEMMA BranchWriters ==
    ASSUME [Next]_vars
    PROVE  \/ repo' = repo
           \/ \E p \in Procs : TemplateStep(p)
           \/ job' = job
<1>1. UNCHANGED templateVars => repo' = repo
  BY DEF templateVars
<1>2. ArlonInit => repo' = repo
  <2>1. CASE StartInit \/ RemoveRepoCtx \/ RegisterDefault
    BY <1>1, <2>1 DEF StartInit, RemoveRepoCtx, RegisterDefault
  <2>2. CASE RegisterReturned \/ ExamplesCleared \/ ManifestPushed
    BY <1>1, <2>2 DEF RegisterReturned, ExamplesCleared, ManifestPushed,
                      Returned
  <2>3. CASE CheckExamples
    BY <2>3 DEF CheckExamples
  <2>4. CASE PushManifests
    BY <2>4 DEF PushManifests
  <2>5. CASE PrepareExample
    BY <2>5 DEF PrepareExample, PrepareGit
  <2>6. CASE ExamplePrepared \/ InitFails
    BY <1>1, <2>6 DEF ExamplePrepared, InitFails
  <2>. QED  BY <2>1, <2>2, <2>3, <2>4, <2>5, <2>6 DEF ArlonInit
<1>3. AliasCommands => repo' = repo
  BY <1>1 DEF AliasCommands
<1>4. TemplateCommands => repo' = repo \/ \E p \in Procs : TemplateStep(p)
  <2>. SUFFICES ASSUME NEW p \in Procs, NEW path \in Paths,
                       StartPrepareGit(p, path)
                PROVE  repo' = repo
    BY DEF TemplateCommands
  <2>. QED  BY DEF StartPrepareGit, PrepareGit, CloneFails
<1>5. UserEdits => job' = job
  BY DEF UserEdits, UserPushes
<1>6. UNCHANGED vars => repo' = repo
  BY <1>1 DEF vars
<1>. QED  BY <1>2, <1>3, <1>4, <1>5, <1>6 DEF Next

\* A push of preparegit, of a user or of init, changes the directory it is
\* about and no other, and keeps what the users wrote there: the push of a
\* user after the clone makes it fail (PrepareGitDir in pkg/basecluster
\* neither forces its push nor tries again).
THEOREM EditsAreKept == Spec => EditsKept
<1>1. IndInv /\ [Next]_vars =>
         [\A p \in Procs, u \in Urls :
             /\ job[p].step = "push" /\ job[p].path # NoPath
             /\ job'[p].step # "push"
             /\ repo'[u] # repo[u]
             => /\ \A d \in Paths \ {job[p].path} :
                      repo'[u].tree[d] = repo[u].tree[d]
                /\ KeepsUsers(repo[u].tree[job[p].path],
                              repo'[u].tree[job[p].path])
         ]_<<aliasVars, templateVars>>
  <2>. SUFFICES ASSUME IndInv, [Next]_vars, NEW p \in Procs, NEW u \in Urls,
                       job[p].step = "push", job[p].path # NoPath,
                       job'[p].step # "push", repo'[u] # repo[u]
                PROVE  /\ \A d \in Paths \ {job[p].path} :
                             repo'[u].tree[d] = repo[u].tree[d]
                       /\ KeepsUsers(repo[u].tree[job[p].path],
                                     repo'[u].tree[job[p].path])
    OBVIOUS
  <2>1. TemplateTypes /\ TemplateInv
    BY Parts
  <2>2. PICK q \in Procs : TemplateStep(q)
    BY BranchWriters
  <2>. QED  BY <2>1, <2>2, LandedKeeps
<1>. QED  BY <1>1, Invariance, PTL DEF EditsKept, Spec
=============================================================================
