----------------------------- MODULE RepoAliases -----------------------------
(***************************************************************************)
(* The repository aliases of the arlon commands: a JSON file in the home   *)
(* directory of the user (pkg/gitrepo) that arlon git register and         *)
(* arlon git unregister rewrite (cmd/gitrepo) and that every command with  *)
(* a --repo-alias flag reads.  A command opens the file, reads it, and     *)
(* later truncates and writes it through the same descriptor, without a    *)
(* lock: other commands run in between.  register also registers the       *)
(* repository with Argo CD, where the commands find its credentials.       *)
(***************************************************************************)
EXTENDS Naturals, Sequences

CONSTANTS
    Procs,          \* commands that may run at the same time
    Aliases, Urls,
    Default,        \* the alias RepoDefaultCtx
    NoUrl,          \* the empty url
    MaxFaults,      \* bound: calls that fail and commands that are killed
    MaxCommands     \* bound: commands started

ASSUME AliasAssumption ==
    /\ Default \in Aliases
    /\ NoUrl \notin Urls
    /\ MaxFaults \in Nat /\ MaxCommands \in Nat

VARIABLES
    file,           \* the file: inode and contents
    argoRepos,      \* the repositories that Argo CD has the credentials of
    cmd,            \* the commands in progress, or how they ended
    acked,          \* history: the aliases as the answers of commands tell
    disturbed,      \* history: a rewrite overlapped another, or was cut short
    faults, commands

aliasState == <<file, argoRepos, cmd, acked, disturbed>>
aliasVars == <<aliasState, faults, commands>>

----------------------------------------------------------------------------
(* Data *)

RepoCtx == [alias: Aliases, url: Urls]
RepoCtxCfg == [default: Urls \cup {NoUrl}, repos: Seq(RepoCtx)]
EmptyCfg == [default |-> NoUrl, repos |-> <<>>]

\* The contents: nothing, the JSON of a configuration, or bytes that are not
\* JSON, the end of a longer text behind a shorter one.
Contents == [text: {"empty", "json", "garbage"}, cfg: RepoCtxCfg]
Empty == [text |-> "empty", cfg |-> EmptyCfg]
Garbage == [text |-> "garbage", cfg |-> EmptyCfg]
Json(c) == [text |-> "json", cfg |-> c]

\* LoadRepoCfg: an empty file is an empty configuration.
LoadFails(contents) == contents.text = "garbage"
LoadRepoCfg(contents) == contents.cfg

AliasExists(repos, a) == \E i \in DOMAIN repos : repos[i].alias = a

Registered(c, a, u) ==
    [default |-> IF a = Default THEN u ELSE c.default,
     repos   |-> Append(c.repos, [alias |-> a, url |-> u])]

BadUnregisteredKeepsDefault(c, i) ==
    [c EXCEPT !.repos = SubSeq(@, 1, i - 1) \o SubSeq(@, i + 1, Len(@))]

\* The i-th repository is removed, and the default with it if it is that one.
Unregistered(c, i) ==
    [default |-> IF c.repos[i].alias = Default THEN NoUrl ELSE c.default,
     repos   |-> SubSeq(c.repos, 1, i - 1)
                     \o SubSeq(c.repos, i + 1, Len(c.repos))]

\* The first repository with the alias.
FirstWith(repos, a) ==
    CHOOSE i \in DOMAIN repos :
        repos[i].alias = a /\ \A j \in 1 .. i - 1 : repos[j].alias # a

\* getAlias and GetRepoUrl: the default is the entry "default" of the file,
\* and empty, without an error, where there is none.
GetRepoUrl(contents, a) ==
    IF LoadFails(contents) THEN {}
    ELSE IF a = Default THEN {contents.cfg.default}
    ELSE IF ~AliasExists(contents.cfg.repos, a) THEN {}
    ELSE {contents.cfg.repos[FirstWith(contents.cfg.repos, a)].url}

\* A write at offset zero of what may have been written meanwhile: a shorter
\* text leaves the end of a longer one in place.
Written(old, new) == IF old.text = "empty" THEN {new} ELSE {new, Garbage}

Idle == [step |-> "idle"]
Ended(outcome) == [step |-> outcome]
Command == [step: {"argocd", "truncate", "write"}, alias: Aliases,
            url: Urls \cup {NoUrl},     \* NoUrl: unregister
            ino: Nat,                   \* the inode it has open
            read: Contents,             \* what it read
            new: RepoCtxCfg]            \* what it will write

Ready(p) == cmd[p].step \in {"idle", "ok", "failed"}

----------------------------------------------------------------------------
AliasInit ==
    /\ file = [ino |-> 0, contents |-> Empty]
    /\ argoRepos = {}
    /\ cmd = [p \in Procs |-> Idle]
    /\ acked = [a \in Aliases |-> NoUrl]
    /\ disturbed = FALSE
    /\ faults = 0
    /\ commands = 0

\* arlon git register: reads the file, created if it is missing.  An alias
\* that is taken is no error; a default without its repository is.
Register(p, a, u) ==
    LET c == LoadRepoCfg(file.contents)
        end == IF LoadFails(file.contents) THEN {"failed"}
               ELSE IF AliasExists(c.repos, a) THEN {"ok"}
               ELSE IF a = Default /\ c.default # NoUrl THEN {"failed"}
               ELSE {}
    IN  /\ Ready(p)
        /\ \/ \E outcome \in end :
                 cmd' = [cmd EXCEPT ![p] = Ended(outcome)]
           \/ /\ end = {}
              /\ cmd' = [cmd EXCEPT ![p] =
                    [step |-> "argocd", alias |-> a, url |-> u,
                     ino |-> file.ino, read |-> file.contents,
                     new |-> Registered(c, a, u)]]
        /\ UNCHANGED <<file, argoRepos, acked, disturbed, faults>>

\* ValidateAccess and CreateRepository.  An error ends the process, and may
\* reach the command although the repository was created.
AddToArgoCd(p) ==
    /\ cmd[p].step = "argocd"
    /\ \/ /\ cmd' = [cmd EXCEPT ![p].step = "truncate"]
          /\ argoRepos' = argoRepos \cup {cmd[p].url}
          /\ UNCHANGED faults
       \/ /\ faults < MaxFaults
          /\ faults' = faults + 1
          /\ cmd' = [cmd EXCEPT ![p] = Ended("failed")]
          /\ argoRepos' \in {argoRepos, argoRepos \cup {cmd[p].url}}
    /\ UNCHANGED <<file, acked, disturbed, commands>>

\* arlon git unregister: without repositories it does nothing, an alias that
\* is not there is an error.  Argo CD keeps the repository.
Unregister(p, a) ==
    LET c == LoadRepoCfg(file.contents)
        end == IF LoadFails(file.contents) THEN {"failed"}
               ELSE IF c.repos = <<>> THEN {"ok"}
               ELSE IF ~AliasExists(c.repos, a) THEN {"failed"}
               ELSE {}
    IN  /\ Ready(p)
        /\ \/ \E outcome \in end :
                 cmd' = [cmd EXCEPT ![p] = Ended(outcome)]
           \/ /\ end = {}
              /\ cmd' = [cmd EXCEPT ![p] =
                    [step |-> "truncate", alias |-> a, url |-> NoUrl,
                     ino |-> file.ino, read |-> file.contents,
                     new |-> Unregistered(c, FirstWith(c.repos, a))]]
        /\ UNCHANGED <<file, argoRepos, acked, disturbed, faults>>

\* The inode may be one that no path leads to any more.
TruncateFile(p) ==
    LET mine == cmd[p].ino = file.ino
    IN  /\ cmd[p].step = "truncate"
        /\ file' = IF mine THEN [file EXCEPT !.contents = Empty] ELSE file
        /\ cmd' = [cmd EXCEPT ![p].step = "write"]
        /\ disturbed' = (disturbed \/ ~mine \/ file.contents # cmd[p].read)
        /\ UNCHANGED <<argoRepos, acked, faults, commands>>

StoreRepoCfg(p) ==
    LET mine == cmd[p].ino = file.ino
    IN  /\ cmd[p].step = "write"
        /\ \E after \in Written(file.contents, Json(cmd[p].new)) :
              file' = IF mine THEN [file EXCEPT !.contents = after] ELSE file
        /\ cmd' = [cmd EXCEPT ![p] = Ended("ok")]
        /\ acked' = [acked EXCEPT ![cmd[p].alias] = cmd[p].url]
        /\ disturbed' = (disturbed \/ ~mine \/ file.contents # Empty)
        /\ UNCHANGED <<argoRepos, faults, commands>>

\* The command is killed, or the file can not be written.
Killed(p) ==
    /\ cmd[p].step \in {"truncate", "write"}
    /\ faults < MaxFaults
    /\ faults' = faults + 1
    /\ cmd' = [cmd EXCEPT ![p] = Ended("failed")]
    /\ disturbed' = (disturbed \/ cmd[p].step = "write")
    /\ UNCHANGED <<file, argoRepos, acked, commands>>

\* arlon init --examples removes the file: what commands that have it open
\* write is lost.
RemoveFile ==
    /\ file' = [ino |-> file.ino + 1, contents |-> Empty]
    /\ acked' = [a \in Aliases |-> NoUrl]
    /\ disturbed' = FALSE
    /\ UNCHANGED <<argoRepos, cmd, faults, commands>>

\* A user starts a command.
Start(p) ==
    /\ commands < MaxCommands
    /\ commands' = commands + 1
    /\ \E a \in Aliases :
          Unregister(p, a) \/ \E u \in Urls : Register(p, a, u)

AliasStep(p) ==
    AddToArgoCd(p) \/ TruncateFile(p) \/ StoreRepoCfg(p) \/ Killed(p)

----------------------------------------------------------------------------
(* Properties *)

AliasTypeOK ==
    /\ file \in [ino: Nat, contents: Contents]
    /\ argoRepos \subseteq Urls
    /\ cmd \in [Procs -> Command \cup {Idle, Ended("ok"), Ended("failed")}]
    /\ acked \in [Aliases -> Urls \cup {NoUrl}]
    /\ disturbed \in BOOLEAN
    /\ faults \in 0 .. MaxFaults
    /\ commands \in 0 .. MaxCommands

\* The file has one repository per alias, the default is the repository of
\* the alias default, and Argo CD knows each of them.
Coherent(c) ==
    /\ \A i, j \in DOMAIN c.repos :
          c.repos[i].alias = c.repos[j].alias => i = j
    /\ \A i \in DOMAIN c.repos :
          /\ c.repos[i].url \in argoRepos
          /\ c.repos[i].alias = Default => c.repos[i].url = c.default
    /\ c.default # NoUrl => AliasExists(c.repos, Default)

\* The aliases of a configuration, as commands resolve them.
Resolved(contents) ==
    [a \in Aliases |->
        IF GetRepoUrl(contents, a) = {} THEN NoUrl
        ELSE CHOOSE u \in GetRepoUrl(contents, a) : TRUE]

\* However register, unregister and init interleave, and wherever they are
\* killed, a file that parses is coherent: no alias twice, the default entry
\* in step with the list (register and unregister maintain both), and every
\* repository registered with Argo CD.  And as long as no rewrite overlapped
\* another one or was cut short, every alias resolves to what the answers of
\* the commands told their users.
AliasFileSound ==
    /\ file.contents.text = "json" => Coherent(file.contents.cfg)
    /\ ~disturbed /\ (\A p \in Procs : cmd[p].step # "write")
          => Resolved(file.contents) = acked

----------------------------------------------------------------------------
(* Why they hold *)

\* What the file may hold at any time: nothing, garbage, or a configuration
\* that is coherent.
Sound(contents) ==
    /\ Coherent(contents.cfg)
    /\ contents.text # "json" => contents.cfg = EmptyCfg

\* What a command in progress writes is what it read, with its change.
Rewrites(c) ==
    LET old == LoadRepoCfg(c.read)
    IN  /\ ~LoadFails(c.read)
        /\ \/ /\ c.url # NoUrl
              /\ ~AliasExists(old.repos, c.alias)
              /\ c.alias = Default => old.default = NoUrl
              /\ c.new = Registered(old, c.alias, c.url)
           \/ /\ c.url = NoUrl
              /\ c.step # "argocd"
              /\ AliasExists(old.repos, c.alias)
              /\ c.new = Unregistered(old, FirstWith(old.repos, c.alias))

InProgress(p) == cmd[p].step \in {"argocd", "truncate", "write"}

CommandInv(p) ==
    InProgress(p) =>
        /\ cmd[p].ino <= file.ino
        /\ Sound(cmd[p].read)
        /\ Rewrites(cmd[p])
        /\ cmd[p].step # "argocd" /\ cmd[p].url # NoUrl
              => cmd[p].url \in argoRepos

\* The one command that has truncated the file, and nothing else happened:
\* what it read is what the users were told.
WriterInv ==
    ~disturbed =>
        \A p \in Procs :
            /\ cmd[p].step = "write"
            /\ cmd[p].ino = file.ino
            /\ file.contents = Empty
            /\ \A q \in Procs \ {p} : cmd[q].step # "write"
            => Resolved(cmd[p].read) = acked

QuietInv ==
    ~disturbed /\ (\A p \in Procs : cmd[p].step # "write")
        => Resolved(file.contents) = acked

AliasInv ==
    /\ Sound(file.contents)
    /\ \A p \in Procs : CommandInv(p)
    /\ WriterInv
    /\ QuietInv
=============================================================================
