------------------------------ MODULE Workspace ------------------------------
(***************************************************************************)
(* The workspace of arlon init --examples (cmd/initialize/init.go), beside *)
(* the commands of other users: init removes the alias file, registers the *)
(* repository it is given as the default one, clears the directories of    *)
(* the examples in it, and for every example pushes a generated manifest   *)
(* and prepares the directory with preparegit.  The first pushes use the   *)
(* url of the command line, preparegit the url of the alias default.       *)
(***************************************************************************)
EXTENDS ClusterTemplate

CONSTANTS
    InitProc,           \* the process of arlon init
    Examples,           \* the directories of the examples, in order
    ExampleFile,        \* the name of their manifests
    Generated           \* the manifest that clusterctl generates

ASSUME WorkspaceAssumption ==
    /\ InitProc \in Procs
    /\ Examples \in Seq(Paths) /\ Examples # <<>>
    /\ \A i, j \in DOMAIN Examples : Examples[i] = Examples[j] => i = j
    /\ ExampleFile \in FileNames
    /\ Generated \in Manifest

VARIABLES
    init,       \* the run of arlon init: its step, url and example
    strayed,    \* history: default resolved to another url for preparegit
    meddled     \* history: examples that others wrote after init prepared them

initVars == <<init, strayed, meddled>>
vars == <<aliasVars, templateVars, initVars>>

Users == Procs \ {InitProc}
ExamplePaths == {Examples[i] : i \in DOMAIN Examples}

Init ==
    /\ AliasInit
    /\ TemplateInit
    /\ init = [step |-> "off", url |-> NoUrl, next |-> 1]
    /\ strayed = FALSE
    /\ meddled = {}

----------------------------------------------------------------------------
(* arlon init --examples *)

InitEnded == init.step \in {"off", "done", "declined", "failed"}

StartInit ==
    /\ InitEnded
    /\ commands < MaxCommands
    /\ commands' = commands + 1
    /\ \E u \in Urls : init' = [step |-> "remove", url |-> u, next |-> 1]
    /\ strayed' = FALSE
    /\ meddled' = {}
    /\ UNCHANGED <<aliasState, faults, templateVars>>

RemoveRepoCtx ==
    /\ init.step = "remove"
    /\ RemoveFile
    /\ init' = [init EXCEPT !.step = "register"]
    /\ UNCHANGED <<templateVars, strayed, meddled>>

RegisterDefault ==
    /\ init.step = "register"
    /\ Register(InitProc, Default, init.url)
    /\ init' = [init EXCEPT !.step = "registering"]
    /\ UNCHANGED <<commands, templateVars, strayed, meddled>>

\* The command that init runs returns: an error ends init.
Returned(step, outcome, next) ==
    /\ init.step = step
    /\ outcome \in {"ok", "failed"}
    /\ init' = [init EXCEPT !.step = IF outcome = "ok" THEN next ELSE "failed"]
    /\ UNCHANGED <<aliasVars, templateVars, strayed>>

RegisterReturned ==
    /\ Returned("registering", cmd[InitProc].step, "check")
    /\ UNCHANGED meddled

Cleared(tree) ==
    [d \in Paths |-> IF d \in ExamplePaths THEN Absent ELSE tree[d]]

\* checkExamples: without -y the user is asked for each directory that is
\* there and may decline; what was removed until then is only in the clone.
\* The commit is made and pushed even if nothing had to be removed.
CheckExamples ==
    LET branch == repo[init.url]
        there == {d \in ExamplePaths : branch.tree[d] # Absent}
    IN  /\ init.step = "check"
        /\ NoJob(InitProc)
        /\ \/ /\ there # {}
              /\ init' = [init EXCEPT !.step = "declined"]
              /\ UNCHANGED job
           \/ /\ init' = [init EXCEPT !.step = "clearing"]
              /\ job' = [job EXCEPT ![InitProc] =
                    [step |-> "push", url |-> init.url, base |-> branch.rev,
                     tree |-> Cleared(branch.tree), path |-> NoPath]]
        /\ UNCHANGED <<aliasVars, repo, prepared, edits,
                       strayed, meddled>>

ExamplesCleared ==
    /\ Returned("clearing", job[InitProc].step, "generate")
    /\ UNCHANGED meddled

\* runGenerateClusterTemplate and pushManifests, which keeps the other files
\* of the directory.
PushManifests ==
    LET d == Examples[init.next]
        tree == repo[init.url].tree
        files == tree[d].files
        with == [f \in DOMAIN files \cup {ExampleFile} |->
                    IF f = ExampleFile THEN Generated ELSE files[f]]
    IN  /\ init.step = "generate"
        /\ NoJob(InitProc)
        /\ CommitChanges(InitProc, init.url,
                         [tree EXCEPT ![d].files = with], NoPath)
        /\ init' = [init EXCEPT !.step = "pushing"]
        /\ UNCHANGED <<aliasVars, repo, edits, strayed,
                       meddled>>

ManifestPushed ==
    /\ Returned("pushing", job[InitProc].step, "prepare")
    /\ UNCHANGED meddled

BadPrepareExampleFirstOnly ==
    LET us == GetRepoUrl(file.contents, Default)
    IN  /\ init.step = "prepare"
        /\ PrepareGit(InitProc, us, Examples[1])
        /\ init' = [init EXCEPT !.step = "preparing"]
        /\ strayed' = (strayed \/ us # {init.url})
        /\ UNCHANGED <<aliasState, commands, meddled>>

\* preparegit with --repo-path only.
PrepareExample ==
    LET us == GetRepoUrl(file.contents, Default)
    IN  /\ init.step = "prepare"
        /\ PrepareGit(InitProc, us, Examples[init.next])
        /\ init' = [init EXCEPT !.step = "preparing"]
        /\ strayed' = (strayed \/ us # {init.url})
        /\ UNCHANGED <<aliasState, commands, meddled>>

BadExamplePreparedOneMore ==
    LET outcome == job[InitProc].step
        last == init.next > Len(Examples)
    IN  /\ init.step = "preparing"
        /\ \/ /\ outcome = "failed"
              /\ init' = [init EXCEPT !.step = "failed"]
           \/ /\ outcome = "ok" /\ last
              /\ init' = [init EXCEPT !.step = "done"]
           \/ /\ outcome = "ok" /\ ~last
              /\ init' = [init EXCEPT !.step = "generate", !.next = @ + 1]
        /\ UNCHANGED <<aliasVars, templateVars, strayed, meddled>>

ExamplePrepared ==
    LET outcome == job[InitProc].step
        last == init.next = Len(Examples)
    IN  /\ init.step = "preparing"
        /\ \/ /\ outcome = "failed"
              /\ init' = [init EXCEPT !.step = "failed"]
           \/ /\ outcome = "ok" /\ last
              /\ init' = [init EXCEPT !.step = "done"]
           \/ /\ outcome = "ok" /\ ~last
              /\ init' = [init EXCEPT !.step = "generate", !.next = @ + 1]
        /\ UNCHANGED <<aliasVars, templateVars, strayed, meddled>>

\* A call between the commands fails (a clone, clusterctl), or init is killed.
InitFails ==
    /\ init.step \in {"remove", "register", "check", "generate", "prepare"}
    /\ faults < MaxFaults
    /\ faults' = faults + 1
    /\ init' = [init EXCEPT !.step = "failed"]
    /\ UNCHANGED <<aliasState, commands, templateVars, strayed, meddled>>

ArlonInit ==
    \/ StartInit \/ RemoveRepoCtx \/ RegisterDefault \/ RegisterReturned
    \/ CheckExamples \/ ExamplesCleared \/ PushManifests \/ ManifestPushed
    \/ PrepareExample \/ ExamplePrepared \/ InitFails

----------------------------------------------------------------------------
(* The commands, of init and of the users *)

\* The examples that init has prepared.
Behind == {Examples[i] : i \in {j \in DOMAIN Examples :
               \/ init.step = "done" \/ j < init.next
               \/ j = init.next /\ init.step = "preparing"
                                /\ job[InitProc].step = "ok"}}

AliasCommands ==
    /\ \E p \in Procs : AliasStep(p) \/ (p \in Users /\ Start(p))
    /\ UNCHANGED <<templateVars, initVars>>

TemplateCommands ==
    /\ \E p \in Procs :
          \/ TemplateStep(p)
          \/ p \in Users /\ \E path \in Paths : StartPrepareGit(p, path)
    /\ UNCHANGED <<aliasState, initVars>>

UserEdits ==
    /\ \E u \in Urls, path \in Paths :
          /\ UserPushes(u, path)
          /\ meddled' = IF u = init.url /\ path \in Behind
                        THEN meddled \cup {path} ELSE meddled
    /\ UNCHANGED <<aliasState, init, strayed>>

Next == ArlonInit \/ AliasCommands \/ TemplateCommands \/ UserEdits

Spec == Init /\ [][Next]_vars

----------------------------------------------------------------------------
(* Properties *)

\* The state stays in its types.
TypeOK ==
    /\ AliasTypeOK
    /\ TemplateTypeOK
    /\ init \in [step: {"off", "remove", "register", "registering", "check",
                       "clearing", "generate", "pushing", "prepare",
                       "preparing", "done", "declined", "failed"},
                url: Urls \cup {NoUrl},
                next: DOMAIN Examples]
    /\ strayed \in BOOLEAN
    /\ meddled \subseteq Paths

\* When init says that the manifests are pushed, each example directory of
\* its repository can be used as a cluster template, unless a user wrote to
\* it after init was through with it, or another command redirected the alias
\* default, which preparegit follows, in the middle of the run.  What earlier
\* runs that failed half-way left behind does not matter.
ExamplesReady ==
    init.step = "done" /\ ~strayed =>
        \A d \in ExamplePaths \ meddled :
            ValidateDir(repo[init.url].tree[d])

----------------------------------------------------------------------------
(* Why it holds *)

\* The pushes of arlon init are those of the step it is in; the one of a
\* manifest changes the directory of the example only.
InitJobInv ==
    job[InitProc].step = "push" =>
        LET mine == job[InitProc]
            branch == repo[mine.url]
        IN  \/ /\ init.step = "clearing"
               /\ mine.url = init.url /\ mine.path = NoPath
            \/ /\ init.step = "pushing"
               /\ mine.url = init.url /\ mine.path = NoPath
               /\ mine.base = branch.rev =>
                     \A d \in Paths \ {Examples[init.next]} :
                        mine.tree[d] = branch.tree[d]
            \/ /\ init.step = "preparing"
               /\ ~strayed => mine.url = init.url
               /\ mine.path = Examples[init.next]

UserJobInv == \A p \in Users : job[p].step = "push" => job[p].path # NoPath

\* Nothing is prepared before the directories have been cleared.
StepInv ==
    /\ init.step # "off" => init.url \in Urls
    /\ init.step \in {"off", "remove", "register", "registering", "check",
                      "clearing"}
          => init.next = 1

BehindReady ==
    ~strayed => \A d \in Behind \ meddled : ValidateDir(repo[init.url].tree[d])

IndInv ==
    /\ TypeOK
    /\ AliasInv
    /\ TemplateInv
    /\ InitJobInv
    /\ UserJobInv
    /\ StepInv
    /\ BehindReady
=============================================================================
