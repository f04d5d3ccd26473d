--------------------------- MODULE ClusterTemplate ---------------------------
(***************************************************************************)
(* Cluster template directories in git (pkg/basecluster): a directory with *)
(* one manifest of Cluster API resources that clusters are created from.   *)
(* arlon clustertemplate preparegit makes one of a user's directory: it    *)
(* clones the repository, removes the namespaces, completes the            *)
(* annotations of the cluster autoscaler, adds kustomization.yaml and      *)
(* configurations.yaml, commits and pushes; validategit only looks.  Both  *)
(* take the url from the alias file and the credentials from Argo CD.  The *)
(* users push to the same branch, and so does arlon init.                  *)
(***************************************************************************)
EXTENDS RepoAliases

CONSTANTS
    Paths,              \* directories in the repositories
    FileNames,          \* the manifests' names
    UserDirs,           \* the directories that users push
    MaxEdits            \* bound: pushes of users

VARIABLES
    repo,           \* the branch main of every repository
    job,            \* the commands in progress, or how they ended
    prepared,       \* history: the last to write the directory was preparegit
    edits

templateVars == <<repo, job, prepared, edits>>

----------------------------------------------------------------------------
(* Data *)

\* A node group's annotation: missing or empty, by the user, by the command.
Limit == {"", "user", "flag"}

\* A manifest file: the Cluster resources in it, whether a resource names a
\* namespace, and the annotations of its MachineDeployments.  A file that
\* can not be parsed counts as one without a Cluster.
Manifest == [clusters: 0 .. 2, ns: BOOLEAN,
             deployments: SUBSET [min: Limit, max: Limit]]

\* A directory: subdirectories or not, the manifest that kustomization.yaml
\* names ("" without the file), configurations.yaml, and the other files.
IsDir(d) ==
    \E names \in SUBSET FileNames :
        d \in [subdir: BOOLEAN, kustomization: FileNames \cup {""},
               configurations: BOOLEAN, files: [names -> Manifest]]

Absent == [subdir |-> FALSE, kustomization |-> "", configurations |-> FALSE,
           files |-> [f \in {} |-> 0]]

ASSUME TemplateAssumption ==
    /\ "" \notin FileNames
    /\ \A d \in UserDirs : IsDir(d)
    /\ MaxEdits \in Nat

\* The only file besides kustomization.yaml and configurations.yaml.
OnlyManifest(d) == CHOOSE f \in DOMAIN d.files : TRUE
OneManifest(d) ==
    ~d.subdir /\ \E f \in DOMAIN d.files : DOMAIN d.files = {f}

\* addClusterAutoscalerAnnotations: an annotation that is there stays.
Filled(a) ==
    [min |-> IF a.min = "" THEN "flag" ELSE a.min,
     max |-> IF a.max = "" THEN "flag" ELSE a.max]

\* Prepare: the manifest as it is written back.
Prepare(m) ==
    [m EXCEPT !.ns = FALSE,
              !.deployments = {Filled(a) : a \in m.deployments}]

\* prepareDir and Prepare refuse: no directory, a subdirectory, no or
\* several manifests, no or several clusters in it.
PrepareDirFails(d) ==
    ~(OneManifest(d) /\ d.files[OnlyManifest(d)].clusters = 1)

BadPrepareDirNoConfigurations(d) ==
    LET f == OnlyManifest(d)
    IN  [d EXCEPT !.files[f] = Prepare(@),
                  !.kustomization = IF @ = "" THEN f ELSE @]

\* prepareDir: the two files are generated where they are missing.
PrepareDir(d) ==
    LET f == OnlyManifest(d)
    IN  [d EXCEPT !.files[f] = Prepare(@),
                  !.kustomization = IF @ = "" THEN f ELSE @,
                  !.configurations = TRUE]

\* validateDir and Validate.
ValidateDir(d) ==
    /\ OneManifest(d)
    /\ d.kustomization # ""
    /\ d.configurations
    /\ ~d.files[OnlyManifest(d)].ns
    /\ d.files[OnlyManifest(d)].clusters = 1

\* A command that has committed in its clone: the revision it cloned and what
\* it pushes.  path is the directory that it prepares; NoPath: init's pushes.
NoPath == "none"
IsTree(tree) ==
    /\ tree = [d \in Paths |-> tree[d]]
    /\ \A d \in Paths : IsDir(tree[d])
IsBranch(b) == b = [rev |-> b.rev, tree |-> b.tree]
               /\ b.rev \in Nat /\ IsTree(b.tree)
IsJob(j) ==
    \/ j \in {Idle, Ended("ok"), Ended("failed")}
    \/ /\ j \in [step: {"push"}, url: Urls, base: Nat, tree: {j.tree},
                 path: Paths \cup {NoPath}]
       /\ IsTree(j.tree)

ASSUME PathAssumption == NoPath \notin Paths

NoJob(p) == job[p].step \in {"idle", "ok", "failed"}

----------------------------------------------------------------------------
TemplateInit ==
    /\ repo = [u \in Urls |-> [rev |-> 0, tree |-> [d \in Paths |-> Absent]]]
    /\ job = [p \in Procs |-> Idle]
    /\ prepared = [u \in Urls |-> [d \in Paths |-> FALSE]]
    /\ edits = 0

\* A clone, a change of the tree and a commit, all in a temporary directory;
\* nothing is pushed when there is nothing to commit.
CommitChanges(p, u, tree, path) ==
    \/ /\ tree = repo[u].tree
       /\ job' = [job EXCEPT ![p] = Ended("ok")]
       /\ prepared' = IF path = NoPath THEN prepared
                      ELSE [prepared EXCEPT ![u][path] = TRUE]
    \/ /\ tree # repo[u].tree
       /\ job' = [job EXCEPT ![p] =
             [step |-> "push", url |-> u, base |-> repo[u].rev, tree |-> tree,
              path |-> path]]
       /\ UNCHANGED prepared

\* PrepareGitDir up to the commit.
PrepareGitDir(p, u, path) ==
    LET d == repo[u].tree[path]
    IN  \/ /\ PrepareDirFails(d)
           /\ job' = [job EXCEPT ![p] = Ended("failed")]
           /\ UNCHANGED prepared
        \/ /\ ~PrepareDirFails(d)
           /\ CommitChanges(p, u,
                  [repo[u].tree EXCEPT ![path] = PrepareDir(d)], path)

\* GetRepoCredsFromArgoCd: the repositories, of at most one url, whose
\* credentials are found.
WithCreds(us) == us \cap argoRepos

\* arlon clustertemplate preparegit, for the urls its flags resolve to: none
\* if the alias is not there or the file does not parse.
PrepareGit(p, us, path) ==
    /\ NoJob(p)
    /\ \/ /\ WithCreds(us) = {}
          /\ job' = [job EXCEPT ![p] = Ended("failed")]
          /\ UNCHANGED prepared
       \/ \E u \in WithCreds(us) : PrepareGitDir(p, u, path)
    /\ UNCHANGED <<repo, edits, faults>>

\* The clone fails.
CloneFails(p) ==
    /\ NoJob(p)
    /\ faults < MaxFaults
    /\ faults' = faults + 1
    /\ job' = [job EXCEPT ![p] = Ended("failed")]
    /\ UNCHANGED <<repo, prepared, edits>>

\* Which directories the last writer was preparegit of, when the branch of u
\* becomes tree.
PreparedAfter(u, tree, path) ==
    [prepared EXCEPT ![u] = [d \in Paths |->
        \/ d = path
        \/ @[d] /\ tree[d] = repo[u].tree[d]]]

BadPushForces(p) ==
    /\ job[p].step = "push"
    /\ repo' = [repo EXCEPT ![job[p].url] =
                   [rev |-> @.rev + 1, tree |-> job[p].tree]]
    /\ prepared' = PreparedAfter(job[p].url, job[p].tree, job[p].path)
    /\ job' = [job EXCEPT ![p] = Ended("ok")]
    /\ UNCHANGED <<edits, faults, commands>>

\* The server refuses a push that is not a fast-forward; nothing retries.
Push(p) ==
    LET u == job[p].url
        fast == job[p].base = repo[u].rev
    IN  /\ job[p].step = "push"
        /\ IF fast
           THEN /\ repo' = [repo EXCEPT ![u] =
                               [rev |-> @.rev + 1, tree |-> job[p].tree]]
                /\ prepared' = PreparedAfter(u, job[p].tree, job[p].path)
           ELSE UNCHANGED <<repo, prepared>>
        /\ job' = [job EXCEPT ![p] = Ended(IF fast THEN "ok" ELSE "failed")]
        /\ UNCHANGED <<edits, faults, commands>>

\* The push fails, or its answer is lost on the way back.
PushFails(p) ==
    LET u == job[p].url
    IN  /\ job[p].step = "push"
        /\ faults < MaxFaults
        /\ faults' = faults + 1
        /\ \/ UNCHANGED <<repo, prepared>>
           \/ /\ job[p].base = repo[u].rev
              /\ repo' = [repo EXCEPT ![u] =
                             [rev |-> @.rev + 1, tree |-> job[p].tree]]
              /\ prepared' = PreparedAfter(u, job[p].tree, job[p].path)
        /\ job' = [job EXCEPT ![p] = Ended("failed")]
        /\ UNCHANGED <<edits, commands>>

\* A user pushes a directory.
UserPushes(u, path) ==
    /\ edits < MaxEdits
    /\ edits' = edits + 1
    /\ \E d \in UserDirs \cup {Absent} :
          /\ repo' = [repo EXCEPT ![u] =
                         [rev |-> @.rev + 1, tree |-> [@.tree EXCEPT ![path] = d]]]
          /\ prepared' = [prepared EXCEPT ![u][path] = FALSE]
    /\ UNCHANGED <<job, faults, commands>>

\* A user starts arlon clustertemplate preparegit, with --repo-url or with
\* --repo-alias.
StartPrepareGit(p, path) ==
    /\ commands < MaxCommands
    /\ commands' = commands + 1
    /\ \/ \E u \in Urls : PrepareGit(p, {u}, path)
       \/ \E a \in Aliases : PrepareGit(p, GetRepoUrl(file.contents, a), path)
       \/ CloneFails(p)

TemplateStep(p) == Push(p) \/ PushFails(p)

----------------------------------------------------------------------------
(* Properties *)

TemplateTypeOK ==
    /\ repo = [u \in Urls |-> repo[u]] /\ \A u \in Urls : IsBranch(repo[u])
    /\ job = [p \in Procs |-> job[p]] /\ \A p \in Procs : IsJob(job[p])
    /\ prepared \in [Urls -> [Paths -> BOOLEAN]]
    /\ edits \in 0 .. MaxEdits

\* What preparegit has written, and nobody since, passes validategit, and
\* preparing it once more would change nothing, whatever the directory was
\* before and whoever pushed in between (docs/clustertemplate.md: preparation
\* makes a directory compliant; a second one finds it compliant).
PreparedValidates ==
    \A u \in Urls, d \in Paths :
        prepared[u][d] =>
            /\ ValidateDir(repo[u].tree[d])
            /\ ~PrepareDirFails(repo[u].tree[d])
            /\ PrepareDir(repo[u].tree[d]) = repo[u].tree[d]

\* Between a directory and its prepared form, nothing of the user's is lost:
\* the same files with the same clusters and node groups, every annotation
\* and kustomization.yaml that the user wrote.
KeepsUsers(old, new) ==
    /\ DOMAIN new.files = DOMAIN old.files
    /\ new.subdir = old.subdir
    /\ old.kustomization # "" => new.kustomization = old.kustomization
    /\ old.configurations => new.configurations
    /\ \A f \in DOMAIN old.files :
          /\ new.files[f].clusters = old.files[f].clusters
          /\ \A a \in old.files[f].deployments :
                \E b \in new.files[f].deployments :
                    /\ a.min # "" => b.min = a.min
                    /\ a.max # "" => b.max = a.max

\* A push of preparegit changes one directory only, the other ones being what
\* they were the moment before, not when it cloned, and keeps what users
\* wrote in that one: a push of a user between the clone and the push of the
\* command is never undone.
EditsKept ==
    [][\A p \in Procs, u \in Urls :
          /\ job[p].step = "push" /\ job[p].path # NoPath
          /\ job'[p].step # "push"
          /\ repo'[u] # repo[u]
          => /\ \A d \in Paths \ {job[p].path} :
                   repo'[u].tree[d] = repo[u].tree[d]
             /\ KeepsUsers(repo[u].tree[job[p].path],
                           repo'[u].tree[job[p].path])]_<<aliasVars, templateVars>>

----------------------------------------------------------------------------
(* Why they hold *)

\* A push that the server will take replaces one directory of the branch, the
\* one it cloned, by its prepared form.
PushInv(p) ==
    job[p].step = "push" =>
        LET branch == repo[job[p].url]
        IN  /\ job[p].base <= branch.rev
            /\ job[p].path # NoPath /\ job[p].base = branch.rev =>
                  /\ ~PrepareDirFails(branch.tree[job[p].path])
                  /\ job[p].tree = [branch.tree EXCEPT
                         ![job[p].path] = PrepareDir(branch.tree[job[p].path])]

TemplateInv ==
    /\ PreparedValidates
    /\ \A p \in Procs : PushInv(p)
=============================================================================
