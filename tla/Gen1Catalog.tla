----------------------------- MODULE Gen1Catalog -----------------------------
(***************************************************************************)
(* The first-generation library behind the arlon commands: bundles         *)
(* (pkg/bundle), profiles (pkg/profile), cluster specs (pkg/clusterspec)   *)
(* and the clusters deployed from them (pkg/cluster create.go, update.go,  *)
(* delete.go).  A command is a process of its own: it reads Kubernetes,    *)
(* clones the workspace repository, rewrites one directory, pushes, and    *)
(* then creates or updates the resource.  Nothing locks the steps of one   *)
(* command against those of another; the git server refuses a push that is *)
(* not a fast-forward, and the API server an update of an old version.     *)
(***************************************************************************)
EXTENDS Naturals

CONSTANTS
    Procs,          \* commands that may run at the same time
    Bundles, Profiles, Specs, Clusters,     \* names
    Data,           \* contents of a static bundle
    Values,         \* values of a bundle's parameter override
    Charts,         \* API provider, cloud provider and cluster type
    Regions,
    None,           \* absent
    BundlesAtStart, \* the bundles and cluster specs registered at the start
    SpecsAtStart,
    Requests,       \* what commands ask of profiles (subset of Given)
    MayFail,        \* whether calls may fail and commands be interrupted
    MaxCommands     \* bound: commands started

VARIABLES
    bundles,    \* the secrets of the bundles
    profiles,   \* the Profile resources
    specs,      \* the config maps of the cluster specs
    apps,       \* the root applications in Argo CD, one per cluster
    branch,     \* the branch of the workspace repository: revision and tree
    proc,       \* the commands in progress
    etcd,       \* the API server's revision counter
    acked,      \* history: what successful commands asked of a profile
    settled,    \* history: the last command on it ran alone and succeeded
    commands    \* commands started so far

vars == <<bundles, profiles, specs, apps, branch, proc, etcd, acked, settled,
          commands>>

----------------------------------------------------------------------------
(* Data *)

Dirs == Profiles \cup Clusters
Targets == Dirs \cup Specs

Bundle == [kind: {"static"}, data: Data] \cup [kind: {"dynamic"}]

\* One parameter per bundle: None where the profile does not override it.
Overrides == [Bundles -> Values \cup {None}]
NoOverrides == [b \in Bundles |-> None]

Profile == [rv: Nat, bundles: SUBSET Bundles, dynamic: BOOLEAN,
            overrides: Overrides]
ClusterSpec == [chart: Charts, region: Regions]
RootApp == [uid: Nat, spec: Specs, profile: Profiles, chart: Charts,
            region: Regions]

\* The application manifest of a bundle: with its data beside it in the tree,
\* or with its repository and overrides.
Item == [kind: {"static"}, value: Data]
        \cup [kind: {"dynamic"}, value: Values \cup {None}]

\* A directory: the manifests of the bundles, or one application that points
\* to the directory of a dynamic profile (ref).  profile is history: the
\* profile that the files were generated from.
Tree == UNION {[profile: Profiles, ref: BOOLEAN, items: [bs -> Item]] :
                  bs \in SUBSET Bundles}
Branch == [rev: Nat, tree: [Dirs -> Tree \cup {None}]]

\* What a command asks of a profile: a bundle set (or None) and overrides.
Given == [bundles: (SUBSET Bundles) \cup {None}, overrides: Overrides]
NothingGiven == [bundles |-> None, overrides |-> NoOverrides]

\* Profiles, specs and clusters do not share names: their resources are of
\* different kinds and their directories below different paths.
ASSUME ConstantsAssumption ==
    /\ Profiles \cap Specs = {}
    /\ Profiles \cap Clusters = {}
    /\ Specs \cap Clusters = {}
    /\ None \notin Data \cup Values \cup Tree
    /\ BundlesAtStart \in [Bundles -> Bundle \cup {None}]
    /\ SpecsAtStart \in [Specs -> ClusterSpec \cup {None}]
    /\ Requests \subseteq Given
    /\ MayFail \in BOOLEAN
    /\ MaxCommands \in Nat

Idle == [op |-> "idle"]
Command ==
    [op: {"CreateProfile", "UpdateProfile", "CreateCluster", "UpdateCluster",
          "UpdateSpec"},
     on: Targets,                               \* what it is about
     step: {"clone", "push", "apply"},          \* the call it makes next
     new: Profile \cup RootApp \cup ClusterSpec, \* the object it will write
     given: Given,                              \* what its flags ask for
     tree: Tree \cup {None},                    \* the directory it generates
     wt: Branch \cup {None},                    \* its clone
     alone: BOOLEAN]                            \* history: no overlap so far

Existing == {b \in Bundles : bundles[b] # None}

\* profile/update.go: an override that is given replaces the one of the same
\* bundle and key; the others stay.
Merged(old, given) ==
    [b \in Bundles |-> IF given[b] # None THEN given[b] ELSE old[b]]

BadProcessBundlesOverridesAll(prof) ==
    [b \in prof.bundles |->
        [kind |-> bundles[b].kind, value |-> prof.overrides[b]]]

\* gitutils/bundles.go: overrides only reach dynamic bundles.
ProcessBundles(prof) ==
    [b \in prof.bundles |->
        IF bundles[b].kind = "static"
        THEN [kind |-> "static", value |-> bundles[b].data]
        ELSE [kind |-> "dynamic", value |-> prof.overrides[b]]]

\* The directory of a dynamic profile (createInGit).
ProfileTree(n, prof) ==
    [profile |-> n, ref |-> FALSE, items |-> ProcessBundles(prof)]

\* The directory of a cluster (DeployToGit): a dynamic profile is referred to,
\* a static one is copied.
ClusterTree(n, prof) ==
    [profile |-> n, ref |-> prof.dynamic,
     items |-> IF prof.dynamic THEN <<>> ELSE ProcessBundles(prof)]

BadWrittenKeepsOld(wt, d, tree) ==
    IF wt[d] = None THEN [wt EXCEPT ![d] = tree]
    ELSE [wt EXCEPT ![d] = [tree EXCEPT !.items =
             [b \in DOMAIN tree.items \cup DOMAIN wt[d].items |->
                 IF b \in DOMAIN tree.items THEN tree.items[b]
                 ELSE wt[d].items[b]]]]

\* The old directory is removed from the clone and generated again.
Written(wt, d, tree) == [wt EXCEPT ![d] = tree]

ConstructRootApp(uid, s, n) ==
    [uid |-> uid, spec |-> s, profile |-> n, chart |-> specs[s].chart,
     region |-> specs[s].region]

TypeOK ==
    /\ bundles \in [Bundles -> Bundle \cup {None}]
    /\ profiles \in [Profiles -> Profile \cup {None}]
    /\ specs \in [Specs -> ClusterSpec \cup {None}]
    /\ apps \in [Clusters -> RootApp \cup {None}]
    /\ branch \in Branch
    /\ proc \in [Procs -> Command \cup {Idle}]
    /\ etcd \in Nat
    /\ acked \in [Profiles -> Given]
    /\ settled \in [Dirs -> BOOLEAN]
    /\ commands \in 0..MaxCommands

Init ==
    /\ bundles = BundlesAtStart
    /\ specs = SpecsAtStart
    /\ profiles = [n \in Profiles |-> None]
    /\ apps = [c \in Clusters |-> None]
    /\ branch = [rev |-> 0, tree |-> [d \in Dirs |-> None]]
    /\ proc = [p \in Procs |-> Idle]
    /\ etcd = 0
    /\ acked = [n \in Profiles |-> NothingGiven]
    /\ settled = [d \in Dirs |-> FALSE]
    /\ commands = 0

----------------------------------------------------------------------------
(* Commands of a single call *)

OneMore == commands < MaxCommands /\ commands' = commands + 1

\* bundle.Create: a secret of that name must not exist.
CreateBundle(b, s) ==
    /\ OneMore
    /\ bundles[b] = None
    /\ bundles' = [bundles EXCEPT ![b] = s]
    /\ UNCHANGED <<profiles, specs, apps, branch, proc, etcd, acked, settled>>

\* bundle.Update: new contents, for static bundles only.
UpdateBundle(b, d) ==
    /\ OneMore
    /\ bundles[b] # None
    /\ bundles[b].kind = "static"
    /\ bundles' = [bundles EXCEPT ![b].data = d]
    /\ UNCHANGED <<profiles, specs, apps, branch, proc, etcd, acked, settled>>

\* bundle.Delete: whether a profile uses it or not.
DeleteBundle(b) ==
    /\ OneMore
    /\ bundles[b] # None
    /\ bundles' = [bundles EXCEPT ![b] = None]
    /\ UNCHANGED <<profiles, specs, apps, branch, proc, etcd, acked, settled>>

CreateSpec(s, new) ==
    /\ OneMore
    /\ specs[s] = None
    /\ specs' = [specs EXCEPT ![s] = new]
    /\ UNCHANGED <<bundles, profiles, apps, branch, proc, etcd, acked, settled>>

DeleteSpec(s) ==
    /\ OneMore
    /\ specs[s] # None
    /\ specs' = [specs EXCEPT ![s] = None]
    /\ UNCHANGED <<bundles, profiles, apps, branch, proc, etcd, acked, settled>>

\* profile.Delete: the directory in git stays.
DeleteProfile(n) ==
    /\ OneMore
    /\ profiles[n] # None
    /\ profiles' = [profiles EXCEPT ![n] = None]
    /\ acked' = [acked EXCEPT ![n] = NothingGiven]
    /\ UNCHANGED <<bundles, specs, apps, branch, proc, etcd, settled>>

\* cluster.Delete of a gen1 cluster: the directory in git stays.
DeleteCluster(c) ==
    /\ OneMore
    /\ apps[c] # None
    /\ apps' = [apps EXCEPT ![c] = None]
    /\ UNCHANGED <<bundles, profiles, specs, branch, proc, etcd, acked,
                   settled>>

----------------------------------------------------------------------------
(* The reads of a command: it starts with everything it has computed *)

Active(d) == {p \in Procs : proc[p] # Idle /\ proc[p].on = d}

Start(p, op, d, step, new, given, tree) ==
    /\ OneMore
    /\ proc[p] = Idle
    /\ proc' = [q \in Procs |->
           IF q = p
           THEN [op |-> op, on |-> d, step |-> step, new |-> new,
                 given |-> given, tree |-> tree, wt |-> None,
                 alone |-> Active(d) = {}]
           ELSE IF q \in Active(d) THEN [proc[q] EXCEPT !.alone = FALSE]
           ELSE proc[q]]
    /\ UNCHANGED <<bundles, profiles, specs, apps, branch, etcd, acked,
                   settled>>

\* profile.Create: the bundles must exist; only a dynamic profile goes to git.
\* Whether the profile exists already is not asked.
CreateProfile(p, n, given, dynamic) ==
    LET new == [rv |-> 0, bundles |-> given.bundles, dynamic |-> dynamic,
                overrides |-> given.overrides]
    IN /\ given.bundles # None     \* a mandatory flag
       /\ given.bundles \subseteq Existing
       /\ IF dynamic
          THEN Start(p, "CreateProfile", n, "clone", new, given,
                     ProfileTree(n, new))
          ELSE Start(p, "CreateProfile", n, "apply", new, given, None)

\* profile.Update: no bundle set is given when it is to stay, and for --clear
\* too.  A changed description alone also gets here.
UpdateProfile(p, n, given) ==
    LET old == profiles[n]
        new == [old EXCEPT
                   !.bundles = IF given.bundles = None THEN @
                               ELSE given.bundles,
                   !.overrides = Merged(@, given.overrides)]
    IN /\ given.bundles # None => given.bundles \subseteq Existing
       /\ old # None
       /\ IF old.dynamic
          THEN /\ new.bundles \subseteq Existing
               /\ Start(p, "UpdateProfile", n, "clone", new, given,
                        ProfileTree(n, new))
          ELSE Start(p, "UpdateProfile", n, "apply", new, given, None)

\* cluster.Create with a cluster spec, after profile.Get.
CreateCluster(p, c, s, n) ==
    /\ profiles[n] # None
    /\ apps[c] = None
    /\ specs[s] # None
    /\ profiles[n].bundles \subseteq Existing
    /\ Start(p, "CreateCluster", c, "clone", ConstructRootApp(0, s, n),
             NothingGiven, ClusterTree(n, profiles[n]))

\* cluster.Update: the new spec must have the chart of the old application.
SameChart(c, s) == specs[s].chart = apps[c].chart

UpdateCluster(p, c, s, n) ==
    /\ apps[c] # None
    /\ profiles[n] # None
    /\ specs[s] # None
    /\ SameChart(c, s)
    /\ profiles[n].bundles \subseteq Existing
    /\ Start(p, "UpdateCluster", c, "clone",
             ConstructRootApp(apps[c].uid, s, n), NothingGiven,
             ClusterTree(n, profiles[n]))

\* clusterspec.Update keeps provider, cloud, type and region as it read them.
UpdateSpec(p, s) ==
    /\ specs[s] # None
    /\ Start(p, "UpdateSpec", s, "apply", specs[s], NothingGiven, None)

----------------------------------------------------------------------------
(* The git steps *)

\* argocd.CloneRepo
CloneRepo(p) ==
    /\ proc[p] # Idle
    /\ proc[p].step = "clone"
    /\ proc' = [proc EXCEPT ![p].step = "push", ![p].wt = branch]
    /\ UNCHANGED <<bundles, profiles, specs, apps, branch, etcd, acked,
                   settled, commands>>

FastForward(p) == proc[p].wt.rev = branch.rev

BadPushIgnoresRefusal(p) ==
    /\ proc[p] # Idle
    /\ proc[p].step = "push"
    /\ proc' = [proc EXCEPT ![p].step = "apply", ![p].wt = None]
    /\ IF FastForward(p)
       THEN /\ branch' = [rev |-> branch.rev + 1,
                          tree |-> Written(proc[p].wt.tree, proc[p].on,
                                           proc[p].tree)]
            /\ settled' = [settled EXCEPT ![proc[p].on] = FALSE]
       ELSE UNCHANGED <<branch, settled>>
    /\ UNCHANGED <<bundles, profiles, specs, apps, etcd, acked, commands>>

BadPushForces(p) ==
    /\ proc[p] # Idle
    /\ proc[p].step = "push"
    /\ branch' = [rev |-> branch.rev + 1,
                  tree |-> Written(proc[p].wt.tree, proc[p].on, proc[p].tree)]
    /\ settled' = [settled EXCEPT ![proc[p].on] = FALSE]
    /\ proc' = [proc EXCEPT ![p].step = "apply", ![p].wt = None]
    /\ UNCHANGED <<bundles, profiles, specs, apps, etcd, acked, commands>>

\* The directory is written, committed and pushed; a refused push ends the
\* command.
Push(p) ==
    /\ proc[p] # Idle
    /\ proc[p].step = "push"
    /\ IF FastForward(p)
       THEN /\ branch' = [rev |-> branch.rev + 1,
                          tree |-> Written(proc[p].wt.tree, proc[p].on,
                                           proc[p].tree)]
            /\ settled' = [settled EXCEPT ![proc[p].on] = FALSE]
            /\ proc' = [proc EXCEPT ![p].step = "apply", ![p].wt = None]
       ELSE /\ proc' = [proc EXCEPT ![p] = Idle]
            /\ UNCHANGED <<branch, settled>>
    /\ UNCHANGED <<bundles, profiles, specs, apps, etcd, acked, commands>>

----------------------------------------------------------------------------
(* The write that ends a command, with or without success *)

Applies(p, op) ==
    /\ proc[p] # Idle
    /\ proc[p].op = op
    /\ proc[p].step = "apply"
    /\ proc' = [proc EXCEPT ![p] = Idle]
    /\ UNCHANGED <<bundles, branch, commands>>

\* cli.Create fails when there is a profile of that name.
ApplyCreateProfile(p) ==
    LET n == proc[p].on
    IN /\ Applies(p, "CreateProfile")
       /\ IF profiles[n] = None
          THEN /\ profiles' = [profiles EXCEPT
                                  ![n] = [proc[p].new EXCEPT !.rv = etcd + 1]]
               /\ etcd' = etcd + 1
               /\ acked' = [acked EXCEPT ![n] = proc[p].given]
               /\ settled' = [settled EXCEPT ![n] = proc[p].alone]
          ELSE UNCHANGED <<profiles, etcd, acked, settled>>
       /\ UNCHANGED <<specs, apps>>

\* cli.Update fails unless the profile is the version that was read.
SameVersion(p) ==
    LET n == proc[p].on
    IN profiles[n] # None /\ profiles[n].rv = proc[p].new.rv

Acknowledged(old, given) ==
    [bundles |-> IF given.bundles = None THEN old.bundles ELSE given.bundles,
     overrides |-> Merged(old.overrides, given.overrides)]

BadApplyUpdateProfileAnyVersion(p) ==
    LET n == proc[p].on
    IN /\ Applies(p, "UpdateProfile")
       /\ IF profiles[n] # None
          THEN /\ profiles' = [profiles EXCEPT
                                  ![n] = [proc[p].new EXCEPT !.rv = etcd + 1]]
               /\ etcd' = etcd + 1
               /\ acked' = [acked EXCEPT
                     ![n] = Acknowledged(@, proc[p].given)]
               /\ settled' = [settled EXCEPT ![n] = proc[p].alone]
          ELSE UNCHANGED <<profiles, etcd, acked, settled>>
       /\ UNCHANGED <<specs, apps>>

ApplyUpdateProfile(p) ==
    LET n == proc[p].on
    IN /\ Applies(p, "UpdateProfile")
       /\ IF SameVersion(p)
          THEN /\ profiles' = [profiles EXCEPT
                                  ![n] = [proc[p].new EXCEPT !.rv = etcd + 1]]
               /\ etcd' = etcd + 1
               /\ acked' = [acked EXCEPT
                     ![n] = Acknowledged(@, proc[p].given)]
               /\ settled' = [settled EXCEPT ![n] = proc[p].alone]
          ELSE UNCHANGED <<profiles, etcd, acked, settled>>
       /\ UNCHANGED <<specs, apps>>

\* Argo CD refuses a second application of a name.
ApplyCreateCluster(p) ==
    LET c == proc[p].on
    IN /\ Applies(p, "CreateCluster")
       /\ IF apps[c] = None
          THEN /\ apps' = [apps EXCEPT
                              ![c] = [proc[p].new EXCEPT !.uid = etcd + 1]]
               /\ etcd' = etcd + 1
               /\ settled' = [settled EXCEPT ![c] = proc[p].alone]
          ELSE UNCHANGED <<apps, etcd, settled>>
       /\ UNCHANGED <<profiles, specs, acked>>

\* Argo CD replaces the application of that name, whatever its version.
ApplyUpdateCluster(p) ==
    LET c == proc[p].on
    IN /\ Applies(p, "UpdateCluster")
       /\ IF apps[c] # None
          THEN /\ apps' = [apps EXCEPT
                              ![c] = [proc[p].new EXCEPT !.uid = apps[c].uid]]
               /\ settled' = [settled EXCEPT ![c] = proc[p].alone]
          ELSE UNCHANGED <<apps, settled>>
       /\ UNCHANGED <<profiles, specs, etcd, acked>>

\* ToConfigMap carries no version: the update of an existing map succeeds.
ApplyUpdateSpec(p) ==
    LET s == proc[p].on
    IN /\ Applies(p, "UpdateSpec")
       /\ specs' = IF specs[s] # None
                   THEN [specs EXCEPT ![s] = proc[p].new] ELSE specs
       /\ UNCHANGED <<profiles, apps, etcd, acked, settled>>

\* Any call may fail and any command be interrupted; nothing is undone.
Fail(p) ==
    /\ MayFail
    /\ proc[p] # Idle
    /\ proc' = [proc EXCEPT ![p] = Idle]
    /\ UNCHANGED <<bundles, profiles, specs, apps, branch, etcd, acked,
                   settled, commands>>

Step(p) ==
    \/ CloneRepo(p)
    \/ Push(p)
    \/ ApplyCreateProfile(p)
    \/ ApplyUpdateProfile(p)
    \/ ApplyCreateCluster(p)
    \/ ApplyUpdateCluster(p)
    \/ ApplyUpdateSpec(p)

Run(p) ==
    \/ \E n \in Profiles, given \in Requests :
          \/ \E dynamic \in BOOLEAN : CreateProfile(p, n, given, dynamic)
          \/ UpdateProfile(p, n, given)
    \/ \E c \in Clusters, s \in Specs, n \in Profiles :
          CreateCluster(p, c, s, n) \/ UpdateCluster(p, c, s, n)
    \/ \E s \in Specs : UpdateSpec(p, s)

RunOneCall ==
    \/ \E b \in Bundles :
          \/ \E s \in Bundle : CreateBundle(b, s)
          \/ \E d \in Data : UpdateBundle(b, d)
          \/ DeleteBundle(b)
    \/ \E s \in Specs : DeleteSpec(s) \/ \E new \in ClusterSpec : CreateSpec(s, new)
    \/ \E n \in Profiles : DeleteProfile(n)
    \/ \E c \in Clusters : DeleteCluster(c)

Next ==
    \/ RunOneCall
    \/ \E p \in Procs : Run(p) \/ Step(p) \/ Fail(p)

Spec == Init /\ [][Next]_vars

----------------------------------------------------------------------------
(* Properties *)

\* A dynamic profile that exists has its compiled directory in git, and a
\* cluster known to Argo CD has its tree: git is written before the resource
\* (profile.Create, cluster.Create), and nothing takes a directory away, not
\* even commands that fail, overlap or work on an old clone.
ResourceHasTree ==
    /\ \A n \in Profiles :
          (profiles[n] # None /\ profiles[n].dynamic) => branch.tree[n] # None
    /\ \A c \in Clusters : apps[c] # None => branch.tree[c] # None

\* The application that DeployToGit writes for a dynamic profile points to a
\* directory that is there, also when the profile was deleted or is being
\* created by another command.
ReferencesResolve ==
    \A c \in Clusters :
        (branch.tree[c] # None /\ branch.tree[c].ref)
            => branch.tree[branch.tree[c].profile] # None

\* Nothing dangles: neither a resource without its directory nor a directory
\* that refers to one that is not there.
NothingDangles == ResourceHasTree /\ ReferencesResolve

\* No update of a profile is lost: what the last successful command that named
\* a bundle set or an override asked for is what the profile says, although
\* every update writes back the whole resource that it read earlier.
NoLostUpdate ==
    \A n \in Profiles : profiles[n] # None =>
        /\ acked[n].bundles # None => profiles[n].bundles = acked[n].bundles
        /\ \A b \in Bundles : acked[n].overrides[b] # None =>
               profiles[n].overrides[b] = acked[n].overrides[b]

\* A compiled directory agrees with a profile: the same bundles, and the
\* same overrides for the dynamic ones.
CompiledFrom(tree, prof) ==
    /\ DOMAIN tree.items = prof.bundles
    /\ \A b \in DOMAIN tree.items : tree.items[b].kind = "dynamic" =>
          tree.items[b].value = prof.overrides[b]

Compiled(n) == CompiledFrom(branch.tree[n], profiles[n])

\* After a command that ran without another one on the same profile or cluster
\* and succeeded, git and the resource agree, whatever earlier commands left
\* behind: a profile is compiled from its own bundles and no other, and a
\* cluster's tree comes from the profile its application names.
SettledAgrees ==
    /\ \A n \in Profiles :
          (settled[n] /\ profiles[n] # None /\ profiles[n].dynamic) => Compiled(n)
    /\ \A c \in Clusters :
          (settled[c] /\ apps[c] # None)
              => branch.tree[c].profile = apps[c].profile

\* A push changes only the directory of its own command: commits that others
\* pushed since the clone are never undone.
OthersKept ==
    [][\A d \in Dirs : branch'.tree[d] # branch.tree[d] =>
          \E p \in Procs : proc[p] # Idle /\ proc[p].step = "push"
                           /\ proc[p].on = d]_vars

----------------------------------------------------------------------------
(* The inductive invariant behind NothingDangles, NoLostUpdate,             *)
(* SettledAgrees and OthersKept: what a command in progress may rely on     *)

ProfileOps == {"CreateProfile", "UpdateProfile"}
ClusterOps == {"CreateCluster", "UpdateCluster"}

\* The command has its push still ahead.
BeforePush(cmd) == cmd.step \in {"clone", "push"}

\* What a command will write is of the kind of its target, and the directory
\* is generated from it.
WellFormed(cmd) ==
    /\ cmd.op \in ProfileOps => cmd.on \in Profiles /\ cmd.new \in Profile
    /\ cmd.op \in ClusterOps => cmd.on \in Clusters /\ cmd.new \in RootApp
    /\ cmd.op = "UpdateSpec" => cmd.on \in Specs /\ cmd.new \in ClusterSpec
    /\ BeforePush(cmd) =>
          /\ cmd.op # "UpdateSpec"
          /\ cmd.tree \in Tree
          /\ cmd.op \in ProfileOps => CompiledFrom(cmd.tree, cmd.new)
          /\ cmd.op \in ClusterOps => cmd.tree.profile = cmd.new.profile

\* A clone of the branch's present revision has the branch's tree.
CloneInv(cmd, br) ==
    cmd.step = "push" =>
        /\ cmd.wt \in Branch
        /\ cmd.wt.rev <= br.rev
        /\ cmd.wt.rev = br.rev => cmd.wt.tree = br.tree

\* The directory that a cluster's tree will refer to is there.
ReferenceInv(cmd, br) ==
    BeforePush(cmd) /\ cmd.op \in ClusterOps /\ cmd.tree.ref =>
        br.tree[cmd.tree.profile] # None

\* After the push the directory is there; if no other command was about it,
\* it is the one that this command generated.
PushedInv(cmd, br) ==
    /\ cmd.step = "apply" /\ cmd.op \in ProfileOps /\ cmd.new.dynamic =>
          /\ br.tree[cmd.on] # None
          /\ cmd.alone => CompiledFrom(br.tree[cmd.on], cmd.new)
    /\ cmd.step = "apply" /\ cmd.op \in ClusterOps =>
          /\ br.tree[cmd.on] # None
          /\ cmd.alone => br.tree[cmd.on].profile = cmd.new.profile

\* As long as the profile has the version that was read, what an update will
\* write differs from it by what was asked for.
ReadInv(cmd, profs, rev) ==
    /\ cmd.op = "CreateProfile" =>
          /\ cmd.new.bundles = cmd.given.bundles
          /\ cmd.new.overrides = cmd.given.overrides
    /\ cmd.op = "UpdateProfile" =>
          /\ cmd.new.rv <= rev
          /\ profs[cmd.on] # None /\ profs[cmd.on].rv = cmd.new.rv =>
                /\ cmd.given.bundles = None =>
                      cmd.new.bundles = profs[cmd.on].bundles
                /\ cmd.given.bundles # None =>
                      cmd.new.bundles = cmd.given.bundles
                /\ cmd.new.overrides =
                      Merged(profs[cmd.on].overrides, cmd.given.overrides)

CommandInv(cmd, br, profs, rev) ==
    /\ WellFormed(cmd)
    /\ CloneInv(cmd, br)
    /\ ReferenceInv(cmd, br)
    /\ PushedInv(cmd, br)
    /\ ReadInv(cmd, profs, rev)

CommandsInv ==
    \A p \in Procs : proc[p] # Idle =>
        CommandInv(proc[p], branch, profiles, etcd)

\* Of two commands about the same thing neither is alone.
AloneInv ==
    \A p, q \in Procs :
        (p # q /\ proc[p] # Idle /\ proc[q] # Idle /\ proc[p].on = proc[q].on)
            => ~proc[p].alone

VersionsInv == \A n \in Profiles : profiles[n] # None => profiles[n].rv <= etcd

IndInv ==
    /\ TypeOK
    /\ CommandsInv
    /\ AloneInv
    /\ VersionsInv
    /\ NothingDangles
    /\ NoLostUpdate
    /\ SettledAgrees
==============================================================================
