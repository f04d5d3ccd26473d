# Arlon: TLA+ models of the controllers and of the commands

Arlon manages workload clusters and the applications on them from a management
cluster. Everything it wants to exist is an Argo CD application or a
Kubernetes resource, and what it decides is decided by *reconcilers*: functions
that are called with the key of a resource whenever the resource changes, a
timer fires or an earlier call failed. This project models those reconcilers
together with their surroundings (the API server, the informer cache, the work
queue, Argo CD, git and the users), and the commands that change git, Argo CD and
the API server without a controller: those of the first generation (gen1),
those on single clusters, on cluster templates and on repository aliases, and
`arlon init`, which installs the whole. TLC checks the models on small
instances, among them that the Cluster controller implements a specification of
the life of a cluster, and TLAPS proves that refinement and the safety properties
of all modules for every value of their constants.

1. [Inventory](#1-inventory)
2. [Modules and how they correspond to the code](#2-modules-and-how-they-correspond-to-the-code)
3. [What the runs check](#3-what-the-runs-check)
4. [Bounds](#4-bounds)
5. [Fairness and deadlock](#5-fairness-and-deadlock)
6. [What is proved](#6-what-is-proved)
7. [Assumptions and abstractions](#7-assumptions-and-abstractions)
8. [What is not modelled, and the plan](#8-what-is-not-modelled-and-the-plan)
9. [Running the checks](#9-running-the-checks)

## 1. Inventory

`src/` has about 11 000 lines of Go of its own. The parts, the state each
keeps and its operations:

| Part | Source | State | Operations |
|---|---|---|---|
| Cluster controller | `controllers/cluster_controller.go`, `pkg/cluster/{cluster_app,create,delete,git}.go` | finalizer and status of the `Cluster`; two Argo CD applications (`<name>-arlon`, `<name>`); a directory in git for an override | reconcile: finalizer, validation, patch directory, arlon app, cluster app, profile sync; reconcileDelete |
| AppProfile, ApplicationSet and Application controllers | `pkg/appprofile/reconcile.go`, `controllers/{appprofile,applicationset,application}_controller.go` | profiles annotation of the Argo CD clusters; status of `AppProfile`s; generators of `ApplicationSet`s; one mutex | one global pass, started by an event of any of the three kinds |
| ClusterRegistration controller | `controllers/clusterregistration_controller.go` | finalizer and status; a cluster registered in Argo CD | wait for the kubeconfig, install RBAC, register; unregister on deletion |
| CallHomeConfig controller | `controllers/callhomeconfig_controller.go` | status; a secret in the workload cluster | wait for the kubeconfig and the token, create the target secret |
| Profile controller | `controllers/profile_controller.go` | none | empty stub, not started |
| Managers | `pkg/controller/controller.go`, `cmd/*controller/` | leader election lease | start the reconcilers above |
| Cluster library (CLI) | `pkg/cluster/`, `cmd/cluster/` | the same applications and git directories | create, update, delete, list, node group update |
| External clusters | `pkg/cluster/external.go` | labels and annotations of the Argo CD secret, a profile app | manage, unmanage, with compensation |
| Base clusters (templates) | `pkg/basecluster/` | a directory in git | prepare (rewrite), validate |
| Gen1 profiles, bundles, cluster specs | `pkg/profile/`, `pkg/bundle/`, `pkg/clusterspec/` | secrets, config maps, trees in git | create, update, delete |
| Git helpers, credentials | `pkg/gitutils/`, `pkg/argocd/` | a clone in a temporary directory | clone, copy, commit, push |
| Repository aliases | `pkg/gitrepo/` | a file in the home directory | register, unregister |
| Arlon apps | `pkg/app/`, `cmd/app/` | `ApplicationSet`s | create, delete, list |
| Admission webhook | `pkg/webhook/` | none | rewrite an object |
| Installation commands | `cmd/initialize/`, `cmd/install/`, `pkg/install/`, `cmd/verify/` | what is installed on the management cluster; Argo CD's settings; the examples in the workspace repository | init (Argo CD, arlon, Cluster API, examples), install, verify |

**How they interact.** The controllers do not call each other. They share
objects: the Cluster controller copies the profiles annotation of a `Cluster`
to its cluster app; the Application controller watches that cluster app and
starts a global pass, which copies the annotation to the cluster registered in
Argo CD and derives the generators of the `ApplicationSet`s; the registration
in Argo CD is made by the ClusterRegistration controller or by Argo CD users.
The command line tools change the same objects without going through a
controller.

**What is hard.** A reconciler reads its resource from a cache that lags behind
the API server, makes five to ten calls over the network one after the other,
each of which may fail, or succeed and have its answer lost, and writes a
status at the end. The process may die between any two of them. Users create,
annotate, delete and re-create the resource meanwhile. Whether the reconciler
is called again depends on the result it returns *and* on whether its last
write changed anything, because a write that changes nothing raises no event.
None of this is covered by the repository's unit tests. `PROJECT.json` lists
the hazards one by one, at their lines, with the properties aimed at each.

**What makes each part correct.**

* Cluster controller: an application never outlives its `Cluster`; applications
  are deleted only when the user deleted the `Cluster`, the cluster app first;
  `created` in the status can be relied on; a cluster app that points to an
  override directory finds it there; a `Cluster` is eventually deployed, and
  eventually gone once deleted.
* AppProfile controllers: when nothing is left to do, annotations, statuses and
  generators agree with what the users asked for; an edit by a user is never
  overwritten from a stale copy.
* ClusterRegistration: a cluster does not stay registered after its resource
  has gone, unless the lookup on deletion failed; `complete` means registered; final states stay; registration and
  deletion eventually happen.
* CallHomeConfig: `complete` means that the target secret is there; delivery
  eventually happens.
* Gen1 bundles, profiles, cluster specs and clusters: a resource never
  exists, and no reference points, without its directory in git; no command
  undoes the commit of another, and no update of a profile is lost; the compiled
  directory of a profile agrees with the profile.
* Cluster commands: a command that succeeds has done all of its work, whatever
  earlier commands left behind; applications, override directory and the label
  of an external cluster agree; a failed manage is undone.
* Cluster templates: what `preparegit` leaves passes `validategit`, preparing it
  again changes nothing, and nothing that users wrote, before or meanwhile, is
  lost.
* Repository aliases: no alias twice, the default in step with the list, every
  repository known to Argo CD; an alias resolves to what the commands said.
* `arlon init`: a run that reports success leaves what its user asked for
  installed, or the examples usable, whatever earlier runs left behind; the
  controllers are never deployed without access to Argo CD.

## 2. Modules and how they correspond to the code

| Module | Models |
|---|---|
| `ClusterController` | the Cluster controller, its two applications and the git directory |
| `ClusterLifecycle` | what the Cluster controller promises: an abstract specification that it implements |
| `VersionLog` | what versions of a resource with a finalizer, and a copy of one, can be to each other |
| `AppProfileController` | the three app profile controllers and their global pass |
| `ClusterRegistration` | the ClusterRegistration controller |
| `CallHomeConfig` | the CallHomeConfig controller |
| `Gen1Catalog` | bundles, profiles, cluster specs and gen1 clusters, and the branch of the workspace repository |
| `ClusterCommands` | the commands on a gen2 cluster (create, delete, ngupdate) and on an external one (manage, unmanage) |
| `RepoAliases` | the alias file and the commands that rewrite it |
| `ClusterTemplate` | `EXTENDS RepoAliases`: template directories in git, `preparegit` and `validategit` |
| `Workspace` | `EXTENDS ClusterTemplate`: `arlon init --examples`, composed with the commands of the two modules above |
| `Installation` | `arlon init` on the management cluster: Argo CD, the controllers, Cluster API |
| `MC...` | one for each module that is checked by itself, for TLC |
| `...Proofs` | the theorems about a module, and the lemmas they rest on |

The modules of the three reconcilers of a single resource are built alike.

* `log` is the sequence of versions of the resource from the one in the
  informer cache (`Cached`, the first) to the one in the API server
  (`Current`, the last). `Write` appends a version unless nothing changed,
  as the API server does; `Deliver` drops the first and queues the key, as
  the informer does.
* `queued` and `timer` are the work queue: one bit each, because the queue
  holds a key at most once.
* `pc` is the call the reconcile in progress makes next, one value per call
  that leaves the process; `local` is its copy of the resource. An action is
  the code from one call to the next, so other actors and failures come in
  between any two calls.
* `fresh` says that the copy carries the current `resourceVersion`: an update
  or a patch with optimistic locking is refused otherwise. The patch helper of
  the finalizer does not lock, and applies to the newest version.
* A failing call (`Fault`) has no effect, or has its effect and loses the
  answer. `Crash` ends the reconcile, and queues the key again as the restarted
  informer's list does.

**ClusterController.** `NewApplicationClient` to `UpdateClusterApp` are the
creating branch of `Reconcile` in the order of the code: finalizer, `ValidateGitDir`,
`CreatePatchDir`, the arlon app (`Create`, whose existence check looks at the
*cluster* app when the cluster is of the second generation, as in the code),
the cluster app, and the profile sync. `GetClusterAppDel` to `RemoveFinalizer`
are `reconcileDelete`. `UpdateState` is the pair of status change and result
that `UpdateStatus` carries out, with the message reduced to what makes two
statuses different, as that decides whether there is an event. Argo CD's
cascading deletion is `ArgoDeletes`: a deleted application is `terminating`
until Argo CD has removed it. `OthersDeleteApp` is a user who deletes an
application directly.

**ClusterLifecycle.** The same controller as its user sees it, four variables
and no cache, queue, copy, failure or crash: a Cluster is requested, claimed,
retired and released, applications come for a claimed one, the arlon app first,
and go from a retired one, the cluster app first. The refinement mapping is in
`ClusterController`: `cluster` is `LifecyclePhase` of the current version,
`clusterApp` the phase of the cluster app, and `intact` says that nobody else
removed an application. `ImplementsLifecycle` is the abstract `Spec` under that
mapping: every step of the reconciler is an abstract one or changes nothing of
these four. The abstract specification allows the applications to be made after
the Cluster was retired, because a reconcile with an older copy does so; it
does not allow them to be made for a Cluster that is not claimed any more.

**AppProfileController.** Objects are functions from names to records, with a
version in the API server and one in `cache`. `pending` is the set of objects
whose newest version the cache lacks, and `Deliver` brings the newest one.
There is a worker per controller, `mtx` is the package's mutex, and a worker's
record holds what its pass has listed: clusters and cluster apps live from
Argo CD, profiles and apps from the cache. The three loops of the pass write
one object per action in any order (the code ranges over maps), and an update
from a copy that is no longer the newest is refused. The comma-separated
annotation is the set of names in it.

**ClusterRegistration, CallHomeConfig.** `Reconcile` to `UpdateStatus` follow
the code call by call. What the secrets and tokens hold is reduced to the cases
the code tells apart: absent, without the key, not usable, usable.

**Gen1Catalog.** There is no controller here: each command is a process, and
`proc` holds the commands in progress. A command of one call (create, update or
delete a bundle, create or delete a cluster spec, delete a profile or a
cluster) is one action. The others take three or four steps, as the code does. They read
everything they need and compute the object (`new`) and the directory (`tree`)
they are going to write; `CloneRepo` takes a copy of the branch (`wt`); `Push`
writes the directory and pushes, and the git server refuses what is not a
fast-forward (`FastForward`); an `Apply...` action creates or updates the
resource, with the API server's check of the version (`SameVersion`) where the
code carries one. `Fail` ends a command between any two of them, and also
stands for `--output-yaml`, which stops after the push. `branch` is a revision
number and a directory per profile and cluster: the manifests of the bundles or
a reference to the directory of a dynamic profile. `acked`, `settled` and
`alone` are history: what acknowledged commands asked of a profile, and whether
the last command on a name succeeded without another one beside it.
The functions behind `cluster deploy`, `cluster update` and the `clusterspec`
commands are in the library, and the command line does not offer all of them
(`main.go:81`, `cmd/cluster/cluster.go:27`); the model has the functions.

**ClusterCommands.** All applications of one cluster name: `apps` has the arlon
app, the cluster app and a profile app per profile, each absent, live or
`terminating` while Argo CD carries out its deletion. `dir` is the override
directory in git, and `secret` the label and annotations that make an external
cluster a managed one. A command reads what it needs when it starts, as the
guards of `Create`, `Delete`, `NgUpdate`, `Manage` and `Unmanage`, and then makes one
change per action. `Related` and `DeleteApp` are the loops of `cluster.Delete`
and `DestroyProfileApps`: list by label, delete one by one, stop at the first error.
`PatchFails` and `ManageUndoes` are the one compensation of the code, and
`ManageCreatesApp` has its panic on a secret without annotations. `done` and
`disturbed` are history: the last command if it succeeded alone, and
whether any of the things that the code does not guard against has happened
(a half-finished command, two at once, an application created while it was being
deleted, a name used twice, a profile for a cluster being deleted). With
`--output-yaml` create stops after the directory, which is a case of `Fail`.

**RepoAliases.** `file` is an inode and its contents: empty, the JSON of a
configuration, or bytes that do not parse. `Register` and `Unregister` open and
read the file, and `TruncateFile` and `StoreRepoCfg` are the two system calls that
rewrite it later through the same descriptor, so that two commands, or the
removal of the file by init (`RemoveFile`, a new inode), may come in between;
`Written` says what a write leaves of a longer text that is there already.
`AddToArgoCd` is the registration with Argo CD, before the file is written.
`acked` is what the answers of the commands told the users, `disturbed` says that
a rewrite overlapped another one or was cut short.

**ClusterTemplate.** A directory is a record: subdirectories or not, the file
that `kustomization.yaml` names, `configurations.yaml`, and the other files with
what `Prepare` and `Validate` look at in them. `Prepare`, `PrepareDir` and
`ValidateDir` are the three algorithms; `PrepareGit` takes the repositories that
its flags resolve to (none, if the alias file has no answer), looks for the
credentials in Argo CD, clones, prepares and commits, and `Push` is refused if
the branch has moved on. `UserPushes` is a user's push, of a directory that
can be prepared or not. `prepared` remembers which directories were last written
by `preparegit`.

**Workspace.** `arlon init --examples` runs `register` and, per example,
`preparegit` as functions, and so does the model: `init` holds its own step and
`RegisterDefault` and `PrepareExample` start the actions of the two modules in the
process `InitProc`; `RegisterReturned` to `ExamplePrepared` are the code after the
calls. `strayed` says that the default alias, which `preparegit` looks up anew,
was no longer the repository of the command line; `meddled` are the examples
that a user wrote to after init was through with them.

**Installation.** `objs` is what exists on the management cluster, and `proc`
the runs of init in progress, each at a step of the code; `ArgoPlan`,
`ArlonPlan` and `CapiPlan` are the lists of objects that a stage creates one by one
(`ApplyObject`, which passes over what exists). A stage is entered when
its marker is missing (`Marker`: the deployment `argocd-server`, the namespace
`arlon`, the core provider) and the user agrees. `UpdateCm` and `UpdateRbac` are
refused for an old version of the config map; `CreateToken` fails as long as the
server has not loaded the new account (`ServerReloads`). A wait ends
with its deployments available or with its timeout. `CallFails` ends a run at any
call, with or without the effect of the call. `cut` remembers the
stages that a run left incomplete with the marker in place.

The definitions whose names begin with `Bad` are faulty variants of the
definition below them, one for each property, and no specification uses them: with such
a variant in place of the original TLC finds the property violated.

## 3. What the runs check

Each configuration `<run>.cfg` is checked with the `MC` module of its component.

| Run | Result | Distinct states |
|---|---|---|
| `cluster_safety` | `TypeOK`, `NoOrphanApps`, `OverrideBacksClusterApp`, `CreatedMeansDeployed`, `SafeTeardown` hold, and the controller implements `ClusterLifecycle` (`ImplementsLifecycle`), while a Cluster is created, annotated, deleted and re-created, with one failure or crash and one application deleted by others | 2.6 million |
| `cluster_liveness` | `EventuallyDeployed`, `ProfilesSettle` and `TeardownEnds` hold, with and without an override, with one failure or crash anywhere | 265 000 |
| `cluster_stuck_teardown` | `EventuallyGone` is violated | |
| `cluster_annotation_wipe` | `BaseAnnotationsKept` is violated | |
| `appprofile_sync` | `TypeOK`, `QuietMeansInSync`, `UserEditsKept` hold with three workers, a managed and an external cluster, one user operation and one failure or crash | 2.9 million |
| `appprofile_eventual` | `EventuallyInSync` holds with the periodic resync for the changes that raise no event | 308 000 |
| `registration` | `TypeOK`, `NoOrphanRegistration`, `CompleteMeansRegistered`, `FinalStatesStay`, `EventuallyRegistered`, `EventuallyGone` hold, with two failures or crashes anywhere | 441 000 |
| `callhome` | `CompleteMeansDelivered`, `FinalStatesStay`, `EventuallyDelivered` hold, with a failure or crash anywhere | 683 000 |
| `catalog` | `TypeOK`, `NothingDangles`, `NoLostUpdate`, `SettledAgrees`, `OthersKept` hold for four commands, two at a time, each of which may be interrupted anywhere | 1.5 million |
| `commands` | `TypeOK`, `Consistent`, `DeleteCleansUp`, `NgUpdateReplaces`, `ExternalSucceeds` hold for five commands, two at a time, with a failure between any two calls | 1.1 million |
| `workspace` | `TypeOK`, `AliasFileSound`, `PreparedValidates`, `ExamplesReady`, `EditsKept` hold for three commands, runs of init and of a user beside it, with a push of a user and a failure anywhere | 2.0 million |
| `installation` | `TypeOK`, `SuccessMeansInstalled`, `ControllersHaveAccess` hold for three runs of init, two at a time, with two failures and a change of Argo CD's settings | 493 000 |

The two violated properties state what the repository's documentation or
comments say; each is a finding in `PROJECT.json`, with the quotation.

* **Teardown that never ends** (`cluster_stuck_teardown`). Once the override
  directory has been removed from git, a failure before `OverrideSuccessful`
  is cleared makes every retry fail on the missing directory. `TeardownEnds`
  in `cluster_liveness` is the positive side: a Cluster whose directory cannot
  be deleted is the only one that stays.
* **Annotations removed** (`cluster_annotation_wipe`). The profile sync of a
  `Cluster` without annotations assigns its nil map to the cluster app, and
  the annotations that locate the manifests go with it. `DeleteOverridesDir`
  needs them.

More limits of the code are visible in the models, and the properties are
stated so as to leave them out (see the notes of the hazards):

* a `Cluster` deleted after `CreatePatchDir` and before `CreateClusterApp`
  leaves the override directory in git, because `reconcileDelete` removes it
  only when it finds the cluster app;
* the sync of the profiles of a `Cluster` without annotations leaves the cluster
  app with a nil annotation map, on which `arlon cluster setappprofiles`
  panics (`pkg/cluster/set_appprofiles.go:27`);
* an arlon app deleted by others is not created again while the cluster app
  exists, the effect of the check that `pkg/cluster/create.go` marks with a
  FIXME (`cluster_liveness` has `MaxRemovals = 0`);
* registering a cluster in Argo CD or deleting a cluster app starts no pass, and
  a pass that failed half-way is not retried once the cluster app it was
  started for has gone (`appprofile_sync` leaves these operations to
  `appprofile_eventual`, where the resync makes them good);
* a generator is rewritten only when the set of cluster names changes, so that a
  cluster registered again with another endpoint keeps its old `cluster_server`
  (`pkg/appprofile/reconcile.go:262`, against `docs/appprofiles.md:77`), resync or
  not;
* `reconcileDelete` of a registration takes a failing query for a cluster
  that does not exist, and a registration without `clusterName` looks for the
  empty name. The history variable `missed` records that a registered
  cluster was passed over in this way, and `NoOrphanRegistration` says that
  there is no other way for a cluster to be left behind;
* creating a profile whose name is taken fails, but only after the compiled
  directory of the existing one has been replaced in git
  (`pkg/profile/create.go:82`, against `docs/gen1_profiles.md:65`).
  `SettledAgrees` says that the next command that succeeds alone restores the
  agreement;
* `profile update --clear` passes a nil bundle set (`cmd/profile/update.go:32`),
  and nil means no change to `pkg/profile/update.go:56`, so that the bundles
  stay;
* `clusterspec update` writes its config map without a version, and the
  defaults of two of its flags overwrite what was there; of the fields only
  those that it keeps are modelled;
* `docs/tutorial.md:413` says that the region of a cluster cannot change by an
  update, and the code compares only the chart (`SameChart`);
* a target secret that exists is taken for the right one, also when it was made
  for a CallHomeConfig of another service account, so that
  `CompleteMeansDelivered` does not speak of accounts;
* ngupdate to the profile that is attached already, and manage soon after
  unmanage, find the profile app that Argo CD is still deleting; Argo CD returns
  it as created, and it then disappears. `NgUpdateReplaces` and
  `ExternalSucceeds` except this (`adopted`);
* an unmanage that failed after it deleted the profile app cannot be
  repeated, because the profile app is gone; a delete that failed after
  it deleted the cluster app cannot be repeated once Argo CD is done. `Consistent`
  records both in `disturbed`;
* `docs/architecture.md:60` says that registering a default that exists
  fails; the code prints "alias already exists" and returns no error
  (`cmd/gitrepo/register.go:63`), and `arlon git unregister` leaves the
  repository in Argo CD. Two commands that rewrite the alias file at the same
  time lose one of their changes, a command killed between the truncation and
  the write loses all aliases, and two overlapping writes may leave a file that
  does not parse: `AliasFileSound` shows that nothing worse happens, such as a
  default without its repository;
* a `kustomization.yaml` that names another file than the manifest passes
  validation and is kept by preparation. With one of the two autoscaler
  annotations given by the user, the flag's default for the other may
  contradict it (a minimum above the maximum). `clustertemplate prepare
  --validate-only` accepts a manifest with namespaces, `validate` does not;
* init pushes to the repository of its command line and lets `preparegit` look up
  the alias default for each example: when another command changes the default
  in between, init prepares, or fails to prepare, a directory elsewhere. `ExamplesReady`
  excepts this (`strayed`);
* a stage of init that was cut short behind its marker is never resumed, and
  later runs, and `arlon verify`, which looks at the namespaces only, report
  success. `docs/installation.md:154` names the assumption that the namespace
  `arlon` means an installed controller. `SuccessMeansInstalled` excepts it
  (`cut`) and shows that it is the only way;
* the whole data of `argocd-cm` and `argocd-rbac-cm` is replaced, so that other
  settings in them are lost; an update on top of an edit that init has not seen
  is refused;
* when `ForwardPorts` fails, nobody closes `ready` and init waits for
  ever (`PortForwardHangs`); a run of init after Cluster API is installed fails in
  clusterctl, because the infrastructure providers are there already.

## 4. Bounds

Bounds are constants: `MaxLag` (versions the cache may be behind), `MaxFaults`
(failing calls and crashes), `MaxEdits`, `MaxChanges`, `MaxRemovals` (operations
of users and others). They are guards of the actions they bound. Names and
values are small sets: one profile name is enough to tell set from not set,
because the code only copies and compares annotations; two service
accounts, so that a resource can come back for another one; two clusters, one
managed and one external. The runs of the commands use symmetry, over processes,
repositories and profile names, whose identity no definition depends on; they check no liveness.

* `cluster_safety`: four user operations allow create, delete and create
  again with an annotation in between, which is the shortest history in which a
  copy from an earlier life of the name meets a later one. A lag of two
  versions lets the cache miss the deletion and the re-creation together. The
  theorems below carry the central properties over to every bound.
  `cluster_liveness` has three operations: create, annotate or delete, create
  again.
* `appprofile_*`: the state is the product of three workers with the listings
  of their passes. The objects may or may not exist when the controllers
  start, so one user operation meets every combination of them; one operation
  and one failure, at any moment of the three passes, is what fits.
* `registration`: seven operations let the secret pass through all of its
  forms and the resource be re-created, with two failures of any call.
* `callhome`: three operations for create, delete, create again; a change of the
  secrets or accounts, and a failure, at any moment.
* `catalog`: four commands (`MaxCommands`), two at a time, on two profiles, two bundles
  and one cluster. That is room to create two profiles, create a cluster and move it
  from one to the other, or to create a profile and then update it twice at the same
  time, with the deletion of a bundle or a profile in place of any of them.
  Two cluster specs have different charts.
* `commands`: five commands, two at a time, on two profiles: create with one
  profile, move to the other, delete, manage the name, unmanage it; with any of
  them failing half-way or overlapping the next.
* `workspace`: two processes, init and a user; three commands in any mixture, so
  that init may be run again after a run that failed, or a user may register and unregister beside
  it; two aliases, one of them the default, two repositories, two examples; one
  push by a user, of a directory that can be prepared, has two manifests, or
  two clusters in its manifest, or of none; and one failure. The alias file
  needs two rewrites that overlap, and a third command to read what they left.
* `installation`: two runs at a time and a third one after them, with two
  failures: one to leave a stage half-way and another to disturb the run that
  follows. One edit by others, between the reading and the update of a
  config map. The lists of objects keep one object for each role that the code
  or a property tells apart.

## 5. Fairness and deadlock

`FairSpec` assumes that the informer delivers what happened (`WF(Deliver)`),
that a timer fires (`WF(TimerFires)`), that a worker goes on with its reconcile
or takes the next key (`WF` of the controller's steps) and that Argo CD carries
out a deletion (`WF(ArgoDeletes)`). These are what the controller runtime and
Argo CD do as long as they run. A worker that waits for the mutex gets it
eventually (`SF(Lock)`), as Go's mutex hands itself over to a goroutine that
has waited for more than a millisecond. Users, failures and crashes are never
fair, and they are bounded: liveness is about what happens when they stop.

The informers' periodic resync has a default period of ten hours and a
property should not rest on it: it is possible in the specifications of the
Cluster and AppProfile controllers, and fair only in the latter's
`ResyncFairSpec`, which shows that the resync does repair what events missed
(`appprofile_eventual`).

All configurations have `CHECK_DEADLOCK FALSE`: users may stop, a
controller with nothing queued rests, and commands end.

## 6. What is proved

The theorems hold for every value of the constants that satisfies the module's
assumptions, which are named (§7 says what these are): any number of profiles, accounts,
processes or commands, any bound on failures, edits and lag. One theorem has
another assumption, `QuietIsInSync`, and it is explained below.

| Module | Theorem | Statement |
|---|---|---|
| `ClusterControllerProofs` | `TypeCorrect` | `Spec => []TypeOK` |
| | `Invariance`, `Deployment` | `Spec => []IndInv`, `Spec => []DeployInv`: the inductive invariants |
| | `NoOrphans` | `Spec => []NoOrphanApps` |
| | `OrderedTeardown`, `DeletionOnRequest`, `TeardownIsSafe` | `Spec => TeardownOrder`, `Spec => DeletesOnRequest`, and their conjunction `Spec => SafeTeardown` |
| | `OverridesBacked` | `Spec => []OverrideBacksClusterApp` |
| | `CreatedDeployed` | `Spec => []CreatedMeansDeployed` |
| | `Refinement` | `Spec => ImplementsLifecycle`: the controller implements `ClusterLifecycle` |
| `ClusterRegistrationProofs` | `TypeCorrect`, `Invariance` | `Spec => []TypeOK`, `Spec => []IndInv` |
| | `NoOrphans` | `Spec => []NoOrphanRegistration` |
| | `CompleteIsRegistered` | `Spec => []CompleteMeansRegistered` |
| | `FinalIsFinal` | `Spec => FinalStatesStay` |
| `CallHomeConfigProofs` | `TypeCorrect`, `Invariance` | `Spec => []TypeOK`, `Spec => []IndInv` |
| | `CompleteIsDelivered` | `Spec => []CompleteMeansDelivered` |
| | `FinalIsFinal` | `Spec => FinalStatesStay` |
| `Gen1CatalogProofs` | `TypeCorrect`, `Invariance` | `Spec => []TypeOK`, `Spec => []IndInv` |
| | `NoneDangles` | `Spec => []NothingDangles` |
| | `UpdatesKept` | `Spec => []NoLostUpdate` |
| | `SettledIsInAgreement` | `Spec => []SettledAgrees` |
| | `PushesKeepOthers` | `Spec => OthersKept` |
| `ClusterCommandsProofs` | `TypeCorrect`, `Invariance` | `Spec => []TypeOK`, `Spec => []IndInv` |
| | `ConsistentUnlessDisturbed` | `Spec => []Consistent` |
| | `DeleteIsComplete` | `Spec => []DeleteCleansUp` |
| | `NgUpdateReplacesAll` | `Spec => []NgUpdateReplaces` |
| | `ExternalAsAsked` | `Spec => []ExternalSucceeds` |
| `InstallationProofs` | `TypeCorrect`, `Invariance` | `Spec => []TypeOK`, `Spec => []IndInv` |
| | `ControllersCanLogin` | `Spec => []ControllersHaveAccess` |
| | `SuccessIsComplete` | `Spec => []SuccessMeansInstalled` |
| `AppProfileControllerProofs` | `TypeCorrect`, `Invariance` | `Spec => []TypeOK`, `Spec => []IndInv` |
| | `QuietIsInSync` | `EventsTell` implies `Spec => []QuietMeansInSync` |
| | `EditsKept` | `Spec => UserEditsKept` |
| `WorkspaceProofs` | `TypeCorrect`, `Invariance` | `Spec => []TypeOK`, `Spec => []IndInv` |
| | `AliasesSound` | `Spec => []AliasFileSound` |
| | `PreparedStaysValid` | `Spec => []PreparedValidates` |
| | `EditsAreKept` | `Spec => EditsKept` |
| | `ExamplesGetReady` | `Spec => []ExamplesReady` |

The proofs are laid out alike: lemmas about the data, then one lemma per action
that shows that the action preserves the inductive invariant, with one step per
conjunct that it can disturb, then the theorems. The inductive invariants are the
last part of the modules they are about, and TLC found them to hold on the instances of the
runs before they were proved. None of the properties is inductive by itself; what
follows says why and what the invariants add.

**ClusterController.** A reconcile creates an application because of
a copy that it took some time ago, so one has to know that what the copy says
still binds the current version. `IndInv == TypeOK /\ LogInv /\ LocalInv /\
AppsInv`:

* `LogInv` orders the versions on their way to the cache. After a version that is
  live and has the finalizer, every version has the finalizer; after one that
  is being deleted, none is live with the finalizer *until the controller has seen the
  deletion*, because only the controller adds the finalizer, and it does so
  to the version it holds.
* `LocalInv` ties the copy to the log: the creating steps hold a live copy with the
  finalizer, and then the current version has the finalizer as well; the
  deleting steps hold a copy that is being deleted, and then no version
  in the log is live.
* `AppsInv` is `NoOrphanApps` and what `reconcileDelete` has seen so far: the
  cluster app is absent from `GetArlonAppDel` on, both are absent at
  `RemoveFinalizer`.

`TeardownOrder` and `DeletesOnRequest` are action properties that follow
from `IndInv` and the action. `DeployInv`, which is proved on top of `IndInv`, adds
what the statuses are worth: a version or a copy that says `created` or
`OverrideSuccessful` has the finalizer, and while it may still be acted upon as
live, the directory and, unless others removed one, both applications are there and not
terminating (`BackedBy`); the override is the same in all versions of one life
(`SameOverride`), without which a copy of an earlier life could vouch for the
directory of a later one; and the creating steps know which
applications they have seen (`CreationInv`). The refinement needs both: that
an arlon app which is terminating is never met by a creating step is
`BackedBy` and `CreationInv`, and that a release of the Cluster finds no application is `AppsInv`.
Every action is shown to be a step of `ClusterLifecycle` or a stutter under the
mapping.

**ClusterRegistration.** `VersionLog` states the ordering of the versions once more as
operators on any sequence of versions. `ClusterRegistrationProofs` begins with lemmas
about these for the three ways in which a log changes (a version is appended, delivered,
or the list starts anew after a crash) and for the copy, and its
proofs of the actions cite them. The registration's own part is
`RegistrationInv`: every version that says `complete` is claimed and, while it may be
taken for live, registered; a registered cluster without a claimed resource
was missed by a lookup.

**CallHomeConfig** has no finalizer, so no order of versions holds. The invariant is that
*every* version and copy that says `complete` has a target secret, which nobody
removes, and that a copy with the current `resourceVersion` (`fresh`) is not of a
final state, because `Reconcile` returns early on those: hence no final state is written over.

**Gen1Catalog.** A command acts on what it read before its clone and its push.
`CommandInv` says what it may rely on at each of its steps: a clone with the branch's revision is the
branch's tree (`CloneInv`, so that a push that the server accepts replaces one
directory of the present tree and no other); the directory that a reference
will point to is there, as directories of profiles are never removed
(`ReferenceInv`); what was pushed is still there when the resource
follows, and is the command's own if no other command was about the same name
(`PushedInv`); as long as the resource has the version that was read,
the object to be written differs from it by what was asked for only
(`ReadInv`). `NothingDangles`, `NoLostUpdate` and `SettledAgrees` are conjuncts of
`IndInv`.

**ClusterCommands.** `CommandsInv` has two parts. A command that has run alone so far
(`AloneInv`) has achieved something at each step *whatever it found*: what delete still has
to delete includes every live application, and the override directory comes
before the cluster app; after the loop of ngupdate no profile app is live; and so
on. This gives the three properties about success. As long as nothing was disturbed,
every command is alone, one that has not begun a change leaves things in order,
and of one that has begun the invariant says exactly what it has made so far and owes
(`UndisturbedInv`), compensation included; when it ends, `InOrder` holds
again, which is `Consistent`.

**Installation.** `StageInv` is the heart: a stage with its marker in place is complete,
or was cut short, or some run is *completing* it, which has everything the
stage lacks still in its list. `TodoInv` says that a run's list and what exists
amount to the whole stage; `PassedInv` that the stages behind a run have their markers; and
`AccessInv` that a run reaches the controllers only past the updates of both
config maps and past the credentials, which nobody takes back: the updates of other runs
and the administrator's edits, with the server's check of the version, keep
arlon's entries.

**AppProfileController.** A pass lists four collections one after the other and then
writes from the copies, while users, events and two other workers go on. Two
invariants carry the theorems.

* `CopyInv`: a copy of an `ApplicationSet` that nothing has made stale has
  the body and the existence that the user last wrote. It holds from the
  listing on, because `CacheInv` says that a cached object without a pending event is
  current, and because every change marks the copies that are out. A write is
  refused if the copy is stale, so it keeps the edit: `UserEditsKept`.
* `SettledInv`: if no event is pending, no object is queued and no worker is about to
  begin a pass (`Awaiting` is false), either no pass is under way and all is
  in sync, or the one pass there is will see to it. `PassInv` says what that
  pass knows: what it has listed is what there is, what is left of its loop is exactly
  what differs, and the loops that it has finished have left their part in sync. Each write of
  its own makes an event pending, and an error queues the object again, so that
  a disturbed pass is always followed by another.

A change that reaches no controller breaks `SettledInv`: registering, unregistering or
annotating a cluster in Argo CD produces no watched event, and the event of a
deleted cluster app leads to no pass (`reconcileApplication` returns early when the
object is not found). `EventsTell` says that users do none of these, which is the setting of the run
`appprofile_sync`; `TriggerInv` is the part of the invariant that needs it. When they do, the periodic
resync repairs it, and the run `appprofile_eventual` shows that. `TypeCorrect`,
`Invariance` and `EditsKept` do not depend on it.

**RepoAliases, ClusterTemplate, Workspace.** The three are one specification, and
`WorkspaceProofs` proves about all of them. `IndInv` has a part for each.

* `AliasInv`, the alias file. What makes a rewrite safe is that a command writes
  what it *read* with its change (`Rewrites`), not what is there when it writes, and
  that what it read was coherent (`Sound`): so the file is coherent, empty or garbage
  whatever overlaps. The repositories of a configuration are known to Argo CD
  because nothing takes one away. That the file is what the answers say is
  `QuietInv`, and it has to survive the moment at which the file is empty:
  `WriterInv` says that the one command that has truncated it, undisturbed, has read what
  was answered. The lemmas `RegisterResolves` and `UnregisterResolves` say
  how a change of the list changes what *every* alias resolves to, the default
  included, which has an entry of its own.
* `TemplateInv`, the branches. A push that the server will still accept
  (`PushInv`: the revision has not moved since the clone) replaces one directory of
  the present tree by its prepared form. The lemma `PrepareFacts` is about the pure
  algorithm: the prepared form of any directory that `preparegit` accepts validates,
  is its own prepared form, and has kept all that the user wrote. `EditsKept` is
  `PushInv` at the moment of the push, whoever else has pushed before.
* `InitJobInv`, `UserJobInv`, `StepInv` and `BehindReady`, the run of init. The
  examples that init is through with (`Behind`) validate in its repository, but for those
  in `meddled`; the push that init has under way changes none of them, because it is
  about the example it is at (`InitJobInv`), and the examples have been cleared before
  the first was generated (`StepInv`). A user's `preparegit` may land on any
  of them, and leaves a directory that validates (`UserJobInv`). When
  init is done all examples are behind it, which is `ExamplesReady`.

**Only model-checked.** Liveness (`EventuallyDeployed`, `TeardownEnds`,
`ProfilesSettle`, `EventuallyRegistered`, `EventuallyGone`,
`EventuallyDelivered`, `EventuallyInSync`): it rests on fairness and `ENABLED`, which
TLAPS does not support. The two properties that the code violates (§3) are
refuted by TLC. All other properties of the runs are theorems.

## 7. Assumptions and abstractions

* One replica of each controller runs, with one worker per controller (the
  default). A `Cluster` name is used in one namespace, and no `Cluster` is
  named `<another>-arlon`.
* A restarted informer's list is not older than what the process had seen
  before it died.
* Argo CD's `Update` replaces the annotations of an application, and its lists
  are current. Its query for a cluster with an empty name fails.
* Creating the override directory again, when it is there already, succeeds:
  `DeployPatchToGit` removes the old files, writes them again and pushes
  whatever the commit came to, whether or not the tree changed.
* `spec.override` and the other fields of a `Cluster` are not edited after its
  creation.
* The app profile cache takes an object's newest version at once, without the
  versions in between; the pass only looks at the value.
* Every `ApplicationSet` and `Application` of the model has arlon's label.
* The resync of the app profile module happens when nothing else is going on:
  a resync adds keys to the queue, and while a queue is not empty a pass
  follows anyway.
* Secrets are read live, not from the cache, as the managers switch the cache
  off for them.
* Gen1 commands use one repository and one branch. What a command reads from
  Kubernetes is one step, as nothing that it does in between leaves the process.
  Profiles kept in config maps (the form before the `Profile` resource),
  descriptions, tags and the sizes in a cluster spec are left out.
  Argo CD's `Create` refuses an application that exists with another
  spec and returns one that exists with the same, its `Update` replaces the application whatever its version is, and a
  deleted application of a gen1 cluster is gone at once.
* An external cluster stays registered in Argo CD; `Delete` reports an
  application that does not exist as an error. The order in which Argo CD lists
  applications is left open. No gen1 cluster has the name of a gen2 or an external one.
* `arlon init` reads and writes one branch (`main`) of a repository, to which its
  users have access; the server accepts a push if it is a fast-forward, and
  go-git makes a commit without changes when it is asked to, as `checkExamples`
  does. The examples have one manifest name in the model; their list is not empty and
  names different directories, as the fixed list in `init.go` does, and `NoPath` is no
  directory (`WorkspaceAssumption`, `PathAssumption`). The write of the alias
  file, a few hundred bytes, is one system call.
* clusterctl refuses to install a provider that is there already, and installs
  the core provider first. Argo CD knows an account once its server has
  reloaded `argocd-cm`, and others' edits of the settings keep the entries
  for arlon.
* `Gen1Catalog`'s `ConstantsAssumption` has the names of profiles, cluster specs
  and clusters disjoint, as they name directories and objects of different
  kinds, and `None` is none of the contents. In `ClusterCommands`, a `None`
  in the place of a profile stands for a cluster without one, and `Consistent`
  covers it like any profile.
* Wording, log messages, and the contents of manifests are left out, except
  that two different status messages are two different statuses.

## 8. What is not modelled, and the plan

The controllers, the commands and the installation are modelled. What is not:

* **Managers** (`pkg/controller`, `cmd/*controller`): they build a manager and
  hand over to controller-runtime. Two things about them are hazards, and
  outside the models: three managers share one leader election ID, and without
  leader election a rolling update runs two replicas of a controller at once.
  The second needs two caches, queues and reconciles in progress for one resource
  in `ClusterController`, whose state space does not leave room for it.
* **Webhook** (`pkg/webhook`): a function of one request, which prefixes the name of
  a cluster with its instance label; it keeps no state and nothing interleaves with it.
* **Profiles stored as config maps** (`profile.DeleteLegacy`,
  `profile.FromConfigMap`), the form before the `Profile` resource, and the
  region and size fields of a cluster spec.
* **Tool downloads** (`installCLITools`) and the checks of `arlon verify` that
  look at programs on the local path.
* Generated deep copies and embedded manifests, the Profile controller (an
  empty stub, not started), and everything that only lists or prints.

Every invariant and action property that a run checks, and the refinement, is a
theorem. What is left for the proofs is outside TLAPS (liveness); what is left for
the models is the list above, of which two replicas of a controller
without leader election would say most about the system.

## 9. Running the checks

    tlc -workers 2 -config cluster_safety.cfg MCClusterController
    tlc -workers 2 -config workspace.cfg MCWorkspace
    tlapm ClusterControllerProofs.tla      # and the other ...Proofs modules

Every run ends within a minute or two on two cores.
