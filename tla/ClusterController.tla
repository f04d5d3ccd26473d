------------------------- MODULE ClusterController -------------------------
(***************************************************************************)
(* The reconciler of one arlon Cluster resource                            *)
(* (controllers/cluster_controller.go), together with what it touches: the *)
(* Cluster object in the Kubernetes API server, the informer cache the     *)
(* reconciler reads it from, the two Argo CD applications of the cluster   *)
(* (the "arlon app" and the "cluster app"), and the directory an override  *)
(* puts in git.                                                            *)
(*                                                                         *)
(* A reconcile is a sequence of steps, one per call that leaves the        *)
(* process; users, Argo CD, the informer and the timers run in between.    *)
(***************************************************************************)
EXTENDS Naturals, Sequences

CONSTANTS
    Profiles,       \* values of the arlon.io/profiles annotation
    UserAnns,       \* annotations users give a Cluster (subset of Anns)
    Overrides,      \* whether users ask for an override (subset of BOOLEAN)
    MaxLag,         \* bound: versions of the Cluster the cache may be behind
    MaxFaults,      \* bound: failing calls and controller crashes
    MaxEdits,       \* bound: user operations on the Cluster
    MaxRemovals     \* bound: applications deleted behind the controller's back

Nil == "nil"                \* no annotations at all (a nil map)
NoProfile == ""             \* annotations, but not the profiles key
Anns == Profiles \cup {Nil, NoProfile}

ASSUME ConstantsAssumption ==
    /\ Nil \notin Profiles
    /\ NoProfile \notin Profiles
    /\ UserAnns \subseteq Anns
    /\ Overrides \subseteq BOOLEAN
    /\ MaxLag \in Nat \ {0}
    /\ MaxFaults \in Nat
    /\ MaxEdits \in Nat
    /\ MaxRemovals \in Nat

VARIABLES
    log,        \* versions of the Cluster, from the cached one to the current
    queued,     \* the Cluster's key is in the work queue
    timer,      \* a delayed add of the key is outstanding
    pc,         \* the call the reconcile in progress makes next
    local,      \* its copy of the Cluster
    fresh,      \* local carries the current resourceVersion
    result,     \* what it returns once the status is written
    arlonApp,   \* phase of the arlon app
    clusterApp, \* the cluster app
    dir,        \* the override's directory is in git
    faults,     \* failures so far
    edits,      \* user operations so far
    removals    \* applications removed by others so far

ctlVars == <<queued, timer, pc, local, fresh, result>>
budget == <<edits, removals>>
external == <<arlonApp, clusterApp, dir>>
vars == <<log, queued, timer, pc, local, fresh, result, arlonApp, clusterApp,
          dir, faults, edits, removals>>

----------------------------------------------------------------------------
(* Data *)

States == {"", "retrying", "template-validated", "override-created",
           "created", "error-deleting-override", "override-deleted",
           "error-deleting-cluster-app", "deleting-cluster-app",
           "delete-retrying", "error-deleting-arlon-app",
           "deleting-arlon-app"}

\* The steps of a reconcile, named after the call each one makes.
PCs == {"idle", "NewApplicationClient", "AddFinalizer", "ValidateGitDir",
        "CreatePatchDir", "GetArlonApp", "CreateArlonApp", "GetClusterApp",
        "CreateClusterApp", "UpdateClusterApp", "UpdateStatus",
        "GetClusterAppDel", "DeleteClusterApp", "GetArlonAppDel",
        "DeleteArlonApp", "RemoveFinalizer"}

Results == {"done", "requeueAfter"}
Phases == {"absent", "present", "terminating"}

\* Status messages tell apart the steps that write the same state.
Messages == PCs \cup {"", "exists"}

\* A Cluster object. Deletion removes the object unless it has a finalizer.
ClusterObject ==
    [exists: BOOLEAN, deleting: BOOLEAN, finalizer: BOOLEAN,
     override: BOOLEAN, ann: Anns,
     state: States, msg: Messages, inner: BOOLEAN, ovrOk: BOOLEAN]

\* An Argo CD application as the cluster app: base stands for the
\* annotations that locate its manifests in git.
ClusterApp == [phase: Phases, ann: Anns, base: BOOLEAN]

Gone == [exists |-> FALSE, deleting |-> FALSE, finalizer |-> FALSE,
         override |-> FALSE, ann |-> Nil,
         state |-> "", msg |-> "", inner |-> FALSE, ovrOk |-> FALSE]

NoClusterApp == [phase |-> "absent", ann |-> Nil, base |-> FALSE]

Cached == log[1]
Current == log[Len(log)]

----------------------------------------------------------------------------
(* The API server and the informer *)

\* Store a version of the object. A write that changes nothing keeps the
\* resourceVersion and produces no watch event; any other write makes every
\* copy taken before it stale.
Write(obj) ==
    /\ Len(log) <= MaxLag
    /\ log' = IF obj = Current THEN log ELSE Append(log, obj)

KeepsFresh == fresh' = (fresh /\ log' = log)

\* The informer hands the next version to the cache and queues the key.
Deliver ==
    /\ Len(log) > 1
    /\ log' = Tail(log)
    /\ queued' = TRUE
    /\ UNCHANGED <<timer, pc, local, fresh, result, external, faults, budget>>

TimerFires ==
    /\ timer
    /\ timer' = FALSE
    /\ queued' = TRUE
    /\ UNCHANGED <<log, pc, local, fresh, result, external, faults, budget>>

\* The manager's periodic resync queues every cached object.
Resync ==
    /\ Cached.exists
    /\ ~queued
    /\ queued' = TRUE
    /\ UNCHANGED <<log, timer, pc, local, fresh, result, external, faults,
                   budget>>

----------------------------------------------------------------------------
(* Steps of a reconcile *)

Ok == faults' = faults
Fault == faults < MaxFaults /\ faults' = faults + 1

Goto(step) ==
    /\ pc' = step
    /\ UNCHANGED <<log, queued, timer, local, fresh, result>>

\* Faulty variant of Return: errors and delays are not requeued.
BadReturnNoRequeue(requeue) ==
    /\ pc' = "idle"
    /\ local' = Gone
    /\ fresh' = FALSE
    /\ result' = "done"
    /\ UNCHANGED <<queued, timer>>

\* Return from Reconcile; an error and a result with a delay both leave a
\* timer behind.
Return(requeue) ==
    /\ pc' = "idle"
    /\ timer' = (timer \/ requeue)
    /\ local' = Gone
    /\ fresh' = FALSE
    /\ result' = "done"
    /\ UNCHANGED queued

\* UpdateState sets the state on the local copy and then writes the status.
UpdateState(obj, state, msg, res) ==
    /\ pc' = "UpdateStatus"
    /\ local' = [obj EXCEPT !.state = state, !.msg = msg]
    /\ result' = res
    /\ UNCHANGED <<log, queued, timer, fresh>>

\* Faulty variant of Retry: a state that is not one of the resource's.
BadRetryState(state) == UpdateState(local, "error", pc, "requeueAfter")

\* The error paths: note the failing step and come back after ten seconds.
Retry(state) == UpdateState(local, state, pc, "requeueAfter")

Reconcile ==
    /\ pc = "idle"
    /\ queued
    /\ queued' = FALSE
    /\ \/ /\ Ok
          /\ ~Cached.exists
          /\ UNCHANGED <<pc, timer, local, fresh>>
       \/ /\ Ok
          /\ Cached.exists
          /\ pc' = "NewApplicationClient"
          /\ local' = Cached
          /\ fresh' = (Len(log) = 1)
          /\ UNCHANGED timer
       \/ /\ Fault
          /\ timer' = TRUE
          /\ UNCHANGED <<pc, local, fresh>>
    /\ UNCHANGED <<log, result, external, budget>>

\* Faulty variants of FirstStep: the finalizer is left out, the override is
\* taken for created, the override is created again every time.
BadFirstStepNoFinalizer(obj) ==
    CASE obj.deleting -> "GetClusterAppDel"
      [] ~obj.deleting /\ ~obj.inner -> "ValidateGitDir"
      [] OTHER -> "GetArlonApp"

BadFirstStepNoOverride(obj) ==
    CASE obj.deleting -> "GetClusterAppDel"
      [] ~obj.deleting /\ ~obj.finalizer -> "AddFinalizer"
      [] ~obj.deleting /\ obj.finalizer /\ ~obj.inner -> "ValidateGitDir"
      [] OTHER -> "GetArlonApp"

\* What Reconcile does first with the copy it has read.
FirstStep(obj) ==
    CASE obj.deleting -> "GetClusterAppDel"
      [] ~obj.deleting /\ ~obj.finalizer -> "AddFinalizer"
      [] ~obj.deleting /\ obj.finalizer /\ ~obj.inner -> "ValidateGitDir"
      [] ~obj.deleting /\ obj.finalizer /\ obj.inner
            /\ obj.override /\ ~obj.ovrOk -> "CreatePatchDir"
      [] OTHER -> "GetArlonApp"

NewApplicationClient ==
    /\ pc = "NewApplicationClient"
    /\ \/ Ok /\ Goto(FirstStep(local))
       \/ Fault /\ Retry("retrying")
    /\ UNCHANGED <<external, budget>>

\* The finalizer is added by a merge patch, which no concurrent change of
\* the object makes fail; a deleted object does.
AddFinalizer ==
    /\ pc = "AddFinalizer"
    /\ \/ /\ Ok
          /\ Current.exists
          /\ Write([Current EXCEPT !.finalizer = TRUE])
          /\ Return(FALSE)
       \/ /\ Ok
          /\ ~Current.exists
          /\ Return(TRUE)
          /\ UNCHANGED log
       \/ /\ Fault
          /\ \/ Current.exists /\ Write([Current EXCEPT !.finalizer = TRUE])
             \/ UNCHANGED log
          /\ Return(TRUE)
    /\ UNCHANGED <<external, budget>>

ValidateGitDir ==
    /\ pc = "ValidateGitDir"
    /\ \/ /\ Ok
          /\ UpdateState([local EXCEPT !.inner = TRUE], "template-validated",
                         "", "done")
       \/ Fault /\ Retry("retrying")
    /\ UNCHANGED <<external, budget>>

\* The directory is regenerated, committed and pushed. A failed call may
\* have pushed.
CreatePatchDir ==
    /\ pc = "CreatePatchDir"
    /\ \/ /\ Ok
          /\ dir' = TRUE
          /\ UpdateState([local EXCEPT !.ovrOk = TRUE], "override-created",
                         "", "done")
       \/ /\ Fault
          /\ dir' \in {dir, TRUE}
          /\ Retry("retrying")
    /\ UNCHANGED <<arlonApp, clusterApp, budget>>

\* Faulty variant of GetArlonApp: a missing application is not created.
BadGetArlonAppIgnoresMissing ==
    /\ pc = "GetArlonApp"
    /\ Ok
    /\ Goto("GetClusterApp")
    /\ UNCHANGED <<external, budget>>

GetArlonApp ==
    /\ pc = "GetArlonApp"
    /\ \/ Ok /\ arlonApp = "absent" /\ Goto("CreateArlonApp")
       \/ Ok /\ arlonApp # "absent" /\ Goto("GetClusterApp")
       \/ Fault /\ Retry("retrying")
    /\ UNCHANGED <<external, budget>>

\* Create refuses when an application with the cluster's own name exists.
CreateArlonApp ==
    /\ pc = "CreateArlonApp"
    /\ \/ /\ Ok
          /\ clusterApp.phase = "absent"
          /\ arlonApp' = "present"
          /\ Goto("GetClusterApp")
       \/ /\ Ok
          /\ clusterApp.phase # "absent"
          /\ UNCHANGED arlonApp
          /\ Retry("retrying")
       \/ /\ Fault
          /\ \/ clusterApp.phase = "absent" /\ arlonApp' = "present"
             \/ UNCHANGED arlonApp
          /\ Retry("retrying")
    /\ UNCHANGED <<clusterApp, dir, budget>>

\* The annotations of the two objects differ exactly when the code sets its
\* sync flag: a missing map differs from any map, two maps differ in the
\* profiles key. An application that needs no update leaves only the state to
\* be brought up to date.
GetClusterApp ==
    /\ pc = "GetClusterApp"
    /\ \/ Ok /\ clusterApp.phase = "absent" /\ Goto("CreateClusterApp")
       \/ /\ Ok
          /\ clusterApp.phase # "absent"
          /\ local.ann # clusterApp.ann
          /\ Goto("UpdateClusterApp")
       \/ /\ Ok
          /\ clusterApp.phase # "absent"
          /\ local.ann = clusterApp.ann
          /\ local.state # "created"
          /\ UpdateState(local, "created", "exists", "done")
       \/ /\ Ok
          /\ clusterApp.phase # "absent"
          /\ local.ann = clusterApp.ann
          /\ local.state = "created"
          /\ Return(FALSE)
          /\ UNCHANGED log
       \/ Fault /\ Retry("retrying")
    /\ UNCHANGED <<external, budget>>

NewClusterApp == [phase |-> "present", ann |-> NoProfile, base |-> TRUE]

\* Faulty variant of CreateClusterApp: a failure rolls back the arlon app.
BadCreateClusterAppRollsBack ==
    /\ pc = "CreateClusterApp"
    /\ \/ /\ Ok
          /\ clusterApp' = NewClusterApp
          /\ UpdateState(local, "created", "", "done")
          /\ UNCHANGED arlonApp
       \/ /\ Fault
          /\ arlonApp' = "terminating"
          /\ Retry("retrying")
          /\ UNCHANGED clusterApp
    /\ UNCHANGED <<dir, budget>>

CreateClusterApp ==
    /\ pc = "CreateClusterApp"
    /\ \/ /\ Ok
          /\ clusterApp' = NewClusterApp
          /\ UpdateState(local, "created", "", "done")
       \/ /\ Fault
          /\ clusterApp' \in {clusterApp, NewClusterApp}
          /\ Retry("retrying")
    /\ UNCHANGED <<arlonApp, dir, budget>>

\* Faulty variant of Synced: the copied key is never stored.
BadSyncedKeeps(app) == app

\* Copy the profiles key to the application; when the Cluster has no
\* annotations at all, every annotation of the application is dropped.
Synced(app) ==
    [app EXCEPT !.ann = local.ann, !.base = app.base /\ local.ann # Nil]

UpdateClusterApp ==
    /\ pc = "UpdateClusterApp"
    /\ \/ /\ Ok
          /\ clusterApp.phase # "absent"
          /\ clusterApp' = Synced(clusterApp)
          /\ \/ /\ local.state # "created"
                /\ UpdateState(local, "created", "exists", "done")
             \/ /\ local.state = "created"
                /\ Return(FALSE)
                /\ UNCHANGED log
       \/ /\ Ok
          /\ clusterApp.phase = "absent"
          /\ UNCHANGED clusterApp
          /\ Retry("retrying")
       \/ /\ Fault
          /\ \/ clusterApp.phase # "absent" /\ clusterApp' = Synced(clusterApp)
             \/ UNCHANGED clusterApp
          /\ Retry("retrying")
    /\ UNCHANGED <<arlonApp, dir, budget>>

\* Status().Update is refused when the copy is stale.
UpdateStatus ==
    /\ pc = "UpdateStatus"
    /\ \/ /\ Ok
          /\ fresh
          /\ Write(local)
          /\ Return(result = "requeueAfter")
       \/ /\ Ok
          /\ ~fresh
          /\ UNCHANGED log
          /\ Return(TRUE)
       \/ /\ Fault
          /\ \/ fresh /\ Write(local)
             \/ UNCHANGED log
          /\ Return(TRUE)
    /\ UNCHANGED <<external, budget>>

----------------------------------------------------------------------------
(* reconcileDelete *)

\* Faulty variant of HasDir: the flag that the directory is gone is ignored.
BadHasDirIgnoresStatus(obj) == obj.override

\* The Cluster is known to have an override directory in git.
HasDir(obj) == obj.override /\ obj.ovrOk

\* Faulty variant of GetClusterAppDel: the cluster app is not waited for.
BadGetClusterAppDelSkips ==
    /\ pc = "GetClusterAppDel"
    /\ Ok
    /\ Goto("GetArlonAppDel")
    /\ UNCHANGED <<external, budget>>

GetClusterAppDel ==
    /\ pc = "GetClusterAppDel"
    /\ \/ /\ Ok
          /\ ~HasDir(local)
          /\ clusterApp.phase = "terminating"
          /\ Return(TRUE)
          /\ UNCHANGED log
       \/ /\ Ok
          /\ ~HasDir(local)
          /\ clusterApp.phase = "present"
          /\ Goto("DeleteClusterApp")
       \/ Ok /\ clusterApp.phase = "absent" /\ Goto("GetArlonAppDel")
       \/ Fault /\ Retry("delete-retrying")
    /\ UNCHANGED <<external, budget>>

\* DeleteOverridesDir finds the repository through the application's
\* annotations and fails when the directory is not there.
CanDeleteDir(app) == app.base /\ dir

\* The application found by reconcileDelete is at once used to delete the
\* directory (nobody else changes its annotations or the directory).
DeleteOverridesDir ==
    /\ pc = "GetClusterAppDel"
    /\ clusterApp.phase # "absent"
    /\ HasDir(local)
    /\ \/ /\ Ok
          /\ CanDeleteDir(clusterApp)
          /\ dir' = FALSE
          /\ UpdateState([local EXCEPT !.ovrOk = FALSE], "override-deleted",
                         "", "done")
       \/ /\ Ok
          /\ ~CanDeleteDir(clusterApp)
          /\ UNCHANGED dir
          /\ Retry("error-deleting-override")
       \/ /\ Fault
          /\ \/ CanDeleteDir(clusterApp) /\ dir' = FALSE
             \/ UNCHANGED dir
          /\ Retry("error-deleting-override")
    /\ UNCHANGED <<arlonApp, clusterApp, budget>>

DeleteClusterApp ==
    /\ pc = "DeleteClusterApp"
    /\ \/ /\ Ok
          /\ clusterApp.phase # "absent"
          /\ clusterApp' = [clusterApp EXCEPT !.phase = "terminating"]
          /\ UpdateState(local, "deleting-cluster-app", "", "done")
       \/ /\ Ok
          /\ clusterApp.phase = "absent"
          /\ UNCHANGED clusterApp
          /\ Retry("error-deleting-cluster-app")
       \/ /\ Fault
          /\ \/ /\ clusterApp.phase # "absent"
                /\ clusterApp' = [clusterApp EXCEPT !.phase = "terminating"]
             \/ UNCHANGED clusterApp
          /\ Retry("error-deleting-cluster-app")
    /\ UNCHANGED <<arlonApp, dir, budget>>

GetArlonAppDel ==
    /\ pc = "GetArlonAppDel"
    /\ \/ /\ Ok
          /\ arlonApp = "terminating"
          /\ Return(TRUE)
          /\ UNCHANGED log
       \/ Ok /\ arlonApp = "present" /\ Goto("DeleteArlonApp")
       \/ Ok /\ arlonApp = "absent" /\ Goto("RemoveFinalizer")
       \/ Fault /\ Retry("delete-retrying")
    /\ UNCHANGED <<external, budget>>

DeleteArlonApp ==
    /\ pc = "DeleteArlonApp"
    /\ \/ /\ Ok
          /\ arlonApp # "absent"
          /\ arlonApp' = "terminating"
          /\ UpdateState(local, "deleting-arlon-app", "", "done")
       \/ /\ Ok
          /\ arlonApp = "absent"
          /\ UNCHANGED arlonApp
          /\ Retry("error-deleting-arlon-app")
       \/ /\ Fault
          /\ \/ arlonApp # "absent" /\ arlonApp' = "terminating"
             \/ UNCHANGED arlonApp
          /\ Retry("error-deleting-arlon-app")
    /\ UNCHANGED <<clusterApp, dir, budget>>

\* An object being deleted disappears with its last finalizer.
WithoutFinalizer(obj) ==
    IF obj.deleting THEN Gone ELSE [obj EXCEPT !.finalizer = FALSE]

RemoveFinalizer ==
    /\ pc = "RemoveFinalizer"
    /\ \/ /\ Ok
          /\ Current.exists
          /\ Write(WithoutFinalizer(Current))
          /\ Return(FALSE)
       \/ /\ Ok
          /\ ~Current.exists
          /\ Return(TRUE)
          /\ UNCHANGED log
       \/ /\ Fault
          /\ \/ Current.exists /\ Write(WithoutFinalizer(Current))
             \/ UNCHANGED log
          /\ Return(TRUE)
    /\ UNCHANGED <<external, budget>>

----------------------------------------------------------------------------
(* The environment *)

\* The controller process dies at any point and is started again: the
\* reconcile in progress, the queue and the timers are lost, the cache is
\* listed anew, and every object listed is queued.
Crash ==
    /\ Fault
    /\ pc' = "idle"
    /\ local' = Gone
    /\ fresh' = FALSE
    /\ result' = "done"
    /\ timer' = FALSE
    /\ log' = <<Current>>
    /\ queued' = Current.exists
    /\ UNCHANGED <<external, budget>>

\* Argo CD finishes the cascading deletion of an application.
ArgoDeletes ==
    /\ \/ /\ clusterApp.phase = "terminating"
          /\ clusterApp' = NoClusterApp
          /\ UNCHANGED arlonApp
       \/ /\ arlonApp = "terminating"
          /\ arlonApp' = "absent"
          /\ UNCHANGED clusterApp
    /\ UNCHANGED <<log, ctlVars, dir, faults, budget>>

Edit(obj) ==
    /\ edits < MaxEdits
    /\ edits' = edits + 1
    /\ Write(obj)
    /\ KeepsFresh
    /\ UNCHANGED <<queued, timer, pc, local, result, external, faults,
                   removals>>

UserCreates(ann, override) ==
    /\ ~Current.exists
    /\ Edit([Gone EXCEPT !.exists = TRUE, !.ann = ann, !.override = override])

UserAnnotates(ann) ==
    /\ Current.exists
    /\ ann # Current.ann
    /\ Edit([Current EXCEPT !.ann = ann])

UserDeletes ==
    /\ Current.exists
    /\ ~Current.deleting
    /\ Edit(IF Current.finalizer THEN [Current EXCEPT !.deleting = TRUE]
                                 ELSE Gone)

\* Somebody deletes an application with Argo CD's own tools.
OthersDeleteApp ==
    /\ removals < MaxRemovals
    /\ removals' = removals + 1
    /\ \/ /\ clusterApp.phase = "present"
          /\ clusterApp' = [clusterApp EXCEPT !.phase = "terminating"]
          /\ UNCHANGED arlonApp
       \/ /\ arlonApp = "present"
          /\ arlonApp' = "terminating"
          /\ UNCHANGED clusterApp
    /\ UNCHANGED <<log, ctlVars, dir, faults, edits>>

----------------------------------------------------------------------------
(* The specification *)

Init ==
    /\ log = <<Gone>>
    /\ queued = FALSE
    /\ timer = FALSE
    /\ pc = "idle"
    /\ local = Gone
    /\ fresh = FALSE
    /\ result = "done"
    /\ arlonApp = "absent"
    /\ clusterApp = NoClusterApp
    /\ dir = FALSE
    /\ faults = 0
    /\ edits = 0
    /\ removals = 0

CreateStep ==
    \/ Reconcile
    \/ NewApplicationClient
    \/ AddFinalizer
    \/ ValidateGitDir
    \/ CreatePatchDir
    \/ GetArlonApp
    \/ CreateArlonApp
    \/ GetClusterApp
    \/ CreateClusterApp
    \/ UpdateClusterApp
    \/ UpdateStatus

DeleteStep ==
    \/ GetClusterAppDel
    \/ DeleteOverridesDir
    \/ DeleteClusterApp
    \/ GetArlonAppDel
    \/ DeleteArlonApp
    \/ RemoveFinalizer

ControllerStep == CreateStep \/ DeleteStep

User ==
    \/ \E ann \in UserAnns, ovr \in Overrides : UserCreates(ann, ovr)
    \/ \E ann \in UserAnns : UserAnnotates(ann)
    \/ UserDeletes

Next ==
    \/ ControllerStep
    \/ Deliver
    \/ TimerFires
    \/ Resync
    \/ Crash
    \/ ArgoDeletes
    \/ User
    \/ OthersDeleteApp

Spec == Init /\ [][Next]_vars

\* The work queue keeps handing out its keys, a reconcile runs to its end,
\* watch events and timers arrive, and Argo CD completes its deletions.
Fairness ==
    /\ WF_vars(ControllerStep)
    /\ WF_vars(Deliver)
    /\ WF_vars(TimerFires)
    /\ WF_vars(ArgoDeletes)

FairSpec == Spec /\ Fairness

----------------------------------------------------------------------------
(* Properties *)

\* Every variable has its type; the log is never empty nor over its bound.
TypeOK ==
    /\ log \in Seq(ClusterObject)
    /\ Len(log) \in 1..(MaxLag + 1)
    /\ queued \in BOOLEAN
    /\ timer \in BOOLEAN
    /\ pc \in PCs
    /\ local \in ClusterObject
    /\ fresh \in BOOLEAN
    /\ result \in Results
    /\ arlonApp \in Phases
    /\ clusterApp \in ClusterApp
    /\ dir \in BOOLEAN
    /\ faults \in 0..MaxFaults
    /\ edits \in 0..MaxEdits
    /\ removals \in 0..MaxRemovals

\* No application outlives its Cluster: as long as one of the two exists, so
\* does the Cluster, with the finalizer that keeps it until reconcileDelete
\* has seen both disappear.
NoOrphanApps ==
    arlonApp # "absent" \/ clusterApp.phase # "absent" =>
        Current.exists /\ Current.finalizer

\* The controller deletes an application only while the API server holds a
\* deletion request, however old the copy it acts upon.
DeletesOnRequest ==
    [][ removals' = removals =>
          /\ arlonApp = "present" /\ arlonApp' # "present" => Current.deleting
          /\ clusterApp.phase = "present" /\ clusterApp'.phase # "present"
                => Current.deleting ]_vars

\* The arlon app, which owns the namespace, is deleted only once the cluster
\* app has completely disappeared.
TeardownOrder ==
    [][ removals' = removals /\ arlonApp = "present" /\ arlonApp' # "present"
          => clusterApp.phase = "absent" ]_vars

\* Applications are deleted only on request and in order.
SafeTeardown == DeletesOnRequest /\ TeardownOrder

\* The resource as its owner sees it.
LifecyclePhase(obj) ==
    CASE ~obj.exists -> "none"
      [] obj.exists /\ obj.deleting -> "retired"
      [] obj.exists /\ ~obj.deleting /\ obj.finalizer -> "claimed"
      [] OTHER -> "requested"

Lifecycle == INSTANCE ClusterLifecycle WITH
    cluster <- LifecyclePhase(Current),
    clusterApp <- clusterApp.phase,
    intact <- removals = 0

\* The controller, with its stale copies, retries, lost answers and crashes,
\* takes no step that ClusterLifecycle does not allow: every change of the
\* resource and of the applications is a step of the documented life of a
\* Cluster (Reconcile, reconcileDelete).
ImplementsLifecycle == Lifecycle!Spec

\* A cluster app made from an override has the override's directory to point
\* to until the Cluster is being deleted.
OverrideBacksClusterApp ==
    clusterApp.phase # "absent" /\ Current.override /\ ~Current.deleting => dir

\* A Cluster reported as created has both applications, unless somebody
\* removed one, until it is being deleted.
CreatedMeansDeployed ==
    Current.state = "created" /\ ~Current.deleting /\ removals = 0 =>
        arlonApp = "present" /\ clusterApp.phase = "present"

Deployed ==
    /\ Current.state = "created"
    /\ arlonApp = "present"
    /\ clusterApp.phase = "present"

Wanted == Current.exists /\ ~Current.deleting

\* A Cluster nobody deletes ends up created, with its two applications.
EventuallyDeployed == Wanted ~> (Deployed \/ ~Wanted)

\* A Cluster whose deletion is requested eventually disappears.
EventuallyGone == Current.deleting ~> ~Current.exists

\* The status says that the override is in git, and it cannot be deleted there.
DirUnreachable ==
    Current.ovrOk /\ clusterApp.phase # "absent" /\ ~CanDeleteDir(clusterApp)

\* No other failure, stale copy or lost answer stops reconcileDelete: the one
\* Cluster that stays for ever is one whose directory cannot be deleted.
TeardownEnds == <>[](Current.deleting => DirUnreachable)

\* Once users leave a Cluster alone, the annotations of the cluster app
\* settle on the Cluster's.
ProfilesSettle == <>[](Wanted => clusterApp.ann = Current.ann)

\* The annotation sync touches the profiles annotation only: a cluster app
\* keeps the annotations that locate its manifests in git.
BaseAnnotationsKept == clusterApp.phase = "present" => clusterApp.base

----------------------------------------------------------------------------
(* The inductive invariant behind NoOrphanApps, DeletesOnRequest and        *)
(* TeardownOrder: what the versions between the cache and the API server,   *)
(* and the copy held by the reconcile in progress, can be to each other.    *)

Claimed(obj) == obj.exists /\ obj.finalizer
Live(obj) == Claimed(obj) /\ ~obj.deleting

SameMeta(a, b) ==
    /\ a.exists = b.exists
    /\ a.deleting = b.deleting
    /\ a.finalizer = b.finalizer

WellFormed(obj) ==
    /\ obj.deleting => Claimed(obj)
    /\ ~obj.exists => obj = Gone

CreateSteps == {"ValidateGitDir", "CreatePatchDir", "GetArlonApp",
                "CreateArlonApp", "GetClusterApp", "CreateClusterApp",
                "UpdateClusterApp"}
DeleteSteps == {"GetClusterAppDel", "DeleteClusterApp", "GetArlonAppDel",
                "DeleteArlonApp", "RemoveFinalizer"}

\* The order in which versions follow each other from the cache on.
LogInv ==
    /\ \A i \in DOMAIN log : WellFormed(log[i])
    /\ \A i, j \in DOMAIN log :
          i < j /\ Live(log[i]) => Claimed(log[j])
    /\ \A i, j \in DOMAIN log :
          i < j /\ log[i].deleting => ~Live(log[j])
    /\ \A i, j, k \in DOMAIN log :
          i < j /\ j < k /\ log[i].deleting /\ ~Claimed(log[j])
              => ~Claimed(log[k])
    /\ ~log[1].deleting =>
          \A i, j \in DOMAIN log :
              i < j /\ log[i].deleting => Claimed(log[j])

\* What the copy held by a reconcile says of the versions since.
LocalInv ==
    /\ WellFormed(local)
    /\ fresh => SameMeta(local, Current)
    /\ pc # "idle" => local.exists
    /\ pc \in CreateSteps => Live(local)
    /\ pc \in DeleteSteps => local.deleting
    /\ pc = "AddFinalizer" => ~local.finalizer
    /\ Live(local) => Claimed(Current)
    /\ local.deleting => \A i \in DOMAIN log : ~Live(log[i])
    /\ local.deleting /\ ~log[1].deleting =>
          \A i \in DOMAIN log : ~log[i].deleting
    /\ local.exists /\ ~local.finalizer =>
          \A i, j \in DOMAIN log :
              i < j /\ log[i].deleting => Claimed(log[j])

\* What reconcileDelete has seen to be gone is still gone.
AppsInv ==
    /\ NoOrphanApps
    /\ pc \in {"GetArlonAppDel", "DeleteArlonApp", "RemoveFinalizer"} =>
          clusterApp.phase = "absent"
    /\ pc = "RemoveFinalizer" => arlonApp = "absent"

IndInv == TypeOK /\ LogInv /\ LocalInv /\ AppsInv

(* What the statuses and the steps of the creation say of the applications  *)
(* and of the directory, behind OverrideBacksClusterApp,                    *)
(* CreatedMeansDeployed and ImplementsLifecycle.                            *)

\* A version that carries a status which the controller sets while it creates
\* has the finalizer; and as long as such a version may still be acted upon as
\* live, what its status reports is there, and no teardown has begun.
BackedBy(obj, arlon, cluster, inGit, removed) ==
    /\ obj.state = "created" \/ obj.ovrOk => Claimed(obj)
    /\ Live(obj) =>
          /\ obj.override /\ obj.ovrOk => inGit
          /\ removed = 0 =>
                /\ arlon # "terminating"
                /\ cluster # "terminating"
                /\ obj.state = "created" =>
                      arlon = "present" /\ cluster = "present"

Backed(obj) == BackedBy(obj, arlonApp, clusterApp.phase, dir, removals)

\* The override is the same in every version of one life of the Cluster.
SameOverride ==
    /\ \A i, j \in DOMAIN log :
          i < j /\ Live(log[i]) => log[j].override = log[i].override
    /\ Live(local) => local.override = Current.override
    /\ fresh => local.override = Current.override

\* What the creating steps have seen still holds.
CreationInv ==
    /\ pc = "CreateArlonApp" => arlonApp = "absent"
    /\ pc = "CreateClusterApp" => clusterApp.phase = "absent"
    /\ removals = 0 /\ pc \in {"GetClusterApp", "CreateClusterApp",
                                "UpdateClusterApp"} => arlonApp = "present"
    /\ pc \in {"GetArlonApp", "CreateArlonApp", "GetClusterApp",
               "CreateClusterApp", "UpdateClusterApp"} =>
          (local.override => local.ovrOk)

DeployInv ==
    /\ \A i \in DOMAIN log : Backed(log[i])
    /\ Backed(local)
    /\ SameOverride
    /\ CreationInv
    /\ OverrideBacksClusterApp
=============================================================================
