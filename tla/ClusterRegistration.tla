------------------------ MODULE ClusterRegistration ------------------------
(***************************************************************************)
(* The reconciler of one ClusterRegistration                               *)
(* (controllers/clusterregistration_controller.go): it waits for the       *)
(* kubeconfig of a workload cluster, installs Argo CD's service account in *)
(* that cluster, registers the cluster in Argo CD, and removes it from     *)
(* Argo CD when the resource is deleted.                                   *)
(***************************************************************************)
EXTENDS Naturals, Sequences, VersionLog

CONSTANTS
    Secrets,        \* what becomes of the kubeconfig secret (subset of Secret)
    NamedChoices,   \* whether users fill in clusterName (subset of BOOLEAN)
    ValidChoices,   \* whether users name the secret (subset of BOOLEAN)
    FaultSteps,     \* the steps whose calls may fail (subset of PCs)
    MaxLag,         \* bound: versions the cache may be behind
    MaxFaults,      \* bound: failing calls and controller crashes
    MaxEdits        \* bound: user operations and changes of the secret

\* nokey: without the key the resource names; bad: not a kubeconfig.
Secret == {"absent", "nokey", "bad", "ok"}

\* The steps of a reconcile, named after the call each one makes.
PCs == {"idle", "AddFinalizer", "GetCluster", "GetSecret", "InstallRBAC",
        "CreateCluster", "UpdateStatus", "GetClusterDel", "DeleteCluster",
        "RemoveFinalizer"}

ASSUME ConstantsAssumption ==
    /\ Secrets \subseteq Secret
    /\ NamedChoices \subseteq BOOLEAN
    /\ ValidChoices \subseteq BOOLEAN
    /\ FaultSteps \subseteq PCs
    /\ MaxLag \in Nat \ {0}
    /\ MaxFaults \in Nat
    /\ MaxEdits \in Nat

VARIABLES
    log,        \* versions of the resource, from the cached to the current
    queued,     \* its key is in the work queue
    timer,      \* a delayed add of the key is outstanding
    pc,         \* the call the reconcile in progress makes next
    local,      \* its copy of the resource
    fresh,      \* local carries the current resourceVersion
    again,      \* it comes back after ten seconds
    secret,     \* the kubeconfig secret
    registered, \* the cluster is registered in Argo CD
    missed,     \* history: reconcileDelete passed over a registered cluster
    edits,      \* operations of others so far
    faults      \* failures so far

ctlVars == <<queued, timer, pc, local, fresh, again>>
vars == <<log, queued, timer, pc, local, fresh, again, secret, registered,
          missed, edits, faults>>

----------------------------------------------------------------------------
(* Data *)

States == {"", "retrying", "error", "complete"}
Registration ==
    [exists: BOOLEAN, deleting: BOOLEAN, finalizer: BOOLEAN,
     named: BOOLEAN, valid: BOOLEAN, state: States, msg: PCs \cup {""}]

Gone == [exists |-> FALSE, deleting |-> FALSE, finalizer |-> FALSE,
         named |-> FALSE, valid |-> FALSE, state |-> "", msg |-> ""]

Cached == log[1]
Current == log[Len(log)]

----------------------------------------------------------------------------
(* The API server and the informer *)

Write(obj) ==
    /\ Len(log) <= MaxLag
    /\ log' = IF obj = Current THEN log ELSE Append(log, obj)

\* A write by anyone else makes the local copy stale.
KeepsFresh == fresh' = (fresh /\ log' = log)

Deliver ==
    /\ Len(log) > 1
    /\ log' = Tail(log)
    /\ queued' = TRUE
    /\ UNCHANGED <<timer, pc, local, fresh, again, secret, registered, missed,
                   edits, faults>>

TimerFires ==
    /\ timer
    /\ timer' = FALSE
    /\ queued' = TRUE
    /\ UNCHANGED <<log, pc, local, fresh, again, secret, registered, missed,
                   edits, faults>>

----------------------------------------------------------------------------
(* Steps of a reconcile *)

Ok == faults' = faults
Fault ==
    /\ pc \in FaultSteps
    /\ faults < MaxFaults
    /\ faults' = faults + 1

Goto(step) == pc' = step /\ UNCHANGED <<log, queued, timer, local, fresh, again>>

Return(requeue) ==
    /\ pc' = "idle"
    /\ timer' = (timer \/ requeue)
    /\ local' = Gone
    /\ fresh' = FALSE
    /\ again' = FALSE
    /\ UNCHANGED queued

\* Faulty variant of UpdateState: a state that is not one of the resource's.
BadUpdateStatePending(obj, state, delay) ==
    /\ pc' = "UpdateStatus"
    /\ local' = [obj EXCEPT !.state = "pending", !.msg = pc]
    /\ again' = delay
    /\ UNCHANGED <<log, queued, timer, fresh>>

\* The state is set on the local copy; the status is written next.  The
\* message tells apart the steps that set the same state.
UpdateState(obj, state, delay) ==
    /\ pc' = "UpdateStatus"
    /\ local' = [obj EXCEPT !.state = state, !.msg = pc]
    /\ again' = delay
    /\ UNCHANGED <<log, queued, timer, fresh>>

\* Faulty variant of FirstStep: the finalizer is left out.
BadFirstStepNoFinalizer(obj) ==
    CASE obj.deleting -> "GetClusterDel"
      [] ~obj.deleting /\ obj.state \in {"complete", "error"} -> "idle"
      [] ~obj.deleting /\ obj.state \notin {"complete", "error"} /\ ~obj.valid ->
           "UpdateStatus"
      [] OTHER -> "GetCluster"

\* What Reconcile does first: "idle" is nothing, "UpdateStatus" the error of
\* an invalid spec.
FirstStep(obj) ==
    CASE obj.deleting -> "GetClusterDel"
      [] ~obj.deleting /\ obj.state \in {"complete", "error"} -> "idle"
      [] ~obj.deleting /\ obj.state \notin {"complete", "error"} /\ ~obj.valid ->
           "UpdateStatus"
      [] ~obj.deleting /\ obj.state \notin {"complete", "error"} /\ obj.valid
            /\ ~obj.finalizer -> "AddFinalizer"
      [] OTHER -> "GetCluster"

\* Read the resource from the cache; an error is requeued at once.
Reconcile ==
    /\ pc = "idle"
    /\ queued
    /\ \/ /\ Ok
          /\ queued' = FALSE
          /\ ~Cached.exists \/ FirstStep(Cached) = "idle"
          /\ UNCHANGED <<pc, local, fresh>>
       \/ /\ Ok
          /\ queued' = FALSE
          /\ Cached.exists
          /\ FirstStep(Cached) # "idle"
          /\ pc' = FirstStep(Cached)
          /\ local' = IF pc' = "UpdateStatus"
                      THEN [Cached EXCEPT !.state = "error", !.msg = pc]
                      ELSE Cached
          /\ fresh' = (Len(log) = 1)
       \/ /\ Fault
          /\ UNCHANGED <<queued, pc, local, fresh>>
    /\ UNCHANGED <<log, timer, again, secret, registered, missed, edits>>

\* A patch of the finalizers, which no concurrent change makes fail; a
\* deleted object does.
PatchFinalizer(on) ==
    LET new == IF Current.deleting /\ ~on THEN Gone
               ELSE [Current EXCEPT !.finalizer = on]
    IN  \/ Ok /\ Current.exists /\ Write(new) /\ Return(FALSE)
        \/ Ok /\ ~Current.exists /\ Return(TRUE) /\ UNCHANGED log
        \/ /\ Fault
           /\ \/ Current.exists /\ Write(new)
              \/ UNCHANGED log
           /\ Return(TRUE)

AddFinalizer ==
    /\ pc = "AddFinalizer"
    /\ PatchFinalizer(TRUE)
    /\ UNCHANGED <<secret, registered, missed, edits>>

\* Argo CD finds clusters by name; a query without a name fails.
Found == registered /\ local.named

\* Any error of the query is taken for a cluster that is new.
GetCluster ==
    /\ pc = "GetCluster"
    /\ \/ Ok /\ Found /\ UpdateState(local, "complete", FALSE)
       \/ Ok /\ ~Found /\ Goto("GetSecret")
       \/ Fault /\ Goto("GetSecret")
    /\ UNCHANGED <<secret, registered, missed, edits>>

\* Faulty variant of GetSecret: a missing secret is not looked for again.
BadGetSecretNoDelay ==
    /\ pc = "GetSecret"
    /\ \/ Ok /\ secret = "absent" /\ UpdateState(local, "retrying", FALSE)
       \/ Ok /\ secret \in {"nokey", "bad"} /\ UpdateState(local, "error", FALSE)
       \/ Ok /\ secret = "ok" /\ Goto("InstallRBAC")
       \/ Fault /\ UpdateState(local, "error", FALSE)
    /\ UNCHANGED <<secret, registered, missed, edits>>

\* Only a missing secret is waited for.
GetSecret ==
    /\ pc = "GetSecret"
    /\ \/ Ok /\ secret = "absent" /\ UpdateState(local, "retrying", TRUE)
       \/ Ok /\ secret \in {"nokey", "bad"} /\ UpdateState(local, "error", FALSE)
       \/ Ok /\ secret = "ok" /\ Goto("InstallRBAC")
       \/ Fault /\ UpdateState(local, "error", FALSE)
    /\ UNCHANGED <<secret, registered, missed, edits>>

\* Faulty variant of InstallRBAC: a failure goes unnoticed and the cluster
\* counts as registered.
BadInstallRBACCompletes ==
    /\ pc = "InstallRBAC"
    /\ \/ Ok /\ Goto("CreateCluster")
       \/ Fault /\ UpdateState(local, "complete", FALSE)
    /\ UNCHANGED <<secret, registered, missed, edits>>

InstallRBAC ==
    /\ pc = "InstallRBAC"
    /\ \/ Ok /\ Goto("CreateCluster")
       \/ Fault /\ UpdateState(local, "retrying", TRUE)
    /\ UNCHANGED <<secret, registered, missed, edits>>

CreateCluster ==
    /\ pc = "CreateCluster"
    /\ \/ Ok /\ registered' = TRUE /\ UpdateState(local, "complete", FALSE)
       \/ /\ Fault
          /\ registered' \in {registered, TRUE}
          /\ UpdateState(local, "retrying", TRUE)
    /\ UNCHANGED <<secret, missed, edits>>

\* Faulty variant of UpdateStatus: no check of the resourceVersion.
BadUpdateStatusForces ==
    /\ pc = "UpdateStatus"
    /\ Ok
    /\ Write([Current EXCEPT !.state = local.state, !.msg = local.msg])
    /\ Return(again)
    /\ UNCHANGED <<secret, registered, missed, edits>>

\* The update carries the copy's resourceVersion and the status only.
UpdateStatus ==
    LET new == [Current EXCEPT !.state = local.state, !.msg = local.msg] IN
    /\ pc = "UpdateStatus"
    /\ \/ Ok /\ fresh /\ Write(new) /\ Return(again)
       \/ Ok /\ ~fresh /\ Return(TRUE) /\ UNCHANGED log
       \/ /\ Fault
          /\ \/ fresh /\ Write(new)
             \/ UNCHANGED log
          /\ Return(TRUE)
    /\ UNCHANGED <<secret, registered, missed, edits>>

\* An error of the query is ignored, whatever it is.
GetClusterDel ==
    /\ pc = "GetClusterDel"
    /\ \/ Ok /\ Found /\ Goto("DeleteCluster") /\ UNCHANGED missed
       \/ Ok /\ ~Found /\ Goto("RemoveFinalizer") /\ missed' = registered
       \/ Fault /\ Goto("RemoveFinalizer") /\ missed' = registered
    /\ UNCHANGED <<secret, registered, edits>>

\* Faulty variant of DeleteCluster: a failure is final.
BadDeleteClusterNoRetry ==
    /\ pc = "DeleteCluster"
    /\ \/ Ok /\ registered' = FALSE /\ Goto("RemoveFinalizer")
       \/ Fault /\ UNCHANGED <<registered, log>> /\ Return(FALSE)
    /\ UNCHANGED <<secret, missed, edits>>

DeleteCluster ==
    /\ pc = "DeleteCluster"
    /\ \/ Ok /\ registered' = FALSE /\ Goto("RemoveFinalizer")
       \/ /\ Fault
          /\ registered' \in {registered, FALSE}
          /\ Return(TRUE)
          /\ UNCHANGED log
    /\ missed' = (missed /\ registered')
    /\ UNCHANGED <<secret, edits>>

RemoveFinalizer ==
    /\ pc = "RemoveFinalizer"
    /\ PatchFinalizer(FALSE)
    /\ UNCHANGED <<secret, registered, missed, edits>>

\* The process dies (a client that cannot be made ends it, too) and starts
\* again with the current version.
Crash ==
    /\ faults < MaxFaults
    /\ faults' = faults + 1
    /\ log' = <<Current>>
    /\ queued' = Current.exists
    /\ timer' = FALSE
    /\ pc' = "idle"
    /\ local' = Gone
    /\ fresh' = FALSE
    /\ again' = FALSE
    /\ UNCHANGED <<secret, registered, missed, edits>>

----------------------------------------------------------------------------
(* Users and the cluster provider *)

Edit ==
    /\ edits < MaxEdits
    /\ edits' = edits + 1

UserCreates(named, valid) ==
    /\ Edit
    /\ ~Current.exists
    /\ Write([Gone EXCEPT !.exists = TRUE, !.named = named, !.valid = valid])
    /\ KeepsFresh
    /\ UNCHANGED <<queued, timer, pc, local, again, secret, registered,
                   missed, faults>>

UserDeletes ==
    /\ Edit
    /\ Current.exists
    /\ ~Current.deleting
    /\ Write(IF Current.finalizer THEN [Current EXCEPT !.deleting = TRUE] ELSE Gone)
    /\ KeepsFresh
    /\ UNCHANGED <<queued, timer, pc, local, again, secret, registered,
                   missed, faults>>

SecretChanges(new) ==
    /\ Edit
    /\ new # secret
    /\ secret' = new
    /\ UNCHANGED <<log, ctlVars, registered, missed, faults>>

----------------------------------------------------------------------------
(* Specification *)

Init ==
    /\ log = <<Gone>>
    /\ queued = FALSE
    /\ timer = FALSE
    /\ pc = "idle"
    /\ local = Gone
    /\ fresh = FALSE
    /\ again = FALSE
    /\ secret = "absent"
    /\ registered = FALSE
    /\ missed = FALSE
    /\ edits = 0
    /\ faults = 0

Step ==
    \/ Reconcile
    \/ AddFinalizer
    \/ GetCluster
    \/ GetSecret
    \/ InstallRBAC
    \/ CreateCluster
    \/ UpdateStatus
    \/ GetClusterDel
    \/ DeleteCluster
    \/ RemoveFinalizer

Next ==
    \/ Deliver
    \/ TimerFires
    \/ Step
    \/ Crash
    \/ \E named \in NamedChoices : \E valid \in ValidChoices : UserCreates(named, valid)
    \/ UserDeletes
    \/ \E new \in Secrets : SecretChanges(new)

Spec == Init /\ [][Next]_vars

\* The informer delivers, timers fire and the worker runs.
FairSpec == Spec /\ WF_vars(Deliver) /\ WF_vars(TimerFires) /\ WF_vars(Step)

----------------------------------------------------------------------------
(* Properties *)

\* Every variable has its type.
TypeOK ==
    /\ log \in Seq(Registration)
    /\ Len(log) \in 1..MaxLag + 1
    /\ queued \in BOOLEAN
    /\ timer \in BOOLEAN
    /\ pc \in PCs
    /\ local \in Registration
    /\ fresh \in BOOLEAN
    /\ again \in BOOLEAN
    /\ secret \in Secret
    /\ registered \in BOOLEAN
    /\ missed \in BOOLEAN
    /\ edits \in 0..MaxEdits
    /\ faults \in 0..MaxFaults

\* A registration that is gone has left no cluster behind in Argo CD, unless
\* reconcileDelete's query failed or had no name to look for: the finalizer
\* is in place before the cluster is created, and is removed after the
\* cluster is (Reconcile, reconcileDelete).
NoOrphanRegistration == ~Current.exists /\ registered => missed

\* A resource that says complete, and is not being deleted, has its cluster
\* registered in Argo CD.
CompleteMeansRegistered ==
    Current.exists /\ ~Current.deleting /\ Current.state = "complete" => registered

\* States "complete" and "error" are final for the life of the resource: no
\* late retry or stale copy takes them back.
FinalStatesStay ==
    [][Current.exists /\ Current'.exists /\ Current.state \in {"complete", "error"}
         => Current'.state = Current.state]_vars

\* The resource and a usable kubeconfig are there, and no error is recorded.
Wanted ==
    /\ Current.exists
    /\ ~Current.deleting
    /\ Current.state # "error"
    /\ secret = "ok"

\* Once there is a kubeconfig for good the cluster gets registered, and the
\* resource says so (Reconcile comes back until it has).
EventuallyRegistered ==
    <>[]Wanted => <>[](registered /\ Current.state = "complete")

\* A resource that has been deleted goes away.
EventuallyGone == Current.deleting ~> ~Current.exists

----------------------------------------------------------------------------
(* The inductive invariant behind NoOrphanRegistration,                     *)
(* CompleteMeansRegistered and FinalStatesStay                              *)

CreateSteps == {"GetCluster", "GetSecret", "InstallRBAC", "CreateCluster"}
DeleteSteps == {"GetClusterDel", "DeleteCluster", "RemoveFinalizer"}

\* What the reconcile in progress knows of its copy, and the copy of the
\* versions since.
LocalInv ==
    /\ Agrees(local, log)
    /\ fresh => SameMeta(local, Current)
    /\ fresh /\ pc \notin DeleteSteps =>
          Current.state \notin {"complete", "error"}
    /\ pc = "idle" => ~fresh
    /\ pc # "idle" => local.exists
    /\ pc \in CreateSteps => Live(local)
    /\ pc \in DeleteSteps => local.deleting
    /\ pc = "AddFinalizer" => ~local.finalizer

\* A version that says complete has the finalizer, and its cluster is
\* registered as long as it may still be taken for live.
BackedBy(obj, reg) ==
    obj.state = "complete" => Claimed(obj) /\ (Live(obj) => reg)

RegistrationInv ==
    /\ registered /\ ~Claimed(Current) => missed
    /\ pc = "RemoveFinalizer" /\ registered => missed
    /\ \A i \in DOMAIN log : BackedBy(log[i], registered)
    /\ BackedBy(local, registered)

IndInv == TypeOK /\ Ordered(log) /\ LocalInv /\ RegistrationInv
=============================================================================
