--------------------------- MODULE CallHomeConfig ---------------------------
(***************************************************************************)
(* The reconciler of one CallHomeConfig                                    *)
(* (controllers/callhomeconfig_controller.go): it puts a secret with a     *)
(* kubeconfig for the management cluster, made from the token of a service *)
(* account, into a workload cluster.                                       *)
(***************************************************************************)
EXTENDS Naturals, Sequences

CONSTANTS
    Accounts,       \* service accounts of the management cluster
    FaultSteps,     \* the steps whose calls may fail (subset of PCs)
    MaxLag,         \* bound: versions the cache may be behind
    MaxFaults,      \* bound: failing calls and controller crashes
    MaxEdits,       \* bound: user operations on the resource
    MaxChanges      \* bound: changes of the secrets and accounts it needs

\* The steps of a reconcile, named after the call each one makes.
PCs == {"idle", "GetSecret", "GetTarget", "GetServiceAccount", "ListSecrets",
        "CreateTarget", "UpdateStatus"}

ASSUME ConstantsAssumption ==
    /\ "" \notin Accounts
    /\ FaultSteps \subseteq PCs
    /\ MaxLag \in Nat \ {0}
    /\ MaxFaults \in Nat
    /\ MaxEdits \in Nat
    /\ MaxChanges \in Nat

VARIABLES
    log,        \* versions of the resource, from the cached to the current
    queued,     \* its key is in the work queue
    timer,      \* a delayed add of the key is outstanding
    pc,         \* the call the reconcile in progress makes next
    local,      \* its copy of the resource
    fresh,      \* local carries the current resourceVersion
    again,      \* it comes back after ten seconds
    kubeconfig, \* the secret with the workload cluster's kubeconfig
    tokens,     \* the token secret of each service account
    target,     \* the account the target secret was made for, "" if none
    edits,      \* user operations so far
    changes,    \* changes of the surroundings so far
    faults      \* failures so far

surroundings == <<kubeconfig, tokens>>
vars == <<log, queued, timer, pc, local, fresh, again, kubeconfig, tokens,
          target, edits, changes, faults>>

----------------------------------------------------------------------------
(* Data *)

\* unusable: the key is missing or does not hold a kubeconfig.
Secret == {"absent", "unusable", "ok"}

\* no account: the service account itself is missing; no secret: no secret
\* is annotated with it; no token, no ca: the secret lacks that key.
Token == {"no account", "no secret", "no token", "no ca", "ok"}

States == {"", "retrying", "error", "complete"}
Config == [exists: BOOLEAN, account: Accounts \cup {""}, state: States,
           msg: PCs \cup Secret \cup Token \cup {""}]

Gone == [exists |-> FALSE, account |-> "", state |-> "", msg |-> ""]

Cached == log[1]
Current == log[Len(log)]

----------------------------------------------------------------------------
(* The API server and the informer *)

Write(obj) ==
    /\ Len(log) <= MaxLag
    /\ log' = IF obj = Current THEN log ELSE Append(log, obj)

KeepsFresh == fresh' = (fresh /\ log' = log)

Deliver ==
    /\ Len(log) > 1
    /\ log' = Tail(log)
    /\ queued' = TRUE
    /\ UNCHANGED <<timer, pc, local, fresh, again, surroundings, target, edits,
                   changes, faults>>

TimerFires ==
    /\ timer
    /\ timer' = FALSE
    /\ queued' = TRUE
    /\ UNCHANGED <<log, pc, local, fresh, again, surroundings, target, edits,
                   changes, faults>>

----------------------------------------------------------------------------
(* Steps of a reconcile *)

Ok == faults' = faults
Fault ==
    /\ pc \in FaultSteps
    /\ faults < MaxFaults
    /\ faults' = faults + 1

Goto(step) == pc' = step /\ UNCHANGED <<log, queued, timer, local, fresh, again>>

Return(requeue) ==
    /\ pc' = "idle"
    /\ timer' = (timer \/ requeue)
    /\ local' = Gone
    /\ fresh' = FALSE
    /\ again' = FALSE
    /\ UNCHANGED queued

\* A status that is there already is not written again.
UpdateState(state, msg, delay) ==
    IF local.state = state /\ local.msg = msg
    THEN Return(delay) /\ UNCHANGED log
    ELSE /\ pc' = "UpdateStatus"
         /\ local' = [local EXCEPT !.state = state, !.msg = msg]
         /\ again' = delay
         /\ UNCHANGED <<log, queued, timer, fresh>>

\* Faulty variant of RetryLater: the delay is lost.
BadRetryLaterNever(msg) == UpdateState("retrying", msg, FALSE)

RetryLater(msg) == UpdateState("retrying", msg, TRUE)

\* Read the resource from the cache; an error is requeued at once, a final
\* state ends the reconcile.
Reconcile ==
    /\ pc = "idle"
    /\ queued
    /\ \/ /\ Ok
          /\ ~Cached.exists \/ Cached.state \in {"complete", "error"}
          /\ queued' = FALSE
          /\ UNCHANGED <<pc, local, fresh>>
       \/ /\ Ok
          /\ Cached.exists
          /\ Cached.state \notin {"complete", "error"}
          /\ queued' = FALSE
          /\ pc' = "GetSecret"
          /\ local' = Cached
          /\ fresh' = (Len(log) = 1)
       \/ /\ Fault
          /\ UNCHANGED <<queued, pc, local, fresh>>
    /\ UNCHANGED <<log, timer, again, surroundings, target, edits, changes>>

\* The workload cluster's kubeconfig; only a missing secret is waited for.
GetSecret ==
    /\ pc = "GetSecret"
    /\ \/ Ok /\ kubeconfig = "absent" /\ RetryLater("absent")
       \/ Ok /\ kubeconfig = "unusable" /\ UpdateState("error", "unusable", FALSE)
       \/ Ok /\ kubeconfig = "ok" /\ Goto("GetTarget")
       \/ Fault /\ UpdateState("error", pc, FALSE)
    /\ UNCHANGED <<surroundings, target, edits, changes>>

\* Faulty variant of GetTarget: an unreachable workload cluster counts as
\* one that has the secret.
BadGetTargetAssumes ==
    /\ pc = "GetTarget"
    /\ \/ Ok /\ target # "" /\ UpdateState("complete", pc, FALSE)
       \/ Ok /\ target = "" /\ Goto("GetServiceAccount")
       \/ Fault /\ UpdateState("complete", pc, FALSE)
    /\ UNCHANGED <<surroundings, target, edits, changes>>

\* A target secret that exists is taken as it is.
GetTarget ==
    /\ pc = "GetTarget"
    /\ \/ Ok /\ target # "" /\ UpdateState("complete", pc, FALSE)
       \/ Ok /\ target = "" /\ Goto("GetServiceAccount")
       \/ Fault /\ RetryLater(pc)
    /\ UNCHANGED <<surroundings, target, edits, changes>>

GetServiceAccount ==
    /\ pc = "GetServiceAccount"
    /\ \/ Ok /\ tokens[local.account] = "no account" /\ RetryLater("no account")
       \/ Ok /\ tokens[local.account] # "no account" /\ Goto("ListSecrets")
       \/ Fault /\ UpdateState("error", pc, FALSE)
    /\ UNCHANGED <<surroundings, target, edits, changes>>

\* The token secret; the kubeconfig is made from it.
ListSecrets ==
    LET token == tokens[local.account] IN
    /\ pc = "ListSecrets"
    /\ \/ Ok /\ token \in {"no account", "no secret", "no token"} /\ RetryLater(token)
       \/ Ok /\ token = "no ca" /\ UpdateState("error", token, FALSE)
       \/ Ok /\ token = "ok" /\ Goto("CreateTarget")
       \/ Fault /\ RetryLater(pc)
    /\ UNCHANGED <<surroundings, target, edits, changes>>

\* Create refuses to replace a secret; this reconcile has seen that there is
\* none, and nobody else makes one.
CreateTarget ==
    /\ pc = "CreateTarget"
    /\ \/ /\ Ok
          /\ target = ""
          /\ target' = local.account
          /\ UpdateState("complete", pc, FALSE)
       \/ /\ Fault
          /\ target' \in {target, IF target = "" THEN local.account ELSE target}
          /\ RetryLater(pc)
    /\ UNCHANGED <<surroundings, edits, changes>>

\* Faulty variant of UpdateStatus: no check of the resourceVersion.
BadUpdateStatusForces ==
    /\ pc = "UpdateStatus"
    /\ Ok
    /\ Write([Current EXCEPT !.state = local.state, !.msg = local.msg])
    /\ Return(again)
    /\ UNCHANGED <<surroundings, target, edits, changes>>

\* The update carries the copy's resourceVersion and the status only.
UpdateStatus ==
    LET new == [Current EXCEPT !.state = local.state, !.msg = local.msg] IN
    /\ pc = "UpdateStatus"
    /\ \/ Ok /\ fresh /\ Write(new) /\ Return(again)
       \/ Ok /\ ~fresh /\ Return(TRUE) /\ UNCHANGED log
       \/ /\ Fault
          /\ \/ fresh /\ Write(new)
             \/ UNCHANGED log
          /\ Return(TRUE)
    /\ UNCHANGED <<surroundings, target, edits, changes>>

Crash ==
    /\ faults < MaxFaults
    /\ faults' = faults + 1
    /\ log' = <<Current>>
    /\ queued' = Current.exists
    /\ timer' = FALSE
    /\ pc' = "idle"
    /\ local' = Gone
    /\ fresh' = FALSE
    /\ again' = FALSE
    /\ UNCHANGED <<surroundings, target, edits, changes>>

----------------------------------------------------------------------------
(* Users, the cluster provider and the token controller *)

\* A resource is created or deleted; there is no finalizer.
UserWrites(obj) ==
    /\ edits < MaxEdits
    /\ edits' = edits + 1
    /\ Current.exists # obj.exists
    /\ Write(obj)
    /\ KeepsFresh
    /\ UNCHANGED <<queued, timer, pc, local, again, surroundings, target,
                   changes, faults>>

UserCreates(account) == UserWrites([Gone EXCEPT !.exists = TRUE, !.account = account])
UserDeletes == UserWrites(Gone)

KubeconfigChanges(new) ==
    /\ changes < MaxChanges
    /\ changes' = changes + 1
    /\ kubeconfig' = new
    /\ UNCHANGED <<log, queued, timer, pc, local, fresh, again, tokens, target,
                   edits, faults>>

TokenChanges(account, new) ==
    /\ changes < MaxChanges
    /\ changes' = changes + 1
    /\ tokens' = [tokens EXCEPT ![account] = new]
    /\ UNCHANGED <<log, queued, timer, pc, local, fresh, again, kubeconfig,
                   target, edits, faults>>

----------------------------------------------------------------------------
(* Specification *)

Init ==
    /\ log = <<Gone>>
    /\ queued = FALSE
    /\ timer = FALSE
    /\ pc = "idle"
    /\ local = Gone
    /\ fresh = FALSE
    /\ again = FALSE
    /\ kubeconfig \in Secret
    /\ tokens \in [Accounts -> Token]
    /\ target = ""
    /\ edits = 0
    /\ changes = 0
    /\ faults = 0

Step ==
    \/ Reconcile
    \/ GetSecret
    \/ GetTarget
    \/ GetServiceAccount
    \/ ListSecrets
    \/ CreateTarget
    \/ UpdateStatus

Next ==
    \/ Deliver
    \/ TimerFires
    \/ Step
    \/ Crash
    \/ \E account \in Accounts : UserCreates(account)
    \/ UserDeletes
    \/ \E new \in Secret : KubeconfigChanges(new)
    \/ \E account \in Accounts : \E new \in Token : TokenChanges(account, new)

Spec == Init /\ [][Next]_vars

\* The informer delivers, timers fire and the worker runs.
FairSpec == Spec /\ WF_vars(Deliver) /\ WF_vars(TimerFires) /\ WF_vars(Step)

----------------------------------------------------------------------------
(* Properties *)

\* Every variable has its type.
TypeOK ==
    /\ log \in Seq(Config)
    /\ Len(log) \in 1..MaxLag + 1
    /\ queued \in BOOLEAN
    /\ timer \in BOOLEAN
    /\ pc \in PCs
    /\ local \in Config
    /\ fresh \in BOOLEAN
    /\ again \in BOOLEAN
    /\ kubeconfig \in Secret
    /\ tokens \in [Accounts -> Token]
    /\ target \in Accounts \cup {""}
    /\ edits \in 0..MaxEdits
    /\ changes \in 0..MaxChanges
    /\ faults \in 0..MaxFaults

\* A resource that says complete has its secret in the workload cluster,
\* whatever was lost, retried or re-created on the way.
CompleteMeansDelivered ==
    Current.exists /\ Current.state = "complete" => target # ""

\* States "complete" and "error" are final for the life of the resource: a
\* reconcile of an old version does not take them back.
FinalStatesStay ==
    [][Current.exists /\ Current'.exists /\ Current.state \in {"complete", "error"}
         => Current'.state = Current.state]_vars

\* The resource, the kubeconfig and the token are there for good, and no
\* error has been recorded.
Wanted ==
    /\ Current.exists
    /\ Current.state # "error"
    /\ kubeconfig = "ok"
    /\ tokens[Current.account] = "ok"

\* Once everything it needs is there, the secret is delivered.
EventuallyDelivered == <>[]Wanted => <>[](Current.state = "complete")

----------------------------------------------------------------------------
(* The inductive invariant behind CompleteMeansDelivered and                *)
(* FinalStatesStay                                                          *)

\* What is true of every version and every copy of one, old or new: it names
\* an account, and says complete only if there is a target secret.
BackedBy(obj, secret) ==
    /\ obj.exists => obj.account \in Accounts
    /\ obj.state = "complete" => secret # ""

VersionsInv ==
    /\ \A i \in DOMAIN log : BackedBy(log[i], target)
    /\ BackedBy(local, target)

\* The reconcile in progress has a copy of a resource, and writes over a
\* version without a final state only.
CopyInv ==
    /\ pc # "idle" => local.exists
    /\ fresh => pc # "idle" /\ Current.state \notin {"complete", "error"}

IndInv == TypeOK /\ VersionsInv /\ CopyInv
=============================================================================
