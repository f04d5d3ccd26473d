-------------------------- MODULE ClusterLifecycle --------------------------
(***************************************************************************)
(* What the Cluster controller promises, without caches, queues, retries,  *)
(* failures and copies: the life of a Cluster resource and of its two      *)
(* Argo CD applications (docs/declarative_clusters.md).                    *)
(*                                                                         *)
(* A Cluster is requested, claimed by the controller (the finalizer),      *)
(* retired by the user and released by the controller.  Applications come  *)
(* into being only for a claimed Cluster, the arlon app first; they are    *)
(* removed only from a retired one, the cluster app first; and a Cluster   *)
(* is released only when both are gone.                                    *)
(***************************************************************************)

VARIABLES
    cluster,    \* "none", "requested", "claimed" or "retired"
    arlonApp,   \* phase of the arlon app
    clusterApp, \* phase of the cluster app
    intact      \* nobody else has removed an application so far

vars == <<cluster, arlonApp, clusterApp, intact>>
apps == <<arlonApp, clusterApp>>

----------------------------------------------------------------------------
(* The user *)

Request ==
    /\ cluster = "none"
    /\ cluster' = "requested"
    /\ UNCHANGED <<apps, intact>>

\* Deletion before the controller has claimed the Cluster needs no teardown.
Withdraw ==
    /\ cluster = "requested"
    /\ cluster' = "none"
    /\ UNCHANGED <<apps, intact>>

Retire ==
    /\ cluster = "claimed"
    /\ cluster' = "retired"
    /\ UNCHANGED <<apps, intact>>

----------------------------------------------------------------------------
(* The controller *)

Claim ==
    /\ cluster = "requested"
    /\ cluster' = "claimed"
    /\ UNCHANGED <<apps, intact>>

\* A deletion request may arrive while the applications are being created.
DeployArlonApp ==
    /\ cluster \in {"claimed", "retired"}
    /\ arlonApp = "absent"
    /\ clusterApp = "absent"
    /\ arlonApp' = "present"
    /\ UNCHANGED <<cluster, clusterApp, intact>>

DeployClusterApp ==
    /\ cluster \in {"claimed", "retired"}
    /\ clusterApp = "absent"
    /\ intact => arlonApp = "present"
    /\ clusterApp' = "present"
    /\ UNCHANGED <<cluster, arlonApp, intact>>

RemoveClusterApp ==
    /\ cluster = "retired"
    /\ clusterApp = "present"
    /\ clusterApp' = "terminating"
    /\ UNCHANGED <<cluster, arlonApp, intact>>

RemoveArlonApp ==
    /\ cluster = "retired"
    /\ clusterApp = "absent"
    /\ arlonApp = "present"
    /\ arlonApp' = "terminating"
    /\ UNCHANGED <<cluster, clusterApp, intact>>

Release ==
    /\ cluster = "retired"
    /\ arlonApp = "absent"
    /\ clusterApp = "absent"
    /\ cluster' = "none"
    /\ UNCHANGED <<apps, intact>>

----------------------------------------------------------------------------
(* Argo CD and its other users *)

Terminated ==
    /\ \/ /\ arlonApp = "terminating"
          /\ arlonApp' = "absent"
          /\ UNCHANGED clusterApp
       \/ /\ clusterApp = "terminating"
          /\ clusterApp' = "absent"
          /\ UNCHANGED arlonApp
    /\ UNCHANGED <<cluster, intact>>

OthersRemoveApp ==
    /\ \/ /\ arlonApp = "present"
          /\ arlonApp' = "terminating"
          /\ UNCHANGED clusterApp
       \/ /\ clusterApp = "present"
          /\ clusterApp' = "terminating"
          /\ UNCHANGED arlonApp
    /\ intact' = FALSE
    /\ UNCHANGED cluster

----------------------------------------------------------------------------

Init ==
    /\ cluster = "none"
    /\ arlonApp = "absent"
    /\ clusterApp = "absent"
    /\ intact = TRUE

Next ==
    \/ Request
    \/ Withdraw
    \/ Retire
    \/ Claim
    \/ DeployArlonApp
    \/ DeployClusterApp
    \/ RemoveClusterApp
    \/ RemoveArlonApp
    \/ Release
    \/ Terminated
    \/ OthersRemoveApp

Spec == Init /\ [][Next]_vars
=============================================================================
