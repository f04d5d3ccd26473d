----------------------------- MODULE Installation -----------------------------
(***************************************************************************)
(* arlon init without its examples (cmd/initialize/init.go, cmd/install,   *)
(* pkg/install): it installs Argo CD, the arlon controllers with their     *)
(* account in Argo CD, and Cluster API on a management cluster, in this    *)
(* order.  Each stage has a marker that decides whether it is entered: the *)
(* deployment argocd-server, the namespace arlon, and, inside clusterctl,  *)
(* the core provider.  Administrators may run init at the same time and    *)
(* run it again after one that failed; calls fail, with or without effect; *)
(* Argo CD comes up, and notices changes of its settings, in its own time. *)
(***************************************************************************)
EXTENDS Naturals, Sequences

CONSTANTS
    Procs,          \* runs of arlon init at the same time
    MaxRuns,        \* bound: runs
    MaxFaults,      \* bound: calls that fail
    MaxEdits        \* bound: changes of Argo CD's settings by others

ASSUME BoundsAssumption ==
    MaxRuns \in Nat /\ MaxFaults \in Nat /\ MaxEdits \in Nat

VARIABLES
    objs,       \* what exists on the management cluster
    running,    \* the deployments that are available
    cm, rbac,   \* argocd-cm and argocd-rbac-cm: version, entry for arlon
    loaded,     \* the Argo CD server has loaded the account arlon
    proc,       \* the runs in progress, or how they ended
    cut,        \* history: stages that a run left incomplete, marker in place
    runs, faults, edits

vars == <<objs, running, cm, rbac, loaded, proc, cut, runs, faults, edits>>

----------------------------------------------------------------------------
(* Data *)

Stages == {"argocd", "arlon", "capi"}

\* The resources of a stage in the order in which they are applied; what
\* makes no difference to the stages is one resource.
ArgoPlan == <<"argocd-cm", "argocd-rbac-cm", "argocd-server",
              "argocd-application-controller">>
ArlonPlan == <<"crds", "arlon-controller", "arlon-appprof-ctrlr", "rbac">>
CapiPlan == <<"capi-core", "capi-kubeadm", "capi-infrastructure">>

Elems(seq) == {seq[i] : i \in DOMAIN seq}

Deployments == {"argocd-server", "arlon-controller", "arlon-appprof-ctrlr"}
Objects == Elems(ArgoPlan) \cup Elems(ArlonPlan) \cup Elems(CapiPlan)
               \cup {"arlon", "argocd-creds"}

Marker == [argocd |-> "argocd-server", arlon |-> "arlon", capi |-> "capi-core"]
Wanted == [argocd |-> Elems(ArgoPlan),
           arlon  |-> Elems(ArlonPlan) \cup {"arlon", "argocd-creds"},
           capi   |-> Elems(CapiPlan)]
Complete(stage) == Wanted[stage] \subseteq objs

ConfigMap == [rv: Nat, arlon: BOOLEAN]

\* The steps of a stage, and the outcomes.  "hung": runPortForward waits for
\* a channel that nobody will close.
StepsOf == [argocd |-> {"applyArgo", "waitArgo"},
            arlon  |-> {"forward", "login", "namespace", "getCms", "updateCm",
                        "updateRbac", "token", "secret", "applyArlon",
                        "waitArlon"},
            capi   |-> {"bootstrap", "init", "clusterctl"}]
Applying == {"applyArgo", "applyArlon", "clusterctl"}
Outcomes == {"idle", "ok", "failed", "hung"}
Steps == (UNION {StepsOf[s] : s \in Stages})
             \cup {"checkArgo", "checkArlon"} \cup Outcomes

Run == [step: Steps,
        todo: Seq(Objects),             \* what is left to apply
        cm: Nat, rbac: Nat,             \* the versions it has read
        declined: SUBSET Stages]        \* stages its user did not want

Ended(p) == proc[p].step \in Outcomes
Within(p, stage) == proc[p].step \in StepsOf[stage]

\* A management cluster without Argo CD, or with one that works.
Init ==
    /\ \/ objs = {} /\ running = {}
       \/ objs = Elems(ArgoPlan) /\ running = {"argocd-server"}
    /\ cm = [rv |-> 0, arlon |-> FALSE]
    /\ rbac = [rv |-> 0, arlon |-> FALSE]
    /\ loaded = FALSE
    /\ proc = [p \in Procs |-> [step |-> "idle", todo |-> <<>>, cm |-> 0,
                                rbac |-> 0, declined |-> {}]]
    /\ cut = {}
    /\ runs = 0 /\ faults = 0 /\ edits = 0

Goto(p, step) == proc' = [proc EXCEPT ![p].step = step]
GotoApply(p, step, plan) ==
    proc' = [proc EXCEPT ![p].step = step, ![p].todo = plan]
Decline(p, stage, next) ==
    proc' = [proc EXCEPT ![p].step = next, ![p].declined = @ \cup {stage}]

argoVars == <<cm, rbac, loaded>>
counters == <<cut, runs, faults, edits>>

Start(p) ==
    /\ Ended(p)
    /\ runs < MaxRuns
    /\ runs' = runs + 1
    /\ proc' = [proc EXCEPT ![p].step = "checkArgo", ![p].declined = {}]
    /\ UNCHANGED <<objs, running, argoVars, cut, faults, edits>>

\* The run ends in an error at its step, with what exists then as made.
Fail(p, made) ==
    /\ GotoApply(p, "failed", <<>>)
    /\ cut' = cut \cup {s \in Stages : /\ Within(p, s)
                                       /\ Marker[s] \in made
                                       /\ ~(Wanted[s] \subseteq made)}

----------------------------------------------------------------------------
(* Argo CD: canInstallArgocd, beginArgoCDInstall *)

CheckArgo(p) ==
    /\ proc[p].step = "checkArgo"
    /\ \/ Marker.argocd \in objs /\ Goto(p, "checkArlon")
       \/ /\ Marker.argocd \notin objs
          /\ \/ GotoApply(p, "applyArgo", ArgoPlan)
             \/ Decline(p, "argocd", "checkArlon")
    /\ UNCHANGED <<objs, running, argoVars, counters>>

BadApplyObjectStays(p, step, next) ==
    /\ proc[p].step = step
    /\ objs' = objs \cup {Head(proc[p].todo)}
    /\ proc' = [proc EXCEPT ![p].todo = Tail(@)]
    /\ UNCHANGED <<running, argoVars, counters>>

\* applyObject: an object that exists already is left as it is.
ApplyObject(p, step, next) ==
    LET rest == Tail(proc[p].todo)
    IN  /\ proc[p].step = step
        /\ objs' = objs \cup {Head(proc[p].todo)}
        /\ proc' = [proc EXCEPT ![p].step = IF rest = <<>> THEN next ELSE step,
                                ![p].todo = rest]
        /\ UNCHANGED <<running, argoVars, counters>>

ApplyArgo(p) == ApplyObject(p, "applyArgo", "waitArgo")

\* wait.PollImmediate: five minutes.
WaitFor(p, step, ds, next) ==
    /\ proc[p].step = step
    /\ \/ ds \subseteq running /\ Goto(p, next) /\ UNCHANGED cut
       \/ ~(ds \subseteq running) /\ Fail(p, objs)
    /\ UNCHANGED <<objs, running, argoVars, runs, faults, edits>>

WaitArgo(p) == WaitFor(p, "waitArgo", {"argocd-server"}, "checkArlon")

----------------------------------------------------------------------------
(* The controllers: canInstallArlon, portForward, beginArlonInstall *)

BadCheckArlonInverted(p) ==
    /\ proc[p].step = "checkArlon"
    /\ \/ Marker.arlon \notin objs /\ Goto(p, "bootstrap")
       \/ /\ Marker.arlon \in objs
          /\ Goto(p, "forward") \/ Decline(p, "arlon", "bootstrap")
    /\ UNCHANGED <<objs, running, argoVars, counters>>

CheckArlon(p) ==
    /\ proc[p].step = "checkArlon"
    /\ \/ Marker.arlon \in objs /\ Goto(p, "bootstrap")
       \/ /\ Marker.arlon \notin objs
          /\ Goto(p, "forward") \/ Decline(p, "arlon", "bootstrap")
    /\ UNCHANGED <<objs, running, argoVars, counters>>

\* No pod of the server is an error; the deployment may not have one yet.
PortForward(p) ==
    /\ proc[p].step = "forward"
    /\ \/ "argocd-server" \in running /\ Goto(p, "login") /\ UNCHANGED cut
       \/ "argocd-server" \notin running /\ Fail(p, objs)
    /\ UNCHANGED <<objs, running, argoVars, runs, faults, edits>>

\* If the only pod there is does not run, or the local port is taken,
\* ForwardPorts fails in its goroutine and init waits for ready forever.
PortForwardHangs(p) ==
    /\ proc[p].step = "forward"
    /\ "argocd-server" \in objs
    /\ \/ "argocd-server" \notin running /\ UNCHANGED faults
       \/ /\ "argocd-server" \in running
          /\ faults < MaxFaults
          /\ faults' = faults + 1
    /\ Goto(p, "hung")
    /\ UNCHANGED <<objs, running, argoVars, cut, runs, edits>>

\* getArgoAdminPassword and the login: the server makes the secret when it
\* starts.
Login(p) ==
    /\ proc[p].step = "login"
    /\ Goto(p, "namespace")
    /\ UNCHANGED <<objs, running, argoVars, counters>>

CreateNamespace(p) ==
    /\ proc[p].step = "namespace"
    /\ objs' = objs \cup {"arlon"}
    /\ Goto(p, "getCms")
    /\ UNCHANGED <<running, argoVars, counters>>

GetConfigMaps(p) ==
    /\ proc[p].step = "getCms"
    /\ \/ /\ {"argocd-cm", "argocd-rbac-cm"} \subseteq objs
          /\ proc' = [proc EXCEPT ![p].step = "updateCm", ![p].cm = cm.rv,
                                  ![p].rbac = rbac.rv]
          /\ UNCHANGED cut
       \/ /\ ~({"argocd-cm", "argocd-rbac-cm"} \subseteq objs)
          /\ Fail(p, objs)
    /\ UNCHANGED <<objs, running, argoVars, runs, faults, edits>>

\* The data of the config map is replaced; the API server refuses the update
\* of an old version.
UpdateCm(p) ==
    /\ proc[p].step = "updateCm"
    /\ \/ /\ proc[p].cm = cm.rv
          /\ cm' = [rv |-> cm.rv + 1, arlon |-> TRUE]
          /\ Goto(p, "updateRbac") /\ UNCHANGED cut
       \/ proc[p].cm # cm.rv /\ Fail(p, objs) /\ UNCHANGED cm
    /\ UNCHANGED <<objs, running, rbac, loaded, runs, faults, edits>>

BadUpdateRbacSkipped(p) ==
    /\ proc[p].step = "updateRbac"
    /\ Goto(p, "token")
    /\ UNCHANGED <<objs, running, argoVars, counters>>

UpdateRbac(p) ==
    /\ proc[p].step = "updateRbac"
    /\ \/ /\ proc[p].rbac = rbac.rv
          /\ rbac' = [rv |-> rbac.rv + 1, arlon |-> TRUE]
          /\ Goto(p, "token") /\ UNCHANGED cut
       \/ proc[p].rbac # rbac.rv /\ Fail(p, objs) /\ UNCHANGED rbac
    /\ UNCHANGED <<objs, running, cm, loaded, runs, faults, edits>>

\* createArgoCreds, first half: a server that has not loaded the account yet
\* knows no account arlon.
CreateToken(p) ==
    /\ proc[p].step = "token"
    /\ \/ loaded /\ Goto(p, "secret") /\ UNCHANGED cut
       \/ ~loaded /\ Fail(p, objs)
    /\ UNCHANGED <<objs, running, argoVars, runs, faults, edits>>

\* Second half: a secret that exists is an error.
CreateSecret(p) ==
    /\ proc[p].step = "secret"
    /\ \/ /\ "argocd-creds" \notin objs
          /\ objs' = objs \cup {"argocd-creds"}
          /\ GotoApply(p, "applyArlon", ArlonPlan) /\ UNCHANGED cut
       \/ "argocd-creds" \in objs /\ Fail(p, objs) /\ UNCHANGED objs
    /\ UNCHANGED <<running, argoVars, runs, faults, edits>>

ApplyArlon(p) == ApplyObject(p, "applyArlon", "waitArlon")

WaitArlon(p) ==
    WaitFor(p, "waitArlon", {"arlon-controller", "arlon-appprof-ctrlr"},
            "bootstrap")

----------------------------------------------------------------------------
(* Cluster API: installCAPI *)

\* EnsureRequisites and Bootstrap of the providers: a variable of the
\* environment that is missing ends the run, and so does a user who does not
\* want to go on without a session token, or after the AWS stack could not be
\* made.  Without prompts the run goes on.
Bootstrap(p) ==
    /\ proc[p].step = "bootstrap"
    /\ \/ Goto(p, "init") /\ UNCHANGED cut
       \/ Fail(p, objs)
    /\ UNCHANGED <<objs, running, argoVars, runs, faults, edits>>

IsFirstRun == Marker.capi \notin objs

\* Core and kubeadm are asked for on the first run only; clusterctl refuses a
\* provider that is there already.
InstallCAPI(p) ==
    LET plan == IF IsFirstRun THEN CapiPlan ELSE <<"capi-infrastructure">>
    IN  /\ proc[p].step = "init"
        /\ \/ /\ Elems(plan) \cap objs = {}
              /\ GotoApply(p, "clusterctl", plan) /\ UNCHANGED cut
           \/ Elems(plan) \cap objs # {} /\ Fail(p, objs)
        /\ UNCHANGED <<objs, running, argoVars, runs, faults, edits>>

Clusterctl(p) == ApplyObject(p, "clusterctl", "ok")

\* Any call may fail, or the process be killed.  A call that creates or
\* applies something may have done so.
CallFails(p) ==
    LET step == proc[p].step
        next == CASE step \in Applying -> {Head(proc[p].todo)}
                  [] step = "namespace" -> {"arlon"}
                  [] step = "secret" -> {"argocd-creds"}
                  [] OTHER -> {}
    IN  /\ ~Ended(p)
        /\ faults < MaxFaults
        /\ faults' = faults + 1
        /\ \E made \in {objs, objs \cup next} : objs' = made /\ Fail(p, made)
        /\ cm' \in {cm} \cup {c \in {[rv |-> cm.rv + 1, arlon |-> TRUE]} :
                                step = "updateCm" /\ proc[p].cm = cm.rv}
        /\ rbac' \in {rbac} \cup {c \in {[rv |-> rbac.rv + 1, arlon |-> TRUE]} :
                                step = "updateRbac" /\ proc[p].rbac = rbac.rv}
        /\ UNCHANGED <<running, loaded, runs, edits>>

----------------------------------------------------------------------------
(* The management cluster *)

Available ==
    /\ \E d \in (Deployments \cap objs) \ running :
          /\ d # "argocd-server" => "argocd-creds" \in objs
          /\ running' = running \cup {d}
    /\ UNCHANGED <<objs, argoVars, proc, counters>>

\* The Argo CD server notices the new settings.
ServerReloads ==
    /\ "argocd-server" \in running
    /\ loaded' = cm.arlon
    /\ UNCHANGED <<objs, running, cm, rbac, proc, counters>>

\* An administrator changes other settings of Argo CD.
OthersEdit ==
    /\ edits < MaxEdits
    /\ edits' = edits + 1
    /\ {"argocd-cm", "argocd-rbac-cm"} \subseteq objs
    /\ \/ cm' = [cm EXCEPT !.rv = @ + 1] /\ UNCHANGED rbac
       \/ rbac' = [rbac EXCEPT !.rv = @ + 1] /\ UNCHANGED cm
    /\ UNCHANGED <<objs, running, loaded, proc, cut, runs, faults>>

Step(p) ==
    \/ CheckArgo(p) \/ ApplyArgo(p) \/ WaitArgo(p)
    \/ CheckArlon(p) \/ PortForward(p) \/ PortForwardHangs(p) \/ Login(p)
    \/ CreateNamespace(p)
    \/ GetConfigMaps(p) \/ UpdateCm(p) \/ UpdateRbac(p) \/ CreateToken(p)
    \/ CreateSecret(p) \/ ApplyArlon(p) \/ WaitArlon(p)
    \/ Bootstrap(p) \/ InstallCAPI(p) \/ Clusterctl(p)

Next ==
    \/ \E p \in Procs : Start(p) \/ Step(p) \/ CallFails(p)
    \/ Available \/ ServerReloads \/ OthersEdit

Spec == Init /\ [][Next]_vars

----------------------------------------------------------------------------
(* arlon verify: the namespaces are there *)

VerifyArlon == "arlon" \in objs
VerifyCapi == "capi-core" \in objs

----------------------------------------------------------------------------
(* Properties *)

\* The state stays in its types, and a run is at a step that applies objects
\* exactly as long as it has objects left to apply.
TypeOK ==
    /\ objs \subseteq Objects
    /\ running \subseteq Deployments \cap objs
    /\ cm \in ConfigMap /\ rbac \in ConfigMap
    /\ loaded \in BOOLEAN
    /\ proc \in [Procs -> Run]
    /\ \A p \in Procs : proc[p].step \in Applying <=> proc[p].todo # <<>>
    /\ cut \subseteq Stages
    /\ runs \in 0 .. MaxRuns
    /\ faults \in 0 .. MaxFaults
    /\ edits \in 0 .. MaxEdits

\* A run of arlon init that ends without an error leaves every stage that its
\* user did not decline complete, even if earlier runs failed and others run
\* at the same time, with two exceptions: a stage that an earlier run left
\* half-way behind its marker, which no later run resumes, and one that
\* another run is still busy with.  arlon verify then agrees.
SuccessMeansInstalled ==
    \A p \in Procs : proc[p].step = "ok" =>
        /\ \A s \in Stages \ (proc[p].declined \cup cut) :
              Complete(s) \/ \E q \in Procs : Within(q, s)
        /\ "arlon" \notin proc[p].declined => VerifyArlon
        /\ VerifyCapi

\* The controllers are never deployed without the credentials of an account
\* that Argo CD lets in as an administrator, however runs of init, other
\* changes of the settings and failures interleave.
ControllersHaveAccess ==
    {"arlon-controller", "arlon-appprof-ctrlr"} \cap objs # {} =>
        "argocd-creds" \in objs /\ cm.arlon /\ rbac.arlon

----------------------------------------------------------------------------
(* The inductive invariant.  Its parts are about a state that is given by  *)
(* arguments: what exists, made, the stages left half-way, left, and       *)
(* whether argocd-cm and argocd-rbac-cm have their entries, account and    *)
(* admin.                                                                  *)

ApplyStep == [argocd |-> "applyArgo", arlon |-> "applyArlon",
              capi |-> "clusterctl"]
PlanOf == [argocd |-> ArgoPlan, arlon |-> ArlonPlan, capi |-> CapiPlan]

\* The steps of a run that made the namespace and has applied nothing in it.
InNamespace == {"getCms", "updateCm", "updateRbac", "token", "secret"}

\* The run has put the marker of the stage in place, or will, and what the
\* stage lacks is still ahead of it.
Completing(run, stage, made) ==
    \/ stage = "arlon" /\ run.step \in InNamespace
    \/ /\ run.step = ApplyStep[stage]
       /\ Wanted[stage] \subseteq made \cup Elems(run.todo)

\* What a run still has to apply is part of the plan of its stage, and with
\* what exists it amounts to the whole stage.  The exception is Cluster API
\* if its core was there when the run asked: then others are left out.
TodoInv(run, made) ==
    /\ \A s \in Stages : run.step = ApplyStep[s] =>
          /\ Elems(run.todo) \subseteq Elems(PlanOf[s])
          /\ \/ Wanted[s] \subseteq made \cup Elems(run.todo)
             \/ s = "capi" /\ Marker.capi \in made
    /\ run.step = "waitArgo" => Wanted.argocd \subseteq made
    /\ run.step = "waitArlon" => Wanted.arlon \subseteq made

\* The stages behind a run have their markers, unless its user declined them,
\* and so has the stage of a run that made the namespace.
PassedInv(run, made) ==
    /\ run.step \in (Steps \ Outcomes) \ {"checkArgo", "applyArgo"} =>
          "argocd" \in run.declined \/ Marker.argocd \in made
    /\ run.step \in InNamespace => Marker.arlon \in made
    /\ run.step \in StepsOf.capi =>
          "arlon" \in run.declined \/ Marker.arlon \in made
    /\ run.step = "ok" =>
          /\ \A s \in {"argocd", "arlon"} :
                s \in run.declined \/ Marker[s] \in made
          /\ Marker.capi \in made

\* A run reaches the controllers only past the updates of both config maps
\* and past the credentials.
AccessInv(run, made, account, admin) ==
    /\ run.step \in {"updateRbac", "token", "secret", "applyArlon"} => account
    /\ run.step \in {"token", "secret", "applyArlon"} => admin
    /\ run.step = "applyArlon" => "argocd-creds" \in made

\* A stage whose marker is in place is complete, was left half-way, or is
\* being completed.
StageInv(procs, made, left) ==
    \A s \in Stages : Marker[s] \in made =>
        \/ Wanted[s] \subseteq made
        \/ s \in left
        \/ \E q \in Procs : Completing(procs[q], s, made)

\* The invariant that the proofs need.
IndInv ==
    /\ TypeOK
    /\ \A p \in Procs : /\ TodoInv(proc[p], objs)
                        /\ PassedInv(proc[p], objs)
                        /\ AccessInv(proc[p], objs, cm.arlon, rbac.arlon)
    /\ StageInv(proc, objs, cut)
    /\ ControllersHaveAccess
=============================================================================
