-------------------------- MODULE InstallationProofs --------------------------
(***************************************************************************)
(* Proofs about Installation: the runs of arlon init stay in their types,  *)
(* leave the controllers with access to Argo CD, and what a run that ends  *)
(* without an error leaves behind.                                         *)
(***************************************************************************)
EXTENDS Installation, TLAPS

USE DEF InNamespace

----------------------------------------------------------------------------
(* The plans *)

\* The elements of the plans, in the order of the code, as sets.
LEMMA PlanElems ==
    /\ Elems(ArgoPlan) = {"argocd-cm", "argocd-rbac-cm", "argocd-server",
                          "argocd-application-controller"}
    /\ Elems(ArlonPlan) = {"crds", "arlon-controller", "arlon-appprof-ctrlr",
                           "rbac"}
    /\ Elems(CapiPlan) = {"capi-core", "capi-kubeadm", "capi-infrastructure"}
    /\ Elems(<<"capi-infrastructure">>) = {"capi-infrastructure"}
    /\ Elems(<<>>) = {}
<1>1. Elems(ArgoPlan) = {"argocd-cm", "argocd-rbac-cm", "argocd-server",
                         "argocd-application-controller"}
  <2>1. DOMAIN ArgoPlan = 1 .. 4
    BY DEF ArgoPlan
  <2>2. DOMAIN ArgoPlan = {1, 2, 3, 4}
    BY <2>1
  <2>. QED  BY <2>2 DEF Elems, ArgoPlan
<1>2. Elems(ArlonPlan) = {"crds", "arlon-controller", "arlon-appprof-ctrlr",
                          "rbac"}
  <2>1. DOMAIN ArlonPlan = 1 .. 4
    BY DEF ArlonPlan
  <2>2. DOMAIN ArlonPlan = {1, 2, 3, 4}
    BY <2>1
  <2>. QED  BY <2>2 DEF Elems, ArlonPlan
<1>3. Elems(CapiPlan) = {"capi-core", "capi-kubeadm", "capi-infrastructure"}
  <2>1. DOMAIN CapiPlan = 1 .. 3
    BY DEF CapiPlan
  <2>2. DOMAIN CapiPlan = {1, 2, 3}
    BY <2>1
  <2>. QED  BY <2>2 DEF Elems, CapiPlan
<1>4. Elems(<<"capi-infrastructure">>) = {"capi-infrastructure"}
  BY DEF Elems
<1>5. Elems(<<>>) = {}
  BY DEF Elems
<1>. QED  BY <1>1, <1>2, <1>3, <1>4, <1>5

\* What exists and what a stage wants, spelled out.
LEMMA Spelled ==
    /\ Objects = {"argocd-cm", "argocd-rbac-cm", "argocd-server",
                  "argocd-application-controller", "crds", "arlon-controller",
                  "arlon-appprof-ctrlr", "rbac", "capi-core", "capi-kubeadm",
                  "capi-infrastructure", "arlon", "argocd-creds"}
    /\ Wanted["argocd"] = {"argocd-cm", "argocd-rbac-cm", "argocd-server",
                           "argocd-application-controller"}
    /\ Wanted["arlon"] = {"crds", "arlon-controller", "arlon-appprof-ctrlr",
                          "rbac", "arlon", "argocd-creds"}
    /\ Wanted["capi"] = {"capi-core", "capi-kubeadm", "capi-infrastructure"}
    /\ Marker["argocd"] = "argocd-server"
    /\ Marker["arlon"] = "arlon"
    /\ Marker["capi"] = "capi-core"
    /\ ApplyStep["argocd"] = "applyArgo"
    /\ ApplyStep["arlon"] = "applyArlon"
    /\ ApplyStep["capi"] = "clusterctl"
    /\ Elems(PlanOf["argocd"]) = {"argocd-cm", "argocd-rbac-cm",
                                  "argocd-server",
                                  "argocd-application-controller"}
    /\ Elems(PlanOf["arlon"]) = {"crds", "arlon-controller",
                                 "arlon-appprof-ctrlr", "rbac"}
    /\ Elems(PlanOf["capi"]) = {"capi-core", "capi-kubeadm",
                                "capi-infrastructure"}
<1>1. Objects = {"argocd-cm", "argocd-rbac-cm", "argocd-server",
                 "argocd-application-controller", "crds", "arlon-controller",
                 "arlon-appprof-ctrlr", "rbac", "capi-core", "capi-kubeadm",
                 "capi-infrastructure", "arlon", "argocd-creds"}
  BY PlanElems DEF Objects
<1>2. /\ Wanted["argocd"] = Elems(ArgoPlan)
      /\ Wanted["arlon"] = Elems(ArlonPlan) \cup {"arlon", "argocd-creds"}
      /\ Wanted["capi"] = Elems(CapiPlan)
  BY DEF Wanted
<1>3. /\ Marker["argocd"] = "argocd-server"
      /\ Marker["arlon"] = "arlon"
      /\ Marker["capi"] = "capi-core"
      /\ ApplyStep["argocd"] = "applyArgo"
      /\ ApplyStep["arlon"] = "applyArlon"
      /\ ApplyStep["capi"] = "clusterctl"
  BY DEF Marker, ApplyStep
<1>4. /\ PlanOf["argocd"] = ArgoPlan
      /\ PlanOf["arlon"] = ArlonPlan
      /\ PlanOf["capi"] = CapiPlan
  BY DEF PlanOf
<1>. QED  BY <1>1, <1>2, <1>3, <1>4, PlanElems

\* The steps of the stages, spelled out.
LEMMA SpelledSteps ==
    /\ StepsOf["argocd"] = {"applyArgo", "waitArgo"}
    /\ StepsOf["arlon"] = {"forward", "login", "namespace", "getCms",
                           "updateCm", "updateRbac", "token", "secret",
                           "applyArlon", "waitArlon"}
    /\ StepsOf["capi"] = {"bootstrap", "init", "clusterctl"}
    /\ Steps = {"applyArgo", "waitArgo", "forward", "login", "namespace",
                "getCms", "updateCm", "updateRbac", "token", "secret",
                "applyArlon", "waitArlon", "bootstrap", "init", "clusterctl",
                "checkArgo", "checkArlon", "idle", "ok", "failed", "hung"}
<1>1. /\ StepsOf["argocd"] = {"applyArgo", "waitArgo"}
      /\ StepsOf["arlon"] = {"forward", "login", "namespace", "getCms",
                             "updateCm", "updateRbac", "token", "secret",
                             "applyArlon", "waitArlon"}
      /\ StepsOf["capi"] = {"bootstrap", "init", "clusterctl"}
  BY DEF StepsOf
<1>2. UNION {StepsOf[s] : s \in Stages}
          = StepsOf["argocd"] \cup StepsOf["arlon"] \cup StepsOf["capi"]
  <2>1. {StepsOf[s] : s \in Stages}
            = {StepsOf["argocd"], StepsOf["arlon"], StepsOf["capi"]}
    BY Zenon DEF Stages
  <2>2. UNION {StepsOf["argocd"], StepsOf["arlon"], StepsOf["capi"]}
            = StepsOf["argocd"] \cup StepsOf["arlon"] \cup StepsOf["capi"]
    OBVIOUS
  <2>. QED  BY <2>1, <2>2, Zenon
<1>3. Steps = StepsOf["argocd"] \cup StepsOf["arlon"] \cup StepsOf["capi"]
                  \cup {"checkArgo", "checkArlon"} \cup Outcomes
  BY <1>2, Zenon DEF Steps
<1>. QED  BY <1>1, <1>3 DEF Outcomes

\* The plans are sequences of objects, none of them empty.
LEMMA PlanTypes ==
    /\ ArgoPlan \in Seq(Objects) /\ ArgoPlan # <<>>
    /\ ArlonPlan \in Seq(Objects) /\ ArlonPlan # <<>>
    /\ CapiPlan \in Seq(Objects) /\ CapiPlan # <<>>
    /\ <<"capi-infrastructure">> \in Seq(Objects)
    /\ <<"capi-infrastructure">> # <<>>
    /\ <<>> \in Seq(Objects)
BY Spelled DEF ArgoPlan, ArlonPlan, CapiPlan

\* Applying the first object of what is left: the elements are the first one
\* and those of the rest.
LEMMA FirstAndRest ==
    ASSUME NEW seq \in Seq(Objects), seq # <<>>
    PROVE  /\ Head(seq) \in Objects
           /\ Tail(seq) \in Seq(Objects)
           /\ Elems(seq) = {Head(seq)} \cup Elems(Tail(seq))
<1>1. /\ Head(seq) \in Objects /\ Tail(seq) \in Seq(Objects)
      /\ Len(seq) \in Nat \ {0} /\ DOMAIN seq = 1 .. Len(seq)
      /\ Head(seq) = seq[1]
      /\ DOMAIN Tail(seq) = 1 .. (Len(seq) - 1)
      /\ \A i \in 1 .. (Len(seq) - 1) : Tail(seq)[i] = seq[i + 1]
  OBVIOUS
<1>2. \A i \in 1 .. Len(seq) : i = 1 \/ i - 1 \in 1 .. (Len(seq) - 1)
  BY <1>1
<1>3. Elems(seq) \subseteq {Head(seq)} \cup Elems(Tail(seq))
  <2>. SUFFICES ASSUME NEW i \in DOMAIN seq
                PROVE  seq[i] \in {Head(seq)} \cup Elems(Tail(seq))
    BY DEF Elems
  <2>1. CASE i = 1
    BY <2>1, <1>1
  <2>2. CASE i - 1 \in 1 .. (Len(seq) - 1)
    <3>1. Tail(seq)[i - 1] = seq[i]
      BY <2>2, <1>1
    <3>. QED  BY <3>1, <2>2, <1>1 DEF Elems
  <2>. QED  BY <2>1, <2>2, <1>1, <1>2
<1>4. {Head(seq)} \cup Elems(Tail(seq)) \subseteq Elems(seq)
  <2>1. Head(seq) \in Elems(seq)
    BY <1>1 DEF Elems
  <2>2. ASSUME NEW i \in DOMAIN Tail(seq)
        PROVE  Tail(seq)[i] \in Elems(seq)
    <3>1. i + 1 \in DOMAIN seq /\ Tail(seq)[i] = seq[i + 1]
      BY <1>1
    <3>. QED  BY <3>1 DEF Elems
  <2>. QED  BY <2>1, <2>2 DEF Elems
<1>. QED  BY <1>1, <1>3, <1>4

----------------------------------------------------------------------------
(* The parts of the invariant grow with what exists *)

\* What is true of a run stays true when objects are added.
LEMMA RunGrows ==
    ASSUME NEW run, NEW made, NEW more, made \subseteq more
    PROVE  /\ TodoInv(run, made) => TodoInv(run, more)
           /\ PassedInv(run, made) => PassedInv(run, more)
           /\ \A s \in Stages :
                 Completing(run, s, made) => Completing(run, s, more)
<1>1. TodoInv(run, made) => TodoInv(run, more)
  BY DEF TodoInv
<1>2. PassedInv(run, made) => PassedInv(run, more)
  BY DEF PassedInv
<1>3. \A s \in Stages : Completing(run, s, made) => Completing(run, s, more)
  BY DEF Completing
<1>. QED  BY <1>1, <1>2, <1>3

----------------------------------------------------------------------------
(* One run takes a step *)

\* A run of init changes its own record and adds objects.  The invariant holds
\* again if it holds of the new record, and if a stage that the run was about
\* to complete, or whose marker it just put in place, is complete, written off
\* as left half-way, or still in its hands.
LEMMA RunStep ==
    ASSUME IndInv, NEW p \in Procs, NEW r \in Run,
           proc' = [proc EXCEPT ![p] = r],
           r.step \in Applying <=> r.todo # <<>>,
           objs \subseteq objs', objs' \subseteq Objects, running' = running,
           cm' \in ConfigMap, cm.arlon => cm'.arlon,
           rbac' \in ConfigMap, rbac.arlon => rbac'.arlon,
           loaded' = loaded, cut \subseteq cut', cut' \subseteq Stages,
           runs' \in 0 .. MaxRuns, faults' \in 0 .. MaxFaults, edits' = edits,
           TodoInv(r, objs'), PassedInv(r, objs'),
           AccessInv(r, objs', cm'.arlon, rbac'.arlon),
           \A s \in Stages :
               /\ Marker[s] \in objs'
               /\ Completing(proc[p], s, objs) \/ Marker[s] \notin objs
               => \/ Wanted[s] \subseteq objs'
                  \/ s \in cut'
                  \/ Completing(r, s, objs'),
           ControllersHaveAccess'
    PROVE  IndInv'
<1>1. TypeOK'
  <2>1. proc' \in [Procs -> Run]
    BY DEF IndInv, TypeOK
  <2>2. \A q \in Procs : proc'[q].step \in Applying <=> proc'[q].todo # <<>>
    BY DEF IndInv, TypeOK
  <2>3. running' \subseteq Deployments \cap objs'
    BY DEF IndInv, TypeOK
  <2>4. loaded' \in BOOLEAN /\ edits' \in 0 .. MaxEdits
    BY Zenon DEF IndInv, TypeOK
  <2>. QED  BY <2>1, <2>2, <2>3, <2>4, Zenon DEF TypeOK
<1>2. ASSUME NEW q \in Procs
      PROVE  /\ TodoInv(proc'[q], objs')
             /\ PassedInv(proc'[q], objs')
             /\ AccessInv(proc'[q], objs', cm'.arlon, rbac'.arlon)
  <2>1. proc \in [Procs -> Run]
    BY DEF IndInv, TypeOK
  <2>2. CASE q = p
    <3>1. proc'[q] = r
      BY <2>1, <2>2
    <3>. QED  BY <3>1, Zenon
  <2>3. CASE q # p
    <3>1. proc'[q] = proc[q]
      BY <2>1, <2>3
    <3>2. /\ TodoInv(proc[q], objs) /\ PassedInv(proc[q], objs)
          /\ AccessInv(proc[q], objs, cm.arlon, rbac.arlon)
      BY Zenon DEF IndInv
    <3>3. /\ cm.arlon \in BOOLEAN /\ cm'.arlon \in BOOLEAN
          /\ rbac.arlon \in BOOLEAN /\ rbac'.arlon \in BOOLEAN
      BY DEF IndInv, TypeOK, ConfigMap
    <3>4. TodoInv(proc[q], objs') /\ PassedInv(proc[q], objs')
      BY <3>2, RunGrows, Zenon
    <3>5. AccessInv(proc[q], objs', cm'.arlon, rbac'.arlon)
      BY <3>2, <3>3, Zenon DEF AccessInv
    <3>. QED  BY <3>1, <3>4, <3>5, Zenon
  <2>. QED  BY <2>2, <2>3
<1>3. StageInv(proc', objs', cut')
  <2>. SUFFICES ASSUME NEW s \in Stages, Marker[s] \in objs',
                       ~(Wanted[s] \subseteq objs'), s \notin cut'
                PROVE  \E q \in Procs : Completing(proc'[q], s, objs')
    BY Zenon DEF StageInv
  <2>1. proc'[p] = r
    BY DEF IndInv, TypeOK
  <2>2. CASE Completing(proc[p], s, objs) \/ Marker[s] \notin objs
    BY <2>1, <2>2, Zenon
  <2>3. CASE ~Completing(proc[p], s, objs) /\ Marker[s] \in objs
    <3>1. PICK q \in Procs : Completing(proc[q], s, objs)
      <4>1. ~(Wanted[s] \subseteq objs) /\ s \notin cut
        OBVIOUS
      <4>2. StageInv(proc, objs, cut)
        BY Zenon DEF IndInv
      <4>. QED  BY <4>1, <4>2, <2>3, Zenon DEF StageInv
    <3>2. q # p
      BY <3>1, <2>3
    <3>3. proc'[q] = proc[q]
      BY <3>2 DEF IndInv, TypeOK
    <3>4. Completing(proc[q], s, objs')
      BY <3>1, RunGrows, Zenon
    <3>. QED  BY <3>3, <3>4, Zenon
  <2>. QED  BY <2>2, <2>3
<1>. QED  BY <1>1, <1>2, <1>3, Zenon DEF IndInv

\* A run that is not at a step that applies objects, or waits for them, has no
\* claims on what exists.
LEMMA TodoIdle ==
    ASSUME NEW run, NEW made,
           run.step \notin Applying \cup {"waitArgo", "waitArlon"}
    PROVE  TodoInv(run, made)
BY Spelled DEF TodoInv, Applying, Stages

\* A run that completes a stage is within it.
LEMMA CompletingIsWithin ==
    ASSUME NEW p \in Procs, NEW s \in Stages, NEW made,
           Completing(proc[p], s, made)
    PROVE  Within(p, s)
BY Spelled, SpelledSteps DEF Completing, Within, Stages

\* The same for a step that adds nothing to what exists.
LEMMA QuietStep ==
    ASSUME IndInv, NEW p \in Procs, NEW r \in Run,
           proc' = [proc EXCEPT ![p] = r],
           r.step \in Applying <=> r.todo # <<>>,
           objs' = objs, running' = running,
           cm' \in ConfigMap, cm.arlon => cm'.arlon,
           rbac' \in ConfigMap, rbac.arlon => rbac'.arlon,
           loaded' = loaded, cut' = cut, edits' = edits,
           runs' \in 0 .. MaxRuns, faults' \in 0 .. MaxFaults,
           TodoInv(r, objs), PassedInv(r, objs),
           AccessInv(r, objs, cm'.arlon, rbac'.arlon),
           \A s \in Stages :
               Completing(proc[p], s, objs)
               => Wanted[s] \subseteq objs \/ Completing(r, s, objs)
    PROVE  IndInv'
<1>1. objs \subseteq objs' /\ objs' \subseteq Objects
      /\ cut \subseteq cut' /\ cut' \subseteq Stages
  BY DEF IndInv, TypeOK
<1>2. TodoInv(r, objs') /\ PassedInv(r, objs')
      /\ AccessInv(r, objs', cm'.arlon, rbac'.arlon)
  BY Zenon
<1>3. ControllersHaveAccess'
  BY DEF IndInv, ControllersHaveAccess
<1>4. \A s \in Stages :
          /\ Marker[s] \in objs'
          /\ Completing(proc[p], s, objs) \/ Marker[s] \notin objs
          => \/ Wanted[s] \subseteq objs'
             \/ s \in cut'
             \/ Completing(r, s, objs')
  BY Zenon
<1>. QED  BY <1>1, <1>2, <1>3, <1>4, RunStep, Zenon

\* A run that fails writes off the stage it leaves half-way.
LEMMA FailKeeps ==
    ASSUME IndInv, NEW p \in Procs, Fail(p, objs'),
           objs \subseteq objs', objs' \subseteq Objects, running' = running,
           cm' \in ConfigMap, cm.arlon => cm'.arlon,
           rbac' \in ConfigMap, rbac.arlon => rbac'.arlon,
           loaded' = loaded, runs' = runs, edits' = edits,
           faults' \in 0 .. MaxFaults,
           \A s \in Stages : Marker[s] \in objs' \ objs => Within(p, s),
           ControllersHaveAccess'
    PROVE  IndInv'
<1>. DEFINE r == [proc[p] EXCEPT !.step = "failed", !.todo = <<>>]
<1>1. proc[p] \in Run /\ "failed" \in Steps
  BY SpelledSteps DEF IndInv, TypeOK
<1>2. r \in Run /\ r.step = "failed" /\ r.todo = <<>>
  BY <1>1, PlanTypes DEF Run
<1>3. proc' = [proc EXCEPT ![p] = r]
  BY DEF Fail, GotoApply
<1>. HIDE DEF r
<1>4. r.step \in Applying <=> r.todo # <<>>
  BY <1>2 DEF Applying
<1>5. TodoInv(r, objs')
  BY <1>2, TodoIdle DEF Applying
<1>6. PassedInv(r, objs')
  BY <1>2, SpelledSteps DEF PassedInv, Outcomes
<1>7. AccessInv(r, objs', cm'.arlon, rbac'.arlon)
  BY <1>2 DEF AccessInv
<1>8. cut \subseteq cut' /\ cut' \subseteq Stages
  BY DEF Fail, IndInv, TypeOK
<1>9. \A s \in Stages :
          /\ Marker[s] \in objs'
          /\ Completing(proc[p], s, objs) \/ Marker[s] \notin objs
          => \/ Wanted[s] \subseteq objs'
             \/ s \in cut'
             \/ Completing(r, s, objs')
  <2>. SUFFICES ASSUME NEW s \in Stages, Marker[s] \in objs',
                       Completing(proc[p], s, objs) \/ Marker[s] \notin objs,
                       ~(Wanted[s] \subseteq objs')
                PROVE  s \in cut'
    BY Zenon
  <2>1. Within(p, s)
    BY CompletingIsWithin
  <2>. QED  BY <2>1 DEF Fail
<1>10. runs' \in 0 .. MaxRuns
  BY Zenon DEF IndInv, TypeOK
<1>. QED  BY <1>2, <1>3, <1>4, <1>5, <1>6, <1>7, <1>8, <1>9, <1>10, RunStep,
             Zenon

\* The same for a run that fails without effect.
LEMMA FailQuietly ==
    ASSUME IndInv, NEW p \in Procs, Fail(p, objs), objs' = objs,
           UNCHANGED <<running, argoVars, runs, faults, edits>>
    PROVE  IndInv'
<1>1. objs \subseteq objs' /\ objs' \subseteq Objects /\ Fail(p, objs')
  BY DEF IndInv, TypeOK
<1>2. /\ running' = running /\ loaded' = loaded /\ runs' = runs
      /\ edits' = edits /\ cm' = cm /\ rbac' = rbac /\ faults' = faults
  BY DEF argoVars
<1>3. cm' \in ConfigMap /\ rbac' \in ConfigMap /\ faults' \in 0 .. MaxFaults
  BY <1>2, Zenon DEF IndInv, TypeOK
<1>4. ControllersHaveAccess'
  BY <1>2 DEF IndInv, ControllersHaveAccess
<1>5. \A s \in Stages : Marker[s] \in objs' \ objs => Within(p, s)
  OBVIOUS
<1>. QED  BY <1>1, <1>2, <1>3, <1>4, <1>5, FailKeeps, Zenon

\* What every step below starts from.
LEMMA RunFacts ==
    ASSUME IndInv, NEW p \in Procs
    PROVE  /\ proc[p] \in Run
           /\ proc[p].step \in Steps /\ proc[p].todo \in Seq(Objects)
           /\ proc[p].declined \in SUBSET Stages
           /\ proc[p].step \in Applying <=> proc[p].todo # <<>>
           /\ TodoInv(proc[p], objs)
           /\ PassedInv(proc[p], objs)
           /\ AccessInv(proc[p], objs, cm.arlon, rbac.arlon)
           /\ cm \in ConfigMap /\ rbac \in ConfigMap
           /\ runs \in 0 .. MaxRuns /\ faults \in 0 .. MaxFaults
<1>1. proc[p] \in Run
  BY DEF IndInv, TypeOK
<1>2. /\ proc[p].step \in Steps /\ proc[p].todo \in Seq(Objects)
      /\ proc[p].declined \in SUBSET Stages
  BY <1>1 DEF Run
<1>3. proc[p].step \in Applying <=> proc[p].todo # <<>>
  BY DEF IndInv, TypeOK
<1>4. /\ TodoInv(proc[p], objs)
      /\ PassedInv(proc[p], objs)
      /\ AccessInv(proc[p], objs, cm.arlon, rbac.arlon)
      /\ cm \in ConfigMap /\ rbac \in ConfigMap
      /\ runs \in 0 .. MaxRuns /\ faults \in 0 .. MaxFaults
  BY Zenon DEF IndInv, TypeOK
<1>. QED  BY <1>1, <1>2, <1>3, <1>4, Zenon

\* A run goes on to a step that applies nothing, and nothing else changes but
\* the config maps.
LEMMA GotoKeeps ==
    ASSUME IndInv, NEW p \in Procs,
           NEW step \in Steps \ (Applying \cup {"waitArgo", "waitArlon"}),
           Goto(p, step), proc[p].step \notin Applying,
           objs' = objs, running' = running, cut' = cut,
           cm' \in ConfigMap, cm.arlon => cm'.arlon,
           rbac' \in ConfigMap, rbac.arlon => rbac'.arlon,
           loaded' = loaded, runs' = runs, edits' = edits,
           faults' \in 0 .. MaxFaults,
           \A run : run.step = step /\ run.declined = proc[p].declined =>
               /\ PassedInv(run, objs)
               /\ AccessInv(run, objs, cm'.arlon, rbac'.arlon),
           proc[p].step \in {"getCms", "updateCm", "updateRbac", "token"} =>
               step \in {"updateCm", "updateRbac", "token", "secret"},
           proc[p].step # "secret"
    PROVE  IndInv'
<1>. DEFINE r == [proc[p] EXCEPT !.step = step]
<1>1. r \in Run /\ r.step = step /\ r.todo = proc[p].todo
      /\ r.declined = proc[p].declined
  BY RunFacts DEF Run
<1>2. proc' = [proc EXCEPT ![p] = r]
  BY DEF Goto
<1>. HIDE DEF r
<1>3. r.step \in Applying <=> r.todo # <<>>
  BY <1>1, RunFacts
<1>4. TodoInv(r, objs)
  BY <1>1, TodoIdle
<1>5. PassedInv(r, objs) /\ AccessInv(r, objs, cm'.arlon, rbac'.arlon)
  BY <1>1, Zenon
<1>6. \A s \in Stages : Completing(proc[p], s, objs) => Completing(r, s, objs)
  BY <1>1, Spelled DEF Completing, Applying, Stages
<1>7. runs' \in 0 .. MaxRuns
  BY Zenon DEF IndInv, TypeOK
<1>. QED  BY <1>1, <1>2, <1>3, <1>4, <1>5, <1>6, <1>7, QuietStep, Zenon

\* With nothing changed but the record of the run.
LEMMA GotoAlone ==
    ASSUME IndInv, NEW p \in Procs,
           NEW step \in Steps \ (Applying \cup {"waitArgo", "waitArlon"}),
           Goto(p, step), proc[p].step \notin Applying,
           UNCHANGED <<objs, running, argoVars, counters>>,
           \A run : run.step = step /\ run.declined = proc[p].declined =>
               /\ PassedInv(run, objs)
               /\ AccessInv(run, objs, cm.arlon, rbac.arlon),
           proc[p].step \in {"getCms", "updateCm", "updateRbac", "token"} =>
               step \in {"updateCm", "updateRbac", "token", "secret"},
           proc[p].step # "secret"
    PROVE  IndInv'
<1>1. /\ objs' = objs /\ running' = running /\ loaded' = loaded /\ cut' = cut
      /\ runs' = runs /\ edits' = edits /\ cm' = cm /\ rbac' = rbac
      /\ faults' = faults
  BY DEF argoVars, counters
<1>2. /\ cm' \in ConfigMap /\ rbac' \in ConfigMap
      /\ faults' \in 0 .. MaxFaults
  BY <1>1, RunFacts, Zenon
<1>. QED  BY <1>1, <1>2, GotoKeeps, Zenon

----------------------------------------------------------------------------
(* Argo CD *)

LEMMA StartKeeps ==
    ASSUME IndInv, NEW p \in Procs, Start(p), BoundsAssumption
    PROVE  IndInv'
<1>. DEFINE r == [proc[p] EXCEPT !.step = "checkArgo", !.declined = {}]
<1>1. r \in Run /\ r.step = "checkArgo" /\ r.todo = proc[p].todo
      /\ r.declined = {}
  <2>1. proc[p] \in Run /\ "checkArgo" \in Steps
    BY RunFacts, SpelledSteps
  <2>. QED  BY <2>1 DEF Run
<1>2. proc' = [proc EXCEPT ![p] = r]
  BY DEF Start
<1>. HIDE DEF r
<1>3. proc[p].step \in {"idle", "ok", "failed", "hung"}
  BY DEF Start, Ended, Outcomes
<1>4. r.step \in Applying <=> r.todo # <<>>
  BY <1>1, <1>3, RunFacts DEF Applying
<1>5. TodoInv(r, objs)
  BY <1>1, TodoIdle DEF Applying
<1>6. PassedInv(r, objs) /\ AccessInv(r, objs, cm.arlon, rbac.arlon)
  BY <1>1, SpelledSteps DEF PassedInv, AccessInv
<1>7. \A s \in Stages : ~Completing(proc[p], s, objs)
  BY <1>3, Spelled DEF Completing, Stages
<1>8. runs' \in 0 .. MaxRuns
  BY RunFacts DEF Start, BoundsAssumption
<1>9. /\ objs' = objs /\ running' = running /\ loaded' = loaded /\ cut' = cut
      /\ edits' = edits /\ cm' = cm /\ rbac' = rbac /\ faults' = faults
  BY DEF Start, argoVars
<1>10. /\ cm' \in ConfigMap /\ rbac' \in ConfigMap
       /\ faults' \in 0 .. MaxFaults
       /\ AccessInv(r, objs, cm'.arlon, rbac'.arlon)
  BY <1>6, <1>9, RunFacts, Zenon
<1>. QED  BY <1>1, <1>2, <1>4, <1>5, <1>6, <1>7, <1>8, <1>9, <1>10, QuietStep,
             Zenon

\* A user declines a stage: the run goes on to the next one.
LEMMA DeclineKeeps ==
    ASSUME IndInv, NEW p \in Procs, NEW stage \in {"argocd", "arlon"},
           NEW next, Decline(p, stage, next),
           \/ stage = "argocd" /\ next = "checkArlon"
              /\ proc[p].step = "checkArgo"
           \/ stage = "arlon" /\ next = "bootstrap"
              /\ proc[p].step = "checkArlon",
           UNCHANGED <<objs, running, argoVars, counters>>
    PROVE  IndInv'
<1>. DEFINE r == [proc[p] EXCEPT !.step = next, !.declined = @ \cup {stage}]
<1>1. r \in Run /\ r.step = next /\ r.todo = proc[p].todo
      /\ r.declined = proc[p].declined \cup {stage}
  <2>1. proc[p] \in Run /\ next \in Steps /\ stage \in Stages
    BY RunFacts, SpelledSteps DEF Stages
  <2>. QED  BY <2>1 DEF Run
<1>2. proc' = [proc EXCEPT ![p] = r]
  BY DEF Decline
<1>. HIDE DEF r
<1>3. r.step \in Applying <=> r.todo # <<>>
  BY <1>1, RunFacts DEF Applying
<1>4. TodoInv(r, objs)
  BY <1>1, TodoIdle DEF Applying
<1>5. PassedInv(r, objs)
  BY <1>1, RunFacts, SpelledSteps DEF PassedInv, Outcomes
<1>6. AccessInv(r, objs, cm.arlon, rbac.arlon)
  BY <1>1 DEF AccessInv
<1>7. \A s \in Stages : ~Completing(proc[p], s, objs)
  BY Spelled DEF Completing, Stages
<1>8. /\ objs' = objs /\ running' = running /\ loaded' = loaded /\ cut' = cut
      /\ edits' = edits /\ cm' = cm /\ rbac' = rbac /\ faults' = faults
      /\ runs' = runs
  BY DEF argoVars, counters
<1>9. /\ cm' \in ConfigMap /\ rbac' \in ConfigMap
      /\ faults' \in 0 .. MaxFaults /\ runs' \in 0 .. MaxRuns
      /\ AccessInv(r, objs, cm'.arlon, rbac'.arlon)
  BY <1>6, <1>8, RunFacts, Zenon
<1>. QED  BY <1>1, <1>2, <1>3, <1>4, <1>5, <1>7, <1>8, <1>9, QuietStep, Zenon

\* A run sets out to apply a plan: the whole of its stage, or what Cluster API
\* lacks.
LEMMA PlanKeeps ==
    ASSUME IndInv, NEW p \in Procs, NEW step \in Applying,
           NEW plan \in Seq(Objects), plan # <<>>, GotoApply(p, step, plan),
           \A run : run.step = step /\ run.todo = plan
                    /\ run.declined = proc[p].declined =>
               /\ TodoInv(run, objs) /\ PassedInv(run, objs)
               /\ AccessInv(run, objs, cm.arlon, rbac.arlon),
           proc[p].step \in {"checkArgo", "init"},
           UNCHANGED <<objs, running, argoVars, counters>>
    PROVE  IndInv'
<1>. DEFINE r == [proc[p] EXCEPT !.step = step, !.todo = plan]
<1>1. r \in Run /\ r.step = step /\ r.todo = plan
      /\ r.declined = proc[p].declined
  <2>1. proc[p] \in Run /\ step \in Steps
    BY RunFacts, SpelledSteps DEF Applying
  <2>. QED  BY <2>1 DEF Run
<1>2. proc' = [proc EXCEPT ![p] = r]
  BY DEF GotoApply
<1>. HIDE DEF r
<1>3. r.step \in Applying <=> r.todo # <<>>
  BY <1>1
<1>4. TodoInv(r, objs) /\ PassedInv(r, objs)
      /\ AccessInv(r, objs, cm.arlon, rbac.arlon)
  BY <1>1, Zenon
<1>5. \A s \in Stages : ~Completing(proc[p], s, objs)
  BY Spelled DEF Completing, Stages
<1>6. /\ objs' = objs /\ running' = running /\ loaded' = loaded /\ cut' = cut
      /\ edits' = edits /\ cm' = cm /\ rbac' = rbac /\ faults' = faults
      /\ runs' = runs
  BY DEF argoVars, counters
<1>7. /\ cm' \in ConfigMap /\ rbac' \in ConfigMap
      /\ faults' \in 0 .. MaxFaults /\ runs' \in 0 .. MaxRuns
      /\ AccessInv(r, objs, cm'.arlon, rbac'.arlon)
  BY <1>4, <1>6, RunFacts, Zenon
<1>. QED  BY <1>1, <1>2, <1>3, <1>4, <1>5, <1>6, <1>7, QuietStep, Zenon

LEMMA CheckArgoKeeps ==
    ASSUME IndInv, NEW p \in Procs, CheckArgo(p)
    PROVE  IndInv'
<1>. proc[p].step = "checkArgo"
     /\ UNCHANGED <<objs, running, argoVars, counters>>
  BY DEF CheckArgo
<1>1. CASE Marker.argocd \in objs /\ Goto(p, "checkArlon")
  <2>1. "checkArlon" \in Steps \ (Applying \cup {"waitArgo", "waitArlon"})
    BY SpelledSteps DEF Applying
  <2>2. \A run : run.step = "checkArlon" =>
            /\ PassedInv(run, objs)
            /\ AccessInv(run, objs, cm.arlon, rbac.arlon)
    BY <1>1, SpelledSteps DEF PassedInv, AccessInv
  <2>. QED  BY <1>1, <2>1, <2>2, GotoAlone DEF Applying
<1>2. CASE GotoApply(p, "applyArgo", ArgoPlan)
  <2>1. \A run : run.step = "applyArgo" /\ run.todo = ArgoPlan =>
            /\ TodoInv(run, objs) /\ PassedInv(run, objs)
            /\ AccessInv(run, objs, cm.arlon, rbac.arlon)
    <3>1. \A run : run.step = "applyArgo" /\ run.todo = ArgoPlan =>
              TodoInv(run, objs)
      BY PlanElems, Spelled DEF TodoInv, Stages
    <3>2. \A run : run.step = "applyArgo" =>
              /\ PassedInv(run, objs)
              /\ AccessInv(run, objs, cm.arlon, rbac.arlon)
      BY SpelledSteps DEF PassedInv, AccessInv
    <3>. QED  BY <3>1, <3>2, Zenon
  <2>2. "applyArgo" \in Applying
    BY DEF Applying
  <2>. QED  BY <1>2, <2>1, <2>2, PlanTypes, PlanKeeps
<1>3. CASE Decline(p, "argocd", "checkArlon")
  BY <1>3, DeclineKeeps
<1>. QED  BY <1>1, <1>2, <1>3 DEF CheckArgo

\* The step that follows the steps that apply a stage.
AfterApply == [argocd |-> "waitArgo", arlon |-> "waitArlon", capi |-> "ok"]

\* One object is applied: it moves from what the run has left to what exists.
LEMMA ApplyKeeps ==
    ASSUME IndInv, NEW p \in Procs, NEW stage \in Stages,
           ApplyObject(p, ApplyStep[stage], AfterApply[stage])
    PROVE  IndInv'
<1>. DEFINE x    == Head(proc[p].todo)
            rest == Tail(proc[p].todo)
            to   == IF rest = <<>> THEN AfterApply[stage] ELSE ApplyStep[stage]
            r    == [proc[p] EXCEPT !.step = to, !.todo = rest]
<1>1. /\ AfterApply["argocd"] = "waitArgo"
      /\ AfterApply["arlon"] = "waitArlon"
      /\ AfterApply["capi"] = "ok"
  BY DEF AfterApply
<1>2. proc[p].step = ApplyStep[stage] /\ ApplyStep[stage] \in Applying
  BY Spelled DEF ApplyObject, Applying, Stages
<1>3. /\ proc[p].todo # <<>> /\ proc[p].todo \in Seq(Objects)
      /\ TodoInv(proc[p], objs) /\ PassedInv(proc[p], objs)
      /\ AccessInv(proc[p], objs, cm.arlon, rbac.arlon)
  BY <1>2, RunFacts
<1>4. /\ x \in Objects /\ rest \in Seq(Objects)
      /\ Elems(proc[p].todo) = {x} \cup Elems(rest)
  BY <1>3, FirstAndRest, Zenon
<1>5. /\ objs' = objs \cup {x}
      /\ proc' = [proc EXCEPT ![p] = r]
      /\ UNCHANGED <<running, argoVars, counters>>
  BY DEF ApplyObject
<1>6. to \in Steps
  BY <1>1, Spelled, SpelledSteps DEF Stages
<1>7. r \in Run /\ r.step = to /\ r.todo = rest
      /\ r.declined = proc[p].declined
  BY <1>4, <1>6, RunFacts DEF Run
<1>8. \/ rest # <<>> /\ to = ApplyStep[stage]
      \/ rest = <<>> /\ to = AfterApply[stage] /\ Elems(rest) = {}
  BY PlanElems
<1>. HIDE DEF x, rest, to, r
<1>9. r.step \in Applying <=> r.todo # <<>>
  BY <1>1, <1>2, <1>7, <1>8 DEF Applying, Stages
<1>10. /\ Elems(proc[p].todo) \subseteq Elems(PlanOf[stage])
       /\ \/ Wanted[stage] \subseteq objs \cup Elems(proc[p].todo)
          \/ stage = "capi" /\ Marker["capi"] \in objs
  BY <1>2, <1>3 DEF TodoInv
<1>11. /\ x \in Elems(PlanOf[stage])
       /\ Elems(rest) \subseteq Elems(PlanOf[stage])
       /\ \/ Wanted[stage] \subseteq objs' \cup Elems(rest)
          \/ stage = "capi" /\ Marker["capi"] \in objs
  BY <1>4, <1>5, <1>10
<1>12. objs \subseteq objs' /\ objs' \subseteq Objects
  BY <1>4, <1>5 DEF IndInv, TypeOK
<1>13. TodoInv(r, objs')
  <2>1. CASE rest # <<>>
    <3>1. \A s \in Stages : r.step = ApplyStep[s] => s = stage
      BY <2>1, <1>7, <1>8, Spelled DEF Stages
    <3>2. r.step \notin {"waitArgo", "waitArlon"}
      BY <2>1, <1>7, <1>8, Spelled DEF Stages
    <3>. QED  BY <3>1, <3>2, <1>7, <1>11, <1>12 DEF TodoInv
  <2>2. CASE rest = <<>>
    <3>1. \A s \in Stages : r.step # ApplyStep[s]
      BY <2>2, <1>1, <1>7, <1>8, Spelled DEF Stages
    <3>2. r.step = "waitArgo" => Wanted["argocd"] \subseteq objs'
      BY <2>2, <1>1, <1>7, <1>8, <1>11 DEF Stages
    <3>3. r.step = "waitArlon" => Wanted["arlon"] \subseteq objs'
      BY <2>2, <1>1, <1>7, <1>8, <1>11 DEF Stages
    <3>. QED  BY <3>1, <3>2, <3>3 DEF TodoInv
  <2>. QED  BY <2>1, <2>2
<1>14. Marker["capi"] \in objs' \/ stage # "capi" \/ rest # <<>>
  BY <1>8, <1>11, <1>12, Spelled
<1>15. Marker["argocd"] \in objs' \/ stage # "argocd" \/ rest # <<>>
  BY <1>8, <1>11, <1>12, Spelled
<1>16. PassedInv(proc[p], objs')
  BY <1>3, <1>12, RunGrows, Zenon
<1>17. PassedInv(r, objs')
  <2>1. CASE rest # <<>>
    BY <2>1, <1>2, <1>7, <1>8, <1>16 DEF PassedInv
  <2>2. CASE rest = <<>> /\ stage = "argocd"
    BY <2>2, <1>1, <1>7, <1>8, <1>15, SpelledSteps DEF PassedInv
  <2>3. CASE rest = <<>> /\ stage = "arlon"
    BY <2>3, <1>1, <1>2, <1>7, <1>8, <1>16, Spelled, SpelledSteps
       DEF PassedInv, Outcomes
  <2>4. CASE rest = <<>> /\ stage = "capi"
    <3>1. /\ "argocd" \in proc[p].declined \/ Marker["argocd"] \in objs'
          /\ "arlon" \in proc[p].declined \/ Marker["arlon"] \in objs'
      BY <2>4, <1>2, <1>16, Spelled, SpelledSteps DEF PassedInv, Outcomes
    <3>2. r.step = "ok" /\ Marker["capi"] \in objs'
      BY <2>4, <1>1, <1>7, <1>8, <1>14
    <3>. QED  BY <3>1, <3>2, <1>7, SpelledSteps DEF PassedInv, Outcomes
  <2>. QED  BY <2>1, <2>2, <2>3, <2>4 DEF Stages
<1>18. cm' = cm /\ rbac' = rbac /\ loaded' = loaded /\ running' = running
       /\ cut' = cut /\ runs' = runs /\ faults' = faults /\ edits' = edits
  BY <1>5 DEF argoVars, counters
<1>19. AccessInv(r, objs', cm.arlon, rbac.arlon)
  BY <1>1, <1>2, <1>3, <1>7, <1>8, <1>12, Spelled DEF AccessInv, Stages
<1>20. \A s \in Stages :
          /\ Marker[s] \in objs'
          /\ Completing(proc[p], s, objs) \/ Marker[s] \notin objs
          => \/ Wanted[s] \subseteq objs'
             \/ s \in cut'
             \/ Completing(r, s, objs')
  <2>. SUFFICES ASSUME NEW s \in Stages, Marker[s] \in objs',
                       Completing(proc[p], s, objs) \/ Marker[s] \notin objs
                PROVE  Wanted[s] \subseteq objs' \/ Completing(r, s, objs')
    BY Zenon
  <2>1. s = stage /\ Wanted[s] \subseteq objs' \cup Elems(rest)
    <3>1. CASE Completing(proc[p], s, objs)
      BY <3>1, <1>2, <1>4, <1>5, Spelled DEF Completing, Stages
    <3>2. CASE Marker[s] \notin objs
      <4>1. x = Marker[s]
        BY <3>2, <1>5
      <4>2. s = stage
        BY <4>1, <1>11, Spelled DEF Stages
      <4>. QED  BY <4>2, <3>2, <1>11
    <3>. QED  BY <3>1, <3>2
  <2>. QED  BY <2>1, <1>7, <1>8 DEF Completing
<1>21. ControllersHaveAccess'
  <2>. SUFFICES ASSUME {"arlon-controller", "arlon-appprof-ctrlr"} \cap objs' # {}
                PROVE  "argocd-creds" \in objs' /\ cm.arlon /\ rbac.arlon
    BY <1>18 DEF ControllersHaveAccess
  <2>1. CASE {"arlon-controller", "arlon-appprof-ctrlr"} \cap objs # {}
    BY <2>1, <1>12 DEF IndInv, ControllersHaveAccess
  <2>2. CASE x \in {"arlon-controller", "arlon-appprof-ctrlr"}
    <3>1. stage = "arlon"
      BY <2>2, <1>11, Spelled DEF Stages
    <3>. QED  BY <3>1, <1>2, <1>3, <1>12, Spelled DEF AccessInv
  <2>. QED  BY <2>1, <2>2, <1>5
<1>22. /\ cm' \in ConfigMap /\ rbac' \in ConfigMap
       /\ faults' \in 0 .. MaxFaults /\ runs' \in 0 .. MaxRuns
       /\ cut' \subseteq Stages
       /\ AccessInv(r, objs', cm'.arlon, rbac'.arlon)
  BY <1>18, <1>19, RunFacts, Zenon DEF IndInv, TypeOK
<1>23. cut \subseteq cut'
  BY <1>18
<1>. QED  BY <1>5, <1>7, <1>9, <1>12, <1>13, <1>17, <1>18, <1>20, <1>21, <1>22,
             <1>23, RunStep, Zenon

LEMMA ApplyStepsKeep ==
    ASSUME IndInv, NEW p \in Procs,
           ApplyArgo(p) \/ ApplyArlon(p) \/ Clusterctl(p)
    PROVE  IndInv'
<1>1. /\ AfterApply["argocd"] = "waitArgo"
      /\ AfterApply["arlon"] = "waitArlon"
      /\ AfterApply["capi"] = "ok"
  BY DEF AfterApply
<1>2. "argocd" \in Stages /\ "arlon" \in Stages /\ "capi" \in Stages
  BY DEF Stages
<1>3. CASE ApplyArgo(p)
  <2>1. ApplyObject(p, ApplyStep["argocd"], AfterApply["argocd"])
    BY <1>3, <1>1, Spelled DEF ApplyArgo
  <2>. QED  BY <2>1, <1>2, ApplyKeeps, Zenon
<1>4. CASE ApplyArlon(p)
  <2>1. ApplyObject(p, ApplyStep["arlon"], AfterApply["arlon"])
    BY <1>4, <1>1, Spelled DEF ApplyArlon
  <2>. QED  BY <2>1, <1>2, ApplyKeeps, Zenon
<1>5. CASE Clusterctl(p)
  <2>1. ApplyObject(p, ApplyStep["capi"], AfterApply["capi"])
    BY <1>5, <1>1, Spelled DEF Clusterctl
  <2>. QED  BY <2>1, <1>2, ApplyKeeps, Zenon
<1>. QED  BY <1>3, <1>4, <1>5

\* Waiting for deployments ends a stage or the run.
LEMMA WaitArgoKeeps ==
    ASSUME IndInv, NEW p \in Procs, WaitArgo(p)
    PROVE  IndInv'
<1>. proc[p].step = "waitArgo" /\ objs' = objs
     /\ UNCHANGED <<running, argoVars, runs, faults, edits>>
  BY Zenon DEF WaitArgo, WaitFor
<1>1. CASE Goto(p, "checkArlon") /\ UNCHANGED cut
  <2>1. "checkArlon" \in Steps \ (Applying \cup {"waitArgo", "waitArlon"})
    BY SpelledSteps DEF Applying
  <2>2. Marker["argocd"] \in objs
    BY RunFacts, Spelled DEF TodoInv
  <2>3. \A run : run.step = "checkArlon" =>
            /\ PassedInv(run, objs)
            /\ AccessInv(run, objs, cm.arlon, rbac.arlon)
    BY <2>2, SpelledSteps DEF PassedInv, AccessInv
  <2>4. UNCHANGED <<objs, running, argoVars, counters>>
    BY <1>1 DEF counters
  <2>. QED  BY <1>1, <2>1, <2>3, <2>4, GotoAlone DEF Applying
<1>2. CASE Fail(p, objs)
  BY <1>2, FailQuietly, Zenon
<1>. QED  BY <1>1, <1>2, Zenon DEF WaitArgo, WaitFor

LEMMA WaitArlonKeeps ==
    ASSUME IndInv, NEW p \in Procs, WaitArlon(p)
    PROVE  IndInv'
<1>. proc[p].step = "waitArlon" /\ objs' = objs
     /\ UNCHANGED <<running, argoVars, runs, faults, edits>>
  BY Zenon DEF WaitArlon, WaitFor
<1>1. CASE Goto(p, "bootstrap") /\ UNCHANGED cut
  <2>1. "bootstrap" \in Steps \ (Applying \cup {"waitArgo", "waitArlon"})
    BY SpelledSteps DEF Applying
  <2>2. Marker["arlon"] \in objs
    BY RunFacts, Spelled DEF TodoInv
  <2>3. "argocd" \in proc[p].declined \/ Marker["argocd"] \in objs
    BY RunFacts, Spelled, SpelledSteps DEF PassedInv, Outcomes
  <2>4. \A run : run.step = "bootstrap" /\ run.declined = proc[p].declined =>
            /\ PassedInv(run, objs)
            /\ AccessInv(run, objs, cm.arlon, rbac.arlon)
    BY <2>2, <2>3, SpelledSteps DEF PassedInv, AccessInv
  <2>5. UNCHANGED <<objs, running, argoVars, counters>>
    BY <1>1 DEF counters
  <2>. QED  BY <1>1, <2>1, <2>4, <2>5, GotoAlone DEF Applying
<1>2. CASE Fail(p, objs)
  BY <1>2, FailQuietly, Zenon
<1>. QED  BY <1>1, <1>2, Zenon DEF WaitArlon, WaitFor

----------------------------------------------------------------------------
(* The controllers *)

LEMMA CheckArlonKeeps ==
    ASSUME IndInv, NEW p \in Procs, CheckArlon(p)
    PROVE  IndInv'
<1>. proc[p].step = "checkArlon"
     /\ UNCHANGED <<objs, running, argoVars, counters>>
  BY DEF CheckArlon
<1>1. "argocd" \in proc[p].declined \/ Marker["argocd"] \in objs
  BY RunFacts, SpelledSteps DEF PassedInv, Outcomes
<1>2. CASE Marker.arlon \in objs /\ Goto(p, "bootstrap")
  <2>1. "bootstrap" \in Steps \ (Applying \cup {"waitArgo", "waitArlon"})
    BY SpelledSteps DEF Applying
  <2>2. \A run : run.step = "bootstrap" /\ run.declined = proc[p].declined =>
            /\ PassedInv(run, objs)
            /\ AccessInv(run, objs, cm.arlon, rbac.arlon)
    BY <1>1, <1>2, SpelledSteps DEF PassedInv, AccessInv
  <2>. QED  BY <1>2, <2>1, <2>2, GotoAlone DEF Applying
<1>3. CASE Goto(p, "forward")
  <2>1. "forward" \in Steps \ (Applying \cup {"waitArgo", "waitArlon"})
    BY SpelledSteps DEF Applying
  <2>2. \A run : run.step = "forward" /\ run.declined = proc[p].declined =>
            /\ PassedInv(run, objs)
            /\ AccessInv(run, objs, cm.arlon, rbac.arlon)
    BY <1>1, SpelledSteps DEF PassedInv, AccessInv
  <2>. QED  BY <1>3, <2>1, <2>2, GotoAlone DEF Applying
<1>4. CASE Decline(p, "arlon", "bootstrap")
  BY <1>4, DeclineKeeps
<1>. QED  BY <1>2, <1>3, <1>4 DEF CheckArlon

LEMMA PortForwardKeeps ==
    ASSUME IndInv, NEW p \in Procs, PortForward(p)
    PROVE  IndInv'
<1>. proc[p].step = "forward" /\ objs' = objs
     /\ UNCHANGED <<running, argoVars, runs, faults, edits>>
  BY Zenon DEF PortForward
<1>1. CASE Goto(p, "login") /\ UNCHANGED cut
  <2>1. "login" \in Steps \ (Applying \cup {"waitArgo", "waitArlon"})
    BY SpelledSteps DEF Applying
  <2>2. "argocd" \in proc[p].declined \/ Marker["argocd"] \in objs
    BY RunFacts, SpelledSteps DEF PassedInv, Outcomes
  <2>3. \A run : run.step = "login" /\ run.declined = proc[p].declined =>
            /\ PassedInv(run, objs)
            /\ AccessInv(run, objs, cm.arlon, rbac.arlon)
    BY <2>2, SpelledSteps DEF PassedInv, AccessInv
  <2>4. UNCHANGED <<objs, running, argoVars, counters>>
    BY <1>1 DEF counters
  <2>. QED  BY <1>1, <2>1, <2>3, <2>4, GotoAlone DEF Applying
<1>2. CASE Fail(p, objs)
  BY <1>2, FailQuietly, Zenon
<1>. QED  BY <1>1, <1>2, Zenon DEF PortForward

LEMMA PortForwardHangsKeeps ==
    ASSUME IndInv, NEW p \in Procs, PortForwardHangs(p), BoundsAssumption
    PROVE  IndInv'
<1>1. /\ proc[p].step = "forward" /\ Goto(p, "hung")
      /\ objs' = objs /\ running' = running /\ cut' = cut /\ loaded' = loaded
      /\ runs' = runs /\ edits' = edits /\ cm' = cm /\ rbac' = rbac
  BY DEF PortForwardHangs, argoVars
<1>2. faults' = faults \/ (faults < MaxFaults /\ faults' = faults + 1)
  BY Zenon DEF PortForwardHangs
<1>3. faults' \in 0 .. MaxFaults
  BY <1>2, RunFacts DEF BoundsAssumption
<1>4. cm' \in ConfigMap /\ rbac' \in ConfigMap
  BY <1>1, RunFacts, Zenon
<1>5. "hung" \in Steps \ (Applying \cup {"waitArgo", "waitArlon"})
  BY SpelledSteps DEF Applying
<1>6. \A run : run.step = "hung" =>
          /\ PassedInv(run, objs)
          /\ AccessInv(run, objs, cm'.arlon, rbac'.arlon)
  BY SpelledSteps DEF PassedInv, AccessInv, Outcomes
<1>7. /\ proc[p].step \notin Applying
      /\ proc[p].step \notin {"getCms", "updateCm", "updateRbac", "token"}
      /\ proc[p].step # "secret"
  BY <1>1 DEF Applying
<1>8. (cm.arlon => cm'.arlon) /\ (rbac.arlon => rbac'.arlon)
  BY <1>1, Zenon
<1>. QED  BY <1>1, <1>3, <1>4, <1>5, <1>6, <1>7, <1>8, GotoKeeps, Zenon

LEMMA LoginKeeps ==
    ASSUME IndInv, NEW p \in Procs, Login(p)
    PROVE  IndInv'
<1>1. proc[p].step = "login" /\ Goto(p, "namespace")
      /\ UNCHANGED <<objs, running, argoVars, counters>>
  BY DEF Login
<1>2. "namespace" \in Steps \ (Applying \cup {"waitArgo", "waitArlon"})
  BY SpelledSteps DEF Applying
<1>3. "argocd" \in proc[p].declined \/ Marker["argocd"] \in objs
  BY <1>1, RunFacts, SpelledSteps DEF PassedInv, Outcomes
<1>4. \A run : run.step = "namespace" /\ run.declined = proc[p].declined =>
          /\ PassedInv(run, objs)
          /\ AccessInv(run, objs, cm.arlon, rbac.arlon)
  BY <1>3, SpelledSteps DEF PassedInv, AccessInv
<1>. QED  BY <1>1, <1>2, <1>4, GotoAlone DEF Applying

\* The marker of the stage comes first; from here on the stage is in the hands
\* of the run.
LEMMA CreateNamespaceKeeps ==
    ASSUME IndInv, NEW p \in Procs, CreateNamespace(p)
    PROVE  IndInv'
<1>. DEFINE r == [proc[p] EXCEPT !.step = "getCms"]
<1>1. /\ proc[p].step = "namespace" /\ proc' = [proc EXCEPT ![p] = r]
      /\ objs' = objs \cup {"arlon"} /\ running' = running /\ cm' = cm
      /\ rbac' = rbac /\ loaded' = loaded /\ cut' = cut /\ runs' = runs
      /\ faults' = faults /\ edits' = edits
  BY DEF CreateNamespace, Goto, argoVars, counters
<1>2. r \in Run /\ r.step = "getCms" /\ r.todo = proc[p].todo
      /\ r.declined = proc[p].declined
  BY RunFacts, SpelledSteps DEF Run
<1>. HIDE DEF r
<1>3. r.step \in Applying <=> r.todo # <<>>
  BY <1>1, <1>2, RunFacts DEF Applying
<1>4. objs \subseteq objs' /\ objs' \subseteq Objects
  BY <1>1, Spelled DEF IndInv, TypeOK
<1>5. TodoInv(r, objs')
  BY <1>2, TodoIdle DEF Applying
<1>6. PassedInv(r, objs')
  <2>1. "argocd" \in proc[p].declined \/ Marker["argocd"] \in objs
    BY <1>1, RunFacts, SpelledSteps DEF PassedInv, Outcomes
  <2>2. Marker["arlon"] \in objs'
    BY <1>1, Spelled
  <2>. QED  BY <2>1, <2>2, <1>2, <1>4, SpelledSteps DEF PassedInv, Outcomes
<1>7. AccessInv(r, objs', cm'.arlon, rbac'.arlon)
  BY <1>2 DEF AccessInv
<1>8. \A s \in Stages :
          /\ Marker[s] \in objs'
          /\ Completing(proc[p], s, objs) \/ Marker[s] \notin objs
          => Completing(r, s, objs')
  <2>. SUFFICES ASSUME NEW s \in Stages, Marker[s] \in objs',
                       Completing(proc[p], s, objs) \/ Marker[s] \notin objs
                PROVE  Completing(r, s, objs')
    BY Zenon
  <2>1. ~Completing(proc[p], s, objs)
    BY <1>1, Spelled DEF Completing, Stages
  <2>2. s = "arlon"
    BY <2>1, <1>1, Spelled DEF Stages
  <2>. QED  BY <2>2, <1>2 DEF Completing
<1>9. ControllersHaveAccess'
  BY <1>1 DEF IndInv, ControllersHaveAccess
<1>10. /\ cm' \in ConfigMap /\ rbac' \in ConfigMap
       /\ faults' \in 0 .. MaxFaults /\ runs' \in 0 .. MaxRuns
       /\ cut' \subseteq Stages /\ (cm.arlon => cm'.arlon)
       /\ (rbac.arlon => rbac'.arlon)
  BY <1>1, RunFacts, Zenon DEF IndInv, TypeOK
<1>11. cut \subseteq cut'
  BY <1>1
<1>. QED  BY <1>1, <1>2, <1>3, <1>4, <1>5, <1>6, <1>7, <1>8, <1>9, <1>10,
             <1>11, RunStep, Zenon

\* The versions of the config maps are read; they have to exist.
LEMMA GetConfigMapsKeeps ==
    ASSUME IndInv, NEW p \in Procs, GetConfigMaps(p)
    PROVE  IndInv'
<1>. proc[p].step = "getCms" /\ objs' = objs
     /\ UNCHANGED <<running, argoVars, runs, faults, edits>>
  BY Zenon DEF GetConfigMaps
<1>1. CASE Fail(p, objs)
  BY <1>1, FailQuietly, Zenon
<1>2. CASE /\ proc' = [proc EXCEPT ![p].step = "updateCm", ![p].cm = cm.rv,
                                  ![p].rbac = rbac.rv]
           /\ UNCHANGED cut
  <2>. DEFINE r == [proc[p] EXCEPT !.step = "updateCm", !.cm = cm.rv,
                                   !.rbac = rbac.rv]
  <2>1. cm.rv \in Nat /\ rbac.rv \in Nat
    BY RunFacts DEF ConfigMap
  <2>2. r \in Run /\ r.step = "updateCm" /\ r.todo = proc[p].todo
        /\ r.declined = proc[p].declined
    <3>1. proc[p] \in Run /\ "updateCm" \in Steps
      BY RunFacts, SpelledSteps
    <3>. QED  BY <2>1, <3>1 DEF Run
  <2>3. proc' = [proc EXCEPT ![p] = r]
    BY <1>2
  <2>. HIDE DEF r
  <2>4. r.step \in Applying <=> r.todo # <<>>
    BY <2>2, RunFacts DEF Applying
  <2>5. TodoInv(r, objs)
    BY <2>2, TodoIdle DEF Applying
  <2>6. PassedInv(r, objs)
    BY <2>2, RunFacts, SpelledSteps DEF PassedInv, Outcomes
  <2>7. AccessInv(r, objs, cm.arlon, rbac.arlon)
    BY <2>2 DEF AccessInv
  <2>8. \A s \in Stages : Completing(proc[p], s, objs) => Completing(r, s, objs)
    BY <2>2, Spelled DEF Completing, Stages
  <2>9. /\ running' = running /\ loaded' = loaded /\ cut' = cut
        /\ edits' = edits /\ cm' = cm /\ rbac' = rbac /\ faults' = faults
        /\ runs' = runs
    BY <1>2 DEF argoVars
  <2>10. /\ cm' \in ConfigMap /\ rbac' \in ConfigMap
         /\ faults' \in 0 .. MaxFaults /\ runs' \in 0 .. MaxRuns
         /\ AccessInv(r, objs, cm'.arlon, rbac'.arlon)
    BY <2>7, <2>9, RunFacts, Zenon
  <2>. QED  BY <2>2, <2>3, <2>4, <2>5, <2>6, <2>8, <2>9, <2>10, QuietStep,
               Zenon
<1>. QED  BY <1>1, <1>2, Zenon DEF GetConfigMaps

LEMMA UpdateCmKeeps ==
    ASSUME IndInv, NEW p \in Procs, UpdateCm(p)
    PROVE  IndInv'
<1>. proc[p].step = "updateCm" /\ objs' = objs
     /\ UNCHANGED <<running, rbac, loaded, runs, faults, edits>>
  BY Zenon DEF UpdateCm
<1>1. CASE Fail(p, objs) /\ UNCHANGED cm
  BY <1>1, FailQuietly, Zenon DEF argoVars
<1>2. CASE /\ cm' = [rv |-> cm.rv + 1, arlon |-> TRUE]
           /\ Goto(p, "updateRbac") /\ UNCHANGED cut
  <2>1. cm' \in ConfigMap /\ cm'.arlon
    BY <1>2, RunFacts DEF ConfigMap
  <2>2. "updateRbac" \in Steps \ (Applying \cup {"waitArgo", "waitArlon"})
    BY SpelledSteps DEF Applying
  <2>3. \A run : run.step = "updateRbac" /\ run.declined = proc[p].declined =>
            /\ PassedInv(run, objs)
            /\ AccessInv(run, objs, cm'.arlon, rbac'.arlon)
    BY <2>1, RunFacts, SpelledSteps DEF PassedInv, AccessInv, Outcomes
  <2>4. /\ running' = running /\ loaded' = loaded /\ cut' = cut
        /\ edits' = edits /\ rbac' = rbac /\ faults' = faults /\ runs' = runs
    BY <1>2
  <2>5. rbac' \in ConfigMap /\ faults' \in 0 .. MaxFaults
        /\ (rbac.arlon => rbac'.arlon)
    BY <2>4, RunFacts, Zenon
  <2>6. proc[p].step \notin Applying /\ proc[p].step # "secret"
    BY DEF Applying
  <2>7. "updateRbac" \in {"updateCm", "updateRbac", "token", "secret"}
    OBVIOUS
  <2>. QED  BY <1>2, <2>1, <2>2, <2>3, <2>4, <2>5, <2>6, <2>7, GotoKeeps, Zenon
<1>. QED  BY <1>1, <1>2, Zenon DEF UpdateCm

LEMMA UpdateRbacKeeps ==
    ASSUME IndInv, NEW p \in Procs, UpdateRbac(p)
    PROVE  IndInv'
<1>. proc[p].step = "updateRbac" /\ objs' = objs
     /\ UNCHANGED <<running, cm, loaded, runs, faults, edits>>
  BY Zenon DEF UpdateRbac
<1>1. CASE Fail(p, objs) /\ UNCHANGED rbac
  BY <1>1, FailQuietly, Zenon DEF argoVars
<1>2. CASE /\ rbac' = [rv |-> rbac.rv + 1, arlon |-> TRUE]
           /\ Goto(p, "token") /\ UNCHANGED cut
  <2>1. rbac' \in ConfigMap /\ rbac'.arlon
    BY <1>2, RunFacts DEF ConfigMap
  <2>2. "token" \in Steps \ (Applying \cup {"waitArgo", "waitArlon"})
    BY SpelledSteps DEF Applying
  <2>3. \A run : run.step = "token" /\ run.declined = proc[p].declined =>
            /\ PassedInv(run, objs)
            /\ AccessInv(run, objs, cm'.arlon, rbac'.arlon)
    BY <2>1, RunFacts, SpelledSteps DEF PassedInv, AccessInv, Outcomes
  <2>4. /\ running' = running /\ loaded' = loaded /\ cut' = cut
        /\ edits' = edits /\ cm' = cm /\ faults' = faults /\ runs' = runs
    BY <1>2
  <2>5. cm' \in ConfigMap /\ faults' \in 0 .. MaxFaults
        /\ (cm.arlon => cm'.arlon)
    BY <2>4, RunFacts, Zenon
  <2>6. proc[p].step \notin Applying /\ proc[p].step # "secret"
    BY DEF Applying
  <2>7. "token" \in {"updateCm", "updateRbac", "token", "secret"}
    OBVIOUS
  <2>. QED  BY <1>2, <2>1, <2>2, <2>3, <2>4, <2>5, <2>6, <2>7, GotoKeeps, Zenon
<1>. QED  BY <1>1, <1>2, Zenon DEF UpdateRbac

LEMMA CreateTokenKeeps ==
    ASSUME IndInv, NEW p \in Procs, CreateToken(p)
    PROVE  IndInv'
<1>. proc[p].step = "token" /\ objs' = objs
     /\ UNCHANGED <<running, argoVars, runs, faults, edits>>
  BY Zenon DEF CreateToken
<1>1. CASE Goto(p, "secret") /\ UNCHANGED cut
  <2>1. "secret" \in Steps \ (Applying \cup {"waitArgo", "waitArlon"})
    BY SpelledSteps DEF Applying
  <2>2. \A run : run.step = "secret" /\ run.declined = proc[p].declined =>
            /\ PassedInv(run, objs)
            /\ AccessInv(run, objs, cm.arlon, rbac.arlon)
    BY RunFacts, SpelledSteps DEF PassedInv, AccessInv, Outcomes
  <2>3. UNCHANGED <<objs, running, argoVars, counters>>
    BY <1>1 DEF counters
  <2>. QED  BY <1>1, <2>1, <2>2, <2>3, GotoAlone DEF Applying
<1>2. CASE Fail(p, objs)
  BY <1>2, FailQuietly, Zenon
<1>. QED  BY <1>1, <1>2, Zenon DEF CreateToken

\* The credentials are there before the controllers are applied.
LEMMA CreateSecretKeeps ==
    ASSUME IndInv, NEW p \in Procs, CreateSecret(p)
    PROVE  IndInv'
<1>. proc[p].step = "secret"
     /\ UNCHANGED <<running, argoVars, runs, faults, edits>>
  BY Zenon DEF CreateSecret
<1>1. CASE Fail(p, objs) /\ UNCHANGED objs
  BY <1>1, FailQuietly, Zenon
<1>2. CASE /\ objs' = objs \cup {"argocd-creds"}
           /\ GotoApply(p, "applyArlon", ArlonPlan) /\ UNCHANGED cut
  <2>. DEFINE r == [proc[p] EXCEPT !.step = "applyArlon", !.todo = ArlonPlan]
  <2>1. /\ proc' = [proc EXCEPT ![p] = r] /\ running' = running /\ cm' = cm
        /\ rbac' = rbac /\ loaded' = loaded /\ cut' = cut /\ runs' = runs
        /\ faults' = faults /\ edits' = edits
    BY <1>2 DEF GotoApply, argoVars
  <2>2. r \in Run /\ r.step = "applyArlon" /\ r.todo = ArlonPlan
        /\ r.declined = proc[p].declined
    <3>1. proc[p] \in Run /\ "applyArlon" \in Steps /\ ArlonPlan \in Seq(Objects)
      BY RunFacts, SpelledSteps, PlanTypes
    <3>. QED  BY <3>1 DEF Run
  <2>. HIDE DEF r
  <2>3. r.step \in Applying <=> r.todo # <<>>
    BY <2>2, PlanTypes DEF Applying
  <2>4. objs \subseteq objs' /\ objs' \subseteq Objects
    BY <1>2, Spelled DEF IndInv, TypeOK
  <2>5. PassedInv(proc[p], objs) /\ AccessInv(proc[p], objs, cm.arlon, rbac.arlon)
    BY RunFacts
  <2>6. Wanted["arlon"] \subseteq objs' \cup Elems(r.todo)
    <3>1. "arlon" \in objs
      BY <2>5, Spelled DEF PassedInv
    <3>. QED  BY <3>1, <1>2, <2>2, <2>4, Spelled, PlanElems
  <2>7. TodoInv(r, objs')
    BY <2>2, <2>6, Spelled, PlanElems DEF TodoInv, Stages
  <2>8. PassedInv(r, objs')
    BY <2>2, <2>4, <2>5, SpelledSteps DEF PassedInv, Outcomes
  <2>9. AccessInv(r, objs', cm'.arlon, rbac'.arlon)
    BY <1>2, <2>1, <2>2, <2>5 DEF AccessInv
  <2>10. \A s \in Stages :
            /\ Marker[s] \in objs'
            /\ Completing(proc[p], s, objs) \/ Marker[s] \notin objs
            => Completing(r, s, objs')
    <3>. SUFFICES ASSUME NEW s \in Stages, Marker[s] \in objs',
                         Completing(proc[p], s, objs) \/ Marker[s] \notin objs
                  PROVE  Completing(r, s, objs')
      BY Zenon
    <3>1. Completing(proc[p], s, objs)
      BY <1>2, Spelled DEF Stages
    <3>2. s = "arlon"
      BY <3>1, Spelled DEF Completing, Stages
    <3>. QED  BY <3>2, <2>2, <2>6, Spelled DEF Completing
  <2>11. ControllersHaveAccess'
    BY <1>2, <2>1 DEF IndInv, ControllersHaveAccess
  <2>12. /\ cm' \in ConfigMap /\ rbac' \in ConfigMap
         /\ faults' \in 0 .. MaxFaults /\ runs' \in 0 .. MaxRuns
         /\ cut' \subseteq Stages /\ (cm.arlon => cm'.arlon)
         /\ (rbac.arlon => rbac'.arlon)
    BY <2>1, RunFacts, Zenon DEF IndInv, TypeOK
  <2>13. cut \subseteq cut'
    BY <2>1
  <2>. QED  BY <2>1, <2>2, <2>3, <2>4, <2>7, <2>8, <2>9, <2>10, <2>11, <2>12,
               <2>13, RunStep, Zenon
<1>. QED  BY <1>1, <1>2, Zenon DEF CreateSecret

----------------------------------------------------------------------------
(* Cluster API, and failures *)

LEMMA BootstrapKeeps ==
    ASSUME IndInv, NEW p \in Procs, Bootstrap(p)
    PROVE  IndInv'
<1>. proc[p].step = "bootstrap" /\ objs' = objs
     /\ UNCHANGED <<running, argoVars, runs, faults, edits>>
  BY Zenon DEF Bootstrap
<1>1. CASE Goto(p, "init") /\ UNCHANGED cut
  <2>1. "init" \in Steps \ (Applying \cup {"waitArgo", "waitArlon"})
    BY SpelledSteps DEF Applying
  <2>2. \A run : run.step = "init" /\ run.declined = proc[p].declined =>
            /\ PassedInv(run, objs)
            /\ AccessInv(run, objs, cm.arlon, rbac.arlon)
    BY RunFacts, SpelledSteps DEF PassedInv, AccessInv, Outcomes
  <2>3. UNCHANGED <<objs, running, argoVars, counters>>
    BY <1>1 DEF counters
  <2>. QED  BY <1>1, <2>1, <2>2, <2>3, GotoAlone DEF Applying
<1>2. CASE Fail(p, objs)
  BY <1>2, FailQuietly, Zenon
<1>. QED  BY <1>1, <1>2, Zenon DEF Bootstrap

\* The plan is the whole of Cluster API unless its core is there.
LEMMA InstallCAPIKeeps ==
    ASSUME IndInv, NEW p \in Procs, InstallCAPI(p)
    PROVE  IndInv'
<1>. DEFINE plan == IF IsFirstRun THEN CapiPlan ELSE <<"capi-infrastructure">>
<1>. proc[p].step = "init" /\ objs' = objs
     /\ UNCHANGED <<running, argoVars, runs, faults, edits>>
  BY Zenon DEF InstallCAPI
<1>1. CASE Fail(p, objs)
  BY <1>1, FailQuietly, Zenon
<1>2. CASE GotoApply(p, "clusterctl", plan) /\ UNCHANGED cut
  <2>1. /\ plan \in Seq(Objects) /\ plan # <<>>
        /\ Elems(plan) \subseteq Elems(PlanOf["capi"])
        /\ \/ Wanted["capi"] \subseteq Elems(plan)
           \/ Marker["capi"] \in objs
    BY PlanTypes, PlanElems, Spelled DEF IsFirstRun
  <2>. HIDE DEF plan
  <2>2. \A run : run.step = "clusterctl" /\ run.todo = plan
                 /\ run.declined = proc[p].declined =>
            /\ TodoInv(run, objs) /\ PassedInv(run, objs)
            /\ AccessInv(run, objs, cm.arlon, rbac.arlon)
    <3>1. \A run : run.step = "clusterctl" /\ run.todo = plan =>
              TodoInv(run, objs)
      BY <2>1, Spelled DEF TodoInv, Stages
    <3>2. \A run : run.step = "clusterctl"
                   /\ run.declined = proc[p].declined =>
              PassedInv(run, objs)
      BY RunFacts, SpelledSteps DEF PassedInv, Outcomes
    <3>3. \A run : run.step = "clusterctl" =>
              AccessInv(run, objs, cm.arlon, rbac.arlon)
      BY DEF AccessInv
    <3>. QED  BY <3>1, <3>2, <3>3, Zenon
  <2>3. "clusterctl" \in Applying
    BY DEF Applying
  <2>4. UNCHANGED <<objs, running, argoVars, counters>>
    BY <1>2 DEF counters
  <2>. QED  BY <1>2, <2>1, <2>2, <2>3, <2>4, PlanKeeps
<1>. QED  BY <1>1, <1>2, Zenon DEF InstallCAPI

\* What a failing call may have added: the first object that was left to
\* apply, the namespace, or the credentials.
LEMMA CallFailsKeeps ==
    ASSUME IndInv, NEW p \in Procs, CallFails(p), BoundsAssumption
    PROVE  IndInv'
<1>. DEFINE step == proc[p].step
            next == CASE step \in Applying -> {Head(proc[p].todo)}
                      [] step = "namespace" -> {"arlon"}
                      [] step = "secret" -> {"argocd-creds"}
                      [] OTHER -> {}
<1>1. /\ Fail(p, objs') /\ (objs' = objs \/ objs' = objs \cup next)
      /\ faults < MaxFaults /\ faults' = faults + 1
      /\ running' = running /\ loaded' = loaded /\ runs' = runs
      /\ edits' = edits
  <2>1. PICK made \in {objs, objs \cup next} : objs' = made /\ Fail(p, made)
    BY DEF CallFails
  <2>2. Fail(p, objs')
    BY <2>1, Zenon
  <2>. QED  BY <2>1, <2>2 DEF CallFails
<1>2. cm' = cm \/ cm' = [rv |-> cm.rv + 1, arlon |-> TRUE]
  BY DEF CallFails
<1>3. rbac' = rbac \/ rbac' = [rv |-> rbac.rv + 1, arlon |-> TRUE]
  BY DEF CallFails
<1>4. cm' \in ConfigMap /\ (cm.arlon => cm'.arlon)
  <2>1. cm \in ConfigMap
    BY RunFacts
  <2>2. CASE cm' = cm
    BY <2>1, <2>2
  <2>3. CASE cm' = [rv |-> cm.rv + 1, arlon |-> TRUE]
    BY <2>1, <2>3 DEF ConfigMap
  <2>. QED  BY <1>2, <2>2, <2>3
<1>5. rbac' \in ConfigMap /\ (rbac.arlon => rbac'.arlon)
  <2>1. rbac \in ConfigMap
    BY RunFacts
  <2>2. CASE rbac' = rbac
    BY <2>1, <2>2
  <2>3. CASE rbac' = [rv |-> rbac.rv + 1, arlon |-> TRUE]
    BY <2>1, <2>3 DEF ConfigMap
  <2>. QED  BY <1>3, <2>2, <2>3
<1>6. faults' \in 0 .. MaxFaults
  BY <1>1, RunFacts DEF BoundsAssumption
<1>7. ASSUME NEW x \in next
      PROVE  \/ \E s \in Stages : step = ApplyStep[s] /\ x \in Elems(PlanOf[s])
             \/ step = "namespace" /\ x = "arlon"
             \/ step = "secret" /\ x = "argocd-creds"
  <2>1. CASE step \in Applying
    <3>1. PICK s \in Stages : step = ApplyStep[s]
      BY <2>1, Spelled DEF Applying, Stages
    <3>2. proc[p].todo # <<>> /\ proc[p].todo \in Seq(Objects)
      BY <2>1, RunFacts
    <3>3. Head(proc[p].todo) \in Elems(proc[p].todo)
      BY <3>2, FirstAndRest
    <3>4. Elems(proc[p].todo) \subseteq Elems(PlanOf[s])
      BY <3>1, RunFacts DEF TodoInv
    <3>. QED  BY <2>1, <3>1, <3>3, <3>4
  <2>2. CASE step \notin Applying
    BY <2>2
  <2>. QED  BY <2>1, <2>2
<1>8. next \subseteq Objects
  BY <1>7, Spelled DEF Stages
<1>9. \A s \in Stages : Marker[s] \in next => Within(p, s)
  <2>. SUFFICES ASSUME NEW s \in Stages, Marker[s] \in next
                PROVE  step \in StepsOf[s]
    BY DEF Within
  <2>1. CASE step = "namespace" /\ Marker[s] = "arlon"
    BY <2>1, Spelled, SpelledSteps DEF Stages
  <2>2. CASE \E t \in Stages : step = ApplyStep[t]
                               /\ Marker[s] \in Elems(PlanOf[t])
    BY <2>2, Spelled, SpelledSteps DEF Stages
  <2>3. CASE step = "secret" /\ Marker[s] = "argocd-creds"
    BY <2>3, Spelled DEF Stages
  <2>. QED  BY <1>7, <2>1, <2>2, <2>3
<1>10. \A x \in next : x \in {"arlon-controller", "arlon-appprof-ctrlr"} =>
           "argocd-creds" \in objs /\ cm.arlon /\ rbac.arlon
  <2>. SUFFICES ASSUME NEW x \in next,
                       x \in {"arlon-controller", "arlon-appprof-ctrlr"}
                PROVE  "argocd-creds" \in objs /\ cm.arlon /\ rbac.arlon
    OBVIOUS
  <2>1. step = "applyArlon"
    BY <1>7, Spelled DEF Stages
  <2>. QED  BY <2>1, RunFacts DEF AccessInv
<1>. HIDE DEF next, step
<1>11. objs \subseteq objs' /\ objs' \subseteq Objects
  BY <1>1, <1>8 DEF IndInv, TypeOK
<1>12. \A s \in Stages : Marker[s] \in objs' \ objs => Within(p, s)
  BY <1>1, <1>9
<1>13. ControllersHaveAccess'
  <2>. SUFFICES ASSUME NEW x \in objs',
                       x \in {"arlon-controller", "arlon-appprof-ctrlr"}
                PROVE  "argocd-creds" \in objs' /\ cm'.arlon /\ rbac'.arlon
    BY DEF ControllersHaveAccess
  <2>1. "argocd-creds" \in objs /\ cm.arlon /\ rbac.arlon
    <3>1. CASE x \in objs
      BY <3>1 DEF IndInv, ControllersHaveAccess
    <3>2. CASE x \in next
      BY <3>2, <1>10
    <3>. QED  BY <3>1, <3>2, <1>1
  <2>. QED  BY <2>1, <1>4, <1>5, <1>11
<1>. QED  BY <1>1, <1>4, <1>5, <1>6, <1>11, <1>12, <1>13, FailKeeps, Zenon

----------------------------------------------------------------------------
(* The management cluster *)

LEMMA AvailableKeeps ==
    ASSUME IndInv, Available
    PROVE  IndInv'
<1>1. /\ objs' = objs /\ proc' = proc /\ cm' = cm /\ rbac' = rbac
      /\ loaded' = loaded /\ cut' = cut /\ runs' = runs /\ faults' = faults
      /\ edits' = edits
  BY DEF Available, argoVars, counters
<1>2. running' \subseteq Deployments \cap objs
  BY DEF Available, IndInv, TypeOK
<1>3. TypeOK'
  BY <1>1, <1>2, Zenon DEF IndInv, TypeOK
<1>. QED  BY <1>1, <1>3, Zenon DEF IndInv, ControllersHaveAccess

LEMMA ServerReloadsKeeps ==
    ASSUME IndInv, ServerReloads
    PROVE  IndInv'
<1>1. /\ objs' = objs /\ proc' = proc /\ cm' = cm /\ rbac' = rbac
      /\ running' = running /\ cut' = cut /\ runs' = runs /\ faults' = faults
      /\ edits' = edits
  BY DEF ServerReloads, counters
<1>2. loaded' \in BOOLEAN
  BY DEF ServerReloads, IndInv, TypeOK, ConfigMap
<1>3. TypeOK'
  BY <1>1, <1>2, Zenon DEF IndInv, TypeOK
<1>. QED  BY <1>1, <1>3, Zenon DEF IndInv, ControllersHaveAccess

\* Other settings change: the entries for arlon stay.
LEMMA OthersEditKeeps ==
    ASSUME IndInv, OthersEdit, BoundsAssumption
    PROVE  IndInv'
<1>1. /\ objs' = objs /\ proc' = proc /\ loaded' = loaded
      /\ running' = running /\ cut' = cut /\ runs' = runs /\ faults' = faults
      /\ edits < MaxEdits /\ edits' = edits + 1
  BY DEF OthersEdit
<1>2. cm \in ConfigMap /\ rbac \in ConfigMap
  BY Zenon DEF IndInv, TypeOK
<1>3. /\ cm' \in ConfigMap /\ cm'.arlon = cm.arlon
      /\ rbac' \in ConfigMap /\ rbac'.arlon = rbac.arlon
  BY <1>2 DEF OthersEdit, ConfigMap
<1>4. edits' \in 0 .. MaxEdits
  <2>1. edits \in 0 .. MaxEdits
    BY Zenon DEF IndInv, TypeOK
  <2>. QED  BY <1>1, <2>1 DEF BoundsAssumption
<1>5. TypeOK'
  BY <1>1, <1>3, <1>4, Zenon DEF IndInv, TypeOK
<1>6. ControllersHaveAccess'
  BY <1>1, <1>3, Zenon DEF IndInv, ControllersHaveAccess
<1>. QED  BY <1>1, <1>3, <1>5, <1>6, Zenon DEF IndInv

----------------------------------------------------------------------------
(* The invariant *)

\* The initial states: nothing is installed, or an Argo CD that works.
LEMMA InitImpliesIndInv ==
    ASSUME Init, BoundsAssumption
    PROVE  IndInv
<1>. DEFINE r == [step |-> "idle", todo |-> <<>>, cm |-> 0, rbac |-> 0,
                  declined |-> {}]
<1>1. /\ \/ objs = {} /\ running = {}
         \/ objs = Elems(ArgoPlan) /\ running = {"argocd-server"}
      /\ cm = [rv |-> 0, arlon |-> FALSE] /\ rbac = [rv |-> 0, arlon |-> FALSE]
      /\ loaded = FALSE /\ cut = {} /\ proc = [p \in Procs |-> r]
      /\ runs = 0 /\ faults = 0 /\ edits = 0
  BY DEF Init
<1>2. r \in Run
  BY SpelledSteps, PlanTypes DEF Run
<1>3. r.step = "idle" /\ r.todo = <<>> /\ r.declined = {}
  OBVIOUS
<1>. HIDE DEF r
<1>4. TypeOK
  <2>1. objs \subseteq Objects
    BY <1>1, PlanElems, Spelled
  <2>2. running \subseteq Deployments \cap objs
    BY <1>1, PlanElems DEF Deployments
  <2>3. cm \in ConfigMap /\ rbac \in ConfigMap
    BY <1>1 DEF ConfigMap
  <2>4. proc \in [Procs -> Run]
    BY <1>1, <1>2
  <2>5. \A p \in Procs : proc[p].step \in Applying <=> proc[p].todo # <<>>
    BY <1>1, <1>3 DEF Applying
  <2>6. runs \in 0 .. MaxRuns /\ faults \in 0 .. MaxFaults
        /\ edits \in 0 .. MaxEdits
    BY <1>1 DEF BoundsAssumption
  <2>7. loaded \in BOOLEAN /\ cut \subseteq Stages
    BY <1>1
  <2>. QED  BY <2>1, <2>2, <2>3, <2>4, <2>5, <2>6, <2>7, Zenon DEF TypeOK
<1>5. ASSUME NEW p \in Procs
      PROVE  /\ TodoInv(proc[p], objs)
             /\ PassedInv(proc[p], objs)
             /\ AccessInv(proc[p], objs, cm.arlon, rbac.arlon)
  <2>1. proc[p].step = "idle"
    BY <1>1, <1>3
  <2>2. TodoInv(proc[p], objs)
    BY <2>1, TodoIdle DEF Applying
  <2>3. PassedInv(proc[p], objs)
    BY <2>1, SpelledSteps DEF PassedInv, Outcomes
  <2>4. AccessInv(proc[p], objs, cm.arlon, rbac.arlon)
    BY <2>1 DEF AccessInv
  <2>. QED  BY <2>2, <2>3, <2>4
<1>6. StageInv(proc, objs, cut)
  <2>1. \A s \in Stages : Marker[s] \in objs => Wanted[s] \subseteq objs
    BY <1>1, PlanElems, Spelled DEF Stages
  <2>. QED  BY <2>1, Zenon DEF StageInv
<1>7. ControllersHaveAccess
  BY <1>1, PlanElems DEF ControllersHaveAccess
<1>. QED  BY <1>4, <1>5, <1>6, <1>7, Zenon DEF IndInv

\* Every step, of any run or of the surroundings, preserves the invariant.
LEMMA StepPreserves ==
    ASSUME IndInv, [Next]_vars, BoundsAssumption
    PROVE  IndInv'
<1>1. CASE UNCHANGED vars
  BY <1>1, Zenon DEF vars, IndInv, TypeOK, ControllersHaveAccess
<1>2. ASSUME NEW p \in Procs, Start(p)
      PROVE  IndInv'
  BY <1>2, StartKeeps
<1>3. ASSUME NEW p \in Procs, CallFails(p)
      PROVE  IndInv'
  BY <1>3, CallFailsKeeps
<1>4. ASSUME NEW p \in Procs, Step(p)
      PROVE  IndInv'
  <2>1. CASE CheckArgo(p)
    BY <2>1, CheckArgoKeeps
  <2>2. CASE ApplyArgo(p) \/ ApplyArlon(p) \/ Clusterctl(p)
    BY <2>2, ApplyStepsKeep
  <2>3. CASE WaitArgo(p)
    BY <2>3, WaitArgoKeeps
  <2>4. CASE CheckArlon(p)
    BY <2>4, CheckArlonKeeps
  <2>5. CASE PortForward(p)
    BY <2>5, PortForwardKeeps
  <2>6. CASE PortForwardHangs(p)
    BY <2>6, PortForwardHangsKeeps
  <2>7. CASE Login(p)
    BY <2>7, LoginKeeps
  <2>8. CASE CreateNamespace(p)
    BY <2>8, CreateNamespaceKeeps
  <2>9. CASE GetConfigMaps(p)
    BY <2>9, GetConfigMapsKeeps
  <2>10. CASE UpdateCm(p)
    BY <2>10, UpdateCmKeeps
  <2>11. CASE UpdateRbac(p)
    BY <2>11, UpdateRbacKeeps
  <2>12. CASE CreateToken(p)
    BY <2>12, CreateTokenKeeps
  <2>13. CASE CreateSecret(p)
    BY <2>13, CreateSecretKeeps
  <2>14. CASE WaitArlon(p)
    BY <2>14, WaitArlonKeeps
  <2>15. CASE Bootstrap(p)
    BY <2>15, BootstrapKeeps
  <2>16. CASE InstallCAPI(p)
    BY <2>16, InstallCAPIKeeps
  <2>. QED  BY <1>4, <2>1, <2>2, <2>3, <2>4, <2>5, <2>6, <2>7, <2>8, <2>9,
               <2>10, <2>11, <2>12, <2>13, <2>14, <2>15, <2>16, Zenon DEF Step
<1>5. CASE Available
  BY <1>5, AvailableKeeps
<1>6. CASE ServerReloads
  BY <1>6, ServerReloadsKeeps
<1>7. CASE OthersEdit
  BY <1>7, OthersEditKeeps
<1>. QED  BY <1>1, <1>2, <1>3, <1>4, <1>5, <1>6, <1>7, Zenon DEF Next

\* The inductive invariant holds of every run of arlon init, however many there
\* are at a time.
THEOREM Invariance == Spec => []IndInv
<1>1. Init => IndInv
  BY InitImpliesIndInv, BoundsAssumption
<1>2. IndInv /\ [Next]_vars => IndInv'
  BY StepPreserves, BoundsAssumption
<1>. QED  BY <1>1, <1>2, PTL DEF Spec

\* The types: in particular, a run of arlon init is at a step that applies
\* objects exactly as long as it has some left.
THEOREM TypeCorrect == Spec => []TypeOK
<1>1. IndInv => TypeOK
  BY Zenon DEF IndInv
<1>. QED  BY <1>1, Invariance, PTL

\* The controllers of arlon are never deployed without credentials for Argo CD
\* and the entries of their account in both of its config maps.
THEOREM ControllersCanLogin == Spec => []ControllersHaveAccess
<1>1. IndInv => ControllersHaveAccess
  BY Zenon DEF IndInv
<1>. QED  BY <1>1, Invariance, PTL

\* arlon init that ends without an error leaves each stage complete unless the
\* user declined it, an earlier run left it half-way, or another run is at it.
THEOREM SuccessIsComplete == Spec => []SuccessMeansInstalled
<1>1. IndInv => SuccessMeansInstalled
  <2>. SUFFICES ASSUME IndInv, NEW p \in Procs, proc[p].step = "ok"
                PROVE  /\ \A s \in Stages \ (proc[p].declined \cup cut) :
                             Complete(s) \/ \E q \in Procs : Within(q, s)
                       /\ "arlon" \notin proc[p].declined => VerifyArlon
                       /\ VerifyCapi
    BY Zenon DEF SuccessMeansInstalled
  <2>1. /\ \A s \in {"argocd", "arlon"} :
              s \in proc[p].declined \/ Marker[s] \in objs
        /\ Marker["capi"] \in objs
    BY RunFacts DEF PassedInv
  <2>2. ASSUME NEW s \in Stages \ (proc[p].declined \cup cut)
        PROVE  Complete(s) \/ \E q \in Procs : Within(q, s)
    <3>1. Marker[s] \in objs
      BY <2>1 DEF Stages
    <3>2. Wanted[s] \subseteq objs
          \/ \E q \in Procs : Completing(proc[q], s, objs)
      BY <3>1 DEF IndInv, StageInv
    <3>. QED  BY <3>2, CompletingIsWithin DEF Complete
  <2>. QED  BY <2>1, <2>2, Spelled DEF VerifyArlon, VerifyCapi
<1>. QED  BY <1>1, Invariance, PTL

=============================================================================
