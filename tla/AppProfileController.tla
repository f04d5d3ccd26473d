------------------------ MODULE AppProfileController ------------------------
(***************************************************************************)
(* The application profiles reconciler (pkg/appprofile/reconcile.go) and   *)
(* the three controllers that call it.  It reads four collections:         *)
(*   - the clusters registered in Argo CD and the cluster apps (the Argo   *)
(*     CD applications that stand for arlon clusters), both live;          *)
(*   - the arlon apps (ApplicationSets) and the AppProfiles, from a cache; *)
(* and brings into line the profiles annotation of the registered          *)
(* clusters, the status of the profiles, and the list of clusters each     *)
(* arlon app is generated for.                                             *)
(*                                                                         *)
(* Every pass covers everything, under one mutex; what differs between the *)
(* controllers is which events lead to a pass.                             *)
(***************************************************************************)
EXTENDS Naturals, FiniteSets

CONSTANTS
    Clusters,       \* names of workload clusters
    Managed,        \* the ones users create cluster apps for
    Servers,        \* API endpoints of workload clusters
    Profiles,       \* names of AppProfiles
    Apps,           \* names of arlon apps
    Existing,       \* kinds of objects users create before the controllers start
    Ops,            \* what happens besides the controllers (subset of AllOps)
    MaxEdits,       \* bound: user operations
    MaxFaults       \* bound: failing calls and controller crashes

Kinds == {"app", "appset", "prof"}    \* kinds of watched objects
AllOps == {"register", "app", "delete app", "profile", "appset", "resync"}

ASSUME ConstantsAssumption ==
    /\ Managed \subseteq Clusters
    /\ "" \notin Servers
    /\ Servers # {}
    /\ Existing \subseteq Kinds
    /\ Ops \subseteq AllOps
    /\ MaxEdits \in Nat
    /\ MaxFaults \in Nat

VARIABLES
    argo,       \* registered clusters: endpoint and profiles annotation
    apps,       \* cluster apps: profiles annotation
    appsets,    \* ApplicationSets
    profs,      \* AppProfiles
    cache,      \* the informers' copies of the last three
    pending,    \* objects with a version the cache does not have yet
    queue,      \* objects in the work queues
    mtx,        \* who holds the mutex
    worker,     \* each controller's worker and its pass
    edits,      \* user operations so far
    faults      \* failures so far

objects == <<argo, apps, appsets, profs>>
vars == <<argo, apps, appsets, profs, cache, pending, queue, mtx, worker,
          edits, faults>>

----------------------------------------------------------------------------
(* Data.  The comma-separated annotation is the set of the names in it.    *)

NoServer == ""
ArgoCluster == [server: Servers \cup {NoServer}, ann: SUBSET Profiles]
Application == [exists: BOOLEAN, ann: SUBSET Profiles]

\* list: exactly one generator, of type List; body: the rest of the spec.
ApplicationSet == [exists: BOOLEAN, list: BOOLEAN, body: BOOLEAN,
                   elems: SUBSET (Clusters \X Servers)]

Health == {"", "healthy", "degraded"}
AppProfile == [exists: BOOLEAN, apps: SUBSET Apps, invalid: SUBSET Apps,
               health: Health]

NoCluster == [server |-> NoServer, ann |-> {}]
NoApp == [exists |-> FALSE, ann |-> {}]
NoAppset == [exists |-> FALSE, list |-> FALSE, body |-> FALSE, elems |-> {}]
NoProf == [exists |-> FALSE, apps |-> {}, invalid |-> {}, health |-> ""]

NewAppset(list) == [NoAppset EXCEPT !.exists = TRUE, !.list = list]
NewProf(names) == [NoProf EXCEPT !.exists = TRUE, !.apps = names]

\* One controller, with one worker, per kind of object.
AppKeys == {"app"} \X Clusters
AppsetKeys == {"appset"} \X Apps
ProfKeys == {"prof"} \X Profiles
Keys == AppKeys \cup AppsetKeys \cup ProfKeys

PCs == {"idle", "lock", "list clusters", "list cluster apps", "list apps",
        "list profiles", "clusters", "profiles", "apps"}

\* A worker: the object it was called for, what its pass has listed, which
\* listed objects have changed since, and what is left of its present loop.
Worker == [pc: PCs, key: Keys \cup {<<>>},
           argo: [Clusters -> ArgoCluster], apps: [Clusters -> Application],
           sets: [Apps -> ApplicationSet], profs: [Profiles -> AppProfile],
           stale: SUBSET Keys, todo: SUBSET (Clusters \cup Apps \cup Profiles)]

Idle == [pc |-> "idle", key |-> <<>>,
         argo |-> [c \in Clusters |-> NoCluster],
         apps |-> [c \in Clusters |-> NoApp],
         sets |-> [a \in Apps |-> NoAppset],
         profs |-> [p \in Profiles |-> NoProf],
         stale |-> {}, todo |-> {}]

Cache == [apps: [Clusters -> BOOLEAN], sets: [Apps -> ApplicationSet],
          profs: [Profiles -> AppProfile]]

----------------------------------------------------------------------------
(* What a pass computes from what it has listed *)

Registered(w) == {c \in Clusters : w.argo[c].server # NoServer}

\* A registered cluster with a cluster app takes the app's annotation; any
\* other keeps its own.
ProfilesOf(w, c) == IF w.apps[c].exists THEN w.apps[c].ann ELSE w.argo[c].ann

ProfileToClusters(w, p) == {c \in Registered(w) : p \in ProfilesOf(w, c)}

ValidAppNames(w) == {a \in Apps : w.sets[a].exists}

AppToClusters(w, a) ==
    UNION {ProfileToClusters(w, p) :
             p \in {q \in Profiles : w.profs[q].exists /\ a \in w.profs[q].apps}}

DirtyClusters(w) ==
    {c \in Registered(w) : w.apps[c].exists /\ w.argo[c].ann # w.apps[c].ann}

AfterStatus(w, p) ==
    LET invalid == w.profs[p].apps \ ValidAppNames(w) IN
    [w.profs[p] EXCEPT !.invalid = invalid,
                       !.health = IF invalid # {} THEN "degraded" ELSE "healthy"]

DirtyProfiles(w) ==
    {p \in Profiles : w.profs[p].exists /\ w.profs[p] # AfterStatus(w, p)}

BeforeClusters(w, a) == {e[1] : e \in w.sets[a].elems}

\* Faulty variant of DirtyApps: clusters are only ever added.
BadDirtyAppsGrow(w) ==
    {a \in ValidAppNames(w) :
        w.sets[a].list /\ ~ AppToClusters(w, a) \subseteq BeforeClusters(w, a)}

\* An app whose generators are not a single list is left alone.
DirtyApps(w) ==
    {a \in ValidAppNames(w) :
        w.sets[a].list /\ BeforeClusters(w, a) # AppToClusters(w, a)}

\* Faulty variant of NewElems: the endpoint's lookup finds nothing.
BadNewElemsBlank(w, a) == {<<c, NoServer>> : c \in AppToClusters(w, a)}

NewElems(w, a) == {<<c, w.argo[c].server>> : c \in AppToClusters(w, a)}

----------------------------------------------------------------------------
(* The API server and the informers *)

\* An object has a new version: its event is on the way, and a copy listed
\* before can no longer be written back.
Changed(o) ==
    /\ pending' = pending \cup {o}
    /\ worker' = [k \in Kinds |->
                    IF worker[k].pc = "idle" THEN worker[k]
                    ELSE [worker[k] EXCEPT !.stale = @ \cup {o}]]

Deliver(o) ==
    /\ o \in pending
    /\ pending' = pending \ {o}
    /\ queue' = queue \cup {o}
    /\ cache' = [cache EXCEPT
                   !.apps = [c \in Clusters |-> IF o = <<"app", c>>
                               THEN apps[c].exists ELSE @[c]],
                   !.sets = [a \in Apps |-> IF o = <<"appset", a>>
                               THEN appsets[a] ELSE @[a]],
                   !.profs = [p \in Profiles |-> IF o = <<"prof", p>>
                               THEN profs[p] ELSE @[p]]]
    /\ UNCHANGED <<objects, mtx, worker, edits, faults>>

CachedKeys ==
    {<<"app", c>> : c \in {d \in Clusters : cache.apps[d]}}
      \cup {<<"appset", a>> : a \in {b \in Apps : cache.sets[b].exists}}
      \cup {<<"prof", p>> : p \in {q \in Profiles : cache.profs[q].exists}}

\* Nothing is on its way to the controllers and no pass is running.
Quiet == pending = {} /\ queue = {} /\ \A k \in Kinds : worker[k] = Idle

\* The manager's periodic resync queues every cached object.  Its period of
\* ten hours leaves time for everything queued before to be handled.
Resync ==
    /\ "resync" \in Ops
    /\ Quiet
    /\ queue' = CachedKeys
    /\ UNCHANGED <<objects, cache, pending, mtx, worker, edits, faults>>

----------------------------------------------------------------------------
(* The controllers *)

Ok == faults' = faults
Fault == faults < MaxFaults /\ faults' = faults + 1

\* Events of deleted cluster apps lead to no pass; all others do.
Triggers(o) == o \in AppKeys => cache.apps[o[2]]

\* A worker takes an object from its queue and looks it up in the cache.
Dequeue(o) ==
    /\ o \in queue
    /\ worker[o[1]].pc = "idle"
    /\ \/ Ok /\ queue' = queue \ {o}
       \/ Fault /\ queue' = queue
    /\ worker' = IF queue' # queue /\ Triggers(o)
                 THEN [worker EXCEPT ![o[1]] = [Idle EXCEPT !.pc = "lock",
                                                            !.key = o]]
                 ELSE worker
    /\ UNCHANGED <<objects, cache, pending, mtx, edits>>

Lock(k) ==
    /\ worker[k].pc = "lock"
    /\ mtx = ""
    /\ mtx' = k
    /\ worker' = [worker EXCEPT ![k].pc = "list clusters"]
    /\ UNCHANGED <<objects, cache, pending, queue, edits, faults>>

\* Faulty variant of Abort: the error is swallowed, nothing is queued again.
BadAbortForgets(k) ==
    /\ worker' = [worker EXCEPT ![k] = Idle]
    /\ mtx' = ""
    /\ UNCHANGED queue

\* An error ends the pass; the object is queued again after a back-off.
Abort(k) ==
    /\ worker' = [worker EXCEPT ![k] = Idle]
    /\ mtx' = ""
    /\ queue' = queue \cup {worker[k].key}

\* A call that lists a collection, w being the worker with the result.
Listing(k, from, w) ==
    /\ worker[k].pc = from
    /\ \/ Ok /\ worker' = [worker EXCEPT ![k] = w] /\ UNCHANGED <<queue, mtx>>
       \/ Fault /\ Abort(k)
    /\ UNCHANGED <<objects, cache, pending, edits>>

ListArgoClusters(k) ==
    Listing(k, "list clusters",
            [worker[k] EXCEPT !.pc = "list cluster apps", !.argo = argo])

ListClusterApps(k) ==
    Listing(k, "list cluster apps",
            [worker[k] EXCEPT !.pc = "list apps", !.apps = apps])

ListApps(k) ==
    Listing(k, "list apps",
            [worker[k] EXCEPT !.pc = "list profiles", !.sets = cache.sets,
               !.stale = (@ \ AppsetKeys) \cup (pending \cap AppsetKeys)])

ListProfiles(k) ==
    LET w == [worker[k] EXCEPT !.pc = "clusters", !.profs = cache.profs,
                !.stale = (@ \ ProfKeys) \cup (pending \cap ProfKeys)]
    IN  Listing(k, "list profiles", [w EXCEPT !.todo = DirtyClusters(w)])

\* Argo CD replaces the annotations of the cluster with that endpoint.
UpdateArgoCluster(k, c) ==
    /\ worker[k].pc = "clusters"
    /\ c \in worker[k].todo
    /\ \/ /\ Ok
          /\ argo[c].server = worker[k].argo[c].server
          /\ argo' = [argo EXCEPT ![c].ann = worker[k].apps[c].ann]
          /\ worker' = [worker EXCEPT ![k].todo = @ \ {c}]
          /\ UNCHANGED <<queue, mtx>>
       \/ /\ Ok
          /\ argo[c].server # worker[k].argo[c].server
          /\ Abort(k)
          /\ UNCHANGED argo
       \/ /\ Fault
          /\ Abort(k)
          /\ argo' \in {argo} \cup
                {[argo EXCEPT ![c].ann = worker[k].apps[c].ann] :
                    s \in {argo[c].server} \cap {worker[k].argo[c].server}}
    /\ UNCHANGED <<apps, appsets, profs, cache, pending, edits>>

\* The API server refuses to replace an object newer than the copy.
Fresh(k, o) == o \notin worker[k].stale

\* The write of an object of the loop's collection, followed by its event.
Writes(k, x, o) ==
    /\ pending' = pending \cup {o}
    /\ worker' = [worker EXCEPT ![k].todo = @ \ {x}]
    /\ UNCHANGED <<queue, mtx>>

UpdateProfileStatus(k, p) ==
    /\ worker[k].pc = "profiles"
    /\ p \in worker[k].todo
    /\ \/ /\ Ok
          /\ Fresh(k, <<"prof", p>>)
          /\ profs' = [profs EXCEPT ![p] = AfterStatus(worker[k], p)]
          /\ Writes(k, p, <<"prof", p>>)
       \/ /\ Ok
          /\ ~Fresh(k, <<"prof", p>>)
          /\ Abort(k)
          /\ UNCHANGED <<profs, pending>>
       \/ /\ Fault
          /\ Abort(k)
          /\ \/ UNCHANGED <<profs, pending>>
             \/ /\ Fresh(k, <<"prof", p>>)
                /\ profs' = [profs EXCEPT ![p] = AfterStatus(worker[k], p)]
                /\ pending' = pending \cup {<<"prof", p>>}
    /\ UNCHANGED <<argo, apps, appsets, cache, edits>>

\* Faulty variant of UpdateApp: the copy is written without its
\* resourceVersion, over whatever is there.
BadUpdateAppForces(k, a) ==
    /\ worker[k].pc = "apps"
    /\ a \in worker[k].todo
    /\ Ok
    /\ appsets' = [appsets EXCEPT
          ![a] = [worker[k].sets[a] EXCEPT !.elems = NewElems(worker[k], a)]]
    /\ Writes(k, a, <<"appset", a>>)
    /\ UNCHANGED <<argo, apps, profs, cache, edits>>

UpdateApp(k, a) ==
    LET new == [worker[k].sets[a] EXCEPT !.elems = NewElems(worker[k], a)] IN
    /\ worker[k].pc = "apps"
    /\ a \in worker[k].todo
    /\ \/ /\ Ok
          /\ Fresh(k, <<"appset", a>>)
          /\ appsets' = [appsets EXCEPT ![a] = new]
          /\ Writes(k, a, <<"appset", a>>)
       \/ /\ Ok
          /\ ~Fresh(k, <<"appset", a>>)
          /\ Abort(k)
          /\ UNCHANGED <<appsets, pending>>
       \/ /\ Fault
          /\ Abort(k)
          /\ \/ UNCHANGED <<appsets, pending>>
             \/ /\ Fresh(k, <<"appset", a>>)
                /\ appsets' = [appsets EXCEPT ![a] = new]
                /\ pending' = pending \cup {<<"appset", a>>}
    /\ UNCHANGED <<argo, apps, profs, cache, edits>>

\* The end of a loop: on to the next, or out of the pass.
LoopEnds(k) ==
    /\ worker[k].todo = {}
    /\ \/ /\ worker[k].pc = "clusters"
          /\ worker' = [worker EXCEPT ![k].pc = "profiles",
                                      ![k].todo = DirtyProfiles(worker[k])]
          /\ UNCHANGED mtx
       \/ /\ worker[k].pc = "profiles"
          /\ worker' = [worker EXCEPT ![k].pc = "apps",
                                      ![k].todo = DirtyApps(worker[k])]
          /\ UNCHANGED mtx
       \/ /\ worker[k].pc = "apps"
          /\ worker' = [worker EXCEPT ![k] = Idle]
          /\ mtx' = ""
    /\ UNCHANGED <<objects, cache, pending, queue, edits, faults>>

ExistingKeys ==
    {<<"app", c>> : c \in {d \in Clusters : apps[d].exists}}
      \cup {<<"appset", a>> : a \in {b \in Apps : appsets[b].exists}}
      \cup {<<"prof", p>> : p \in {q \in Profiles : profs[q].exists}}

\* The process dies and starts again: the informers list everything that
\* exists, which queues it.
Crash ==
    /\ Fault
    /\ cache' = [apps |-> [c \in Clusters |-> apps[c].exists],
                 sets |-> appsets, profs |-> profs]
    /\ queue' = ExistingKeys
    /\ pending' = {}
    /\ mtx' = ""
    /\ worker' = [k \in Kinds |-> Idle]
    /\ UNCHANGED <<objects, edits>>

----------------------------------------------------------------------------
(* Users *)

Edit(op) ==
    /\ op \in Ops
    /\ edits < MaxEdits
    /\ edits' = edits + 1
    /\ UNCHANGED <<cache, queue, mtx, faults>>

\* Registering, unregistering and annotating a cluster in Argo CD produce
\* no event the controllers watch.
Register(c, s) ==
    /\ Edit("register")
    /\ argo[c].server = NoServer
    /\ argo' = [argo EXCEPT ![c] = [server |-> s, ann |-> {}]]
    /\ UNCHANGED <<apps, appsets, profs, pending, worker>>

Unregister(c) ==
    /\ Edit("register")
    /\ argo[c].server # NoServer
    /\ argo' = [argo EXCEPT ![c] = NoCluster]
    /\ UNCHANGED <<apps, appsets, profs, pending, worker>>

AnnotateArgoCluster(c, ann) ==
    /\ Edit("register")
    /\ c \notin Managed
    /\ argo[c].server # NoServer
    /\ argo' = [argo EXCEPT ![c].ann = ann]
    /\ UNCHANGED <<apps, appsets, profs, pending, worker>>

\* The cluster app is created, with the annotation of its Cluster resource.
CreateClusterApp(c, ann) ==
    /\ Edit("app")
    /\ c \in Managed
    /\ ~apps[c].exists
    /\ apps' = [apps EXCEPT ![c] = [exists |-> TRUE, ann |-> ann]]
    /\ Changed(<<"app", c>>)
    /\ UNCHANGED <<argo, appsets, profs>>

\* arlon cluster setappprofiles, or the Cluster controller: the annotation of
\* a cluster app that exists is replaced.
SetAppProfiles(c, ann) ==
    /\ Edit("app")
    /\ apps[c].exists
    /\ apps' = [apps EXCEPT ![c].ann = ann]
    /\ Changed(<<"app", c>>)
    /\ UNCHANGED <<argo, appsets, profs>>

DeleteClusterApp(c) ==
    /\ Edit("delete app")
    /\ apps[c].exists
    /\ apps' = [apps EXCEPT ![c] = NoApp]
    /\ Changed(<<"app", c>>)
    /\ UNCHANGED <<argo, appsets, profs>>

\* Create a profile, or edit its appNames.
SetProfile(p, names) ==
    /\ Edit("profile")
    /\ profs' = [profs EXCEPT ![p].exists = TRUE, ![p].apps = names]
    /\ Changed(<<"prof", p>>)
    /\ UNCHANGED <<argo, apps, appsets>>

DeleteProfile(p) ==
    /\ Edit("profile")
    /\ profs[p].exists
    /\ profs' = [profs EXCEPT ![p] = NoProf]
    /\ Changed(<<"prof", p>>)
    /\ UNCHANGED <<argo, apps, appsets>>

CreateApp(a, list) ==
    /\ Edit("appset")
    /\ ~appsets[a].exists
    /\ appsets' = [appsets EXCEPT ![a] = NewAppset(list)]
    /\ Changed(<<"appset", a>>)
    /\ UNCHANGED <<argo, apps, profs>>

EditApp(a) ==
    /\ Edit("appset")
    /\ appsets[a].exists
    /\ appsets' = [appsets EXCEPT ![a].body = ~@]
    /\ Changed(<<"appset", a>>)
    /\ UNCHANGED <<argo, apps, profs>>

DeleteApp(a) ==
    /\ Edit("appset")
    /\ appsets[a].exists
    /\ appsets' = [appsets EXCEPT ![a] = NoAppset]
    /\ Changed(<<"appset", a>>)
    /\ UNCHANGED <<argo, apps, profs>>

----------------------------------------------------------------------------
(* Specification *)

\* The controllers start in a management cluster where users may have
\* created objects already; the informers' first lists queue them.
Init ==
    /\ argo \in [Clusters -> ArgoCluster]
    /\ \A c \in Clusters :
         (argo[c].server = NoServer \/ c \in Managed) => argo[c].ann = {}
    /\ apps \in [Clusters -> {NoApp} \cup [exists: {TRUE}, ann: SUBSET Profiles]]
    /\ appsets \in [Apps -> {NoAppset, NewAppset(TRUE)}]
    /\ profs \in [Profiles -> {NoProf} \cup {NewProf(names) : names \in SUBSET Apps}]
    /\ \A c \in Clusters : "app" \notin Existing \/ c \notin Managed => apps[c] = NoApp
    /\ \A a \in Apps : "appset" \notin Existing => appsets[a] = NoAppset
    /\ \A p \in Profiles : "prof" \notin Existing => profs[p] = NoProf
    /\ cache = [apps |-> [c \in Clusters |-> apps[c].exists], sets |-> appsets,
                profs |-> profs]
    /\ pending = {}
    /\ queue = ExistingKeys
    /\ mtx = ""
    /\ worker = [k \in Kinds |-> Idle]
    /\ edits = 0
    /\ faults = 0

Step(k) ==
    \/ Lock(k)
    \/ ListArgoClusters(k)
    \/ ListClusterApps(k)
    \/ ListApps(k)
    \/ ListProfiles(k)
    \/ \E c \in Clusters : UpdateArgoCluster(k, c)
    \/ \E p \in Profiles : UpdateProfileStatus(k, p)
    \/ \E a \in Apps : UpdateApp(k, a)
    \/ LoopEnds(k)

Users ==
    \/ \E c \in Clusters : \E s \in Servers : Register(c, s)
    \/ \E c \in Clusters : Unregister(c)
    \/ \E c \in Clusters : \E ann \in SUBSET Profiles : AnnotateArgoCluster(c, ann)
    \/ \E c \in Clusters : \E ann \in SUBSET Profiles :
          CreateClusterApp(c, ann) \/ SetAppProfiles(c, ann)
    \/ \E c \in Clusters : DeleteClusterApp(c)
    \/ \E p \in Profiles : \E names \in SUBSET Apps : SetProfile(p, names)
    \/ \E p \in Profiles : DeleteProfile(p)
    \/ \E a \in Apps : \E list \in BOOLEAN : CreateApp(a, list)
    \/ \E a \in Apps : EditApp(a)
    \/ \E a \in Apps : DeleteApp(a)

Next ==
    \/ \E o \in Keys : Deliver(o)
    \/ \E o \in Keys : Dequeue(o)
    \/ \E k \in Kinds : Step(k)
    \/ Resync
    \/ Crash
    \/ Users

Spec == Init /\ [][Next]_vars

\* The informers deliver, the workers run, and a mutex that is released
\* again and again is eventually acquired.
Fairness ==
    /\ \A o \in Keys : WF_vars(Deliver(o)) /\ WF_vars(Dequeue(o))
    /\ \A k \in Kinds : WF_vars(Step(k)) /\ SF_vars(Lock(k))

FairSpec == Spec /\ Fairness

\* Under the periodic resync the cached objects are queued for ever.
ResyncFairSpec == FairSpec /\ WF_vars(Resync)

----------------------------------------------------------------------------
(* Properties *)

\* Every variable has its type.
TypeOK ==
    /\ argo \in [Clusters -> ArgoCluster]
    /\ apps \in [Clusters -> Application]
    /\ appsets \in [Apps -> ApplicationSet]
    /\ profs \in [Profiles -> AppProfile]
    /\ cache \in Cache
    /\ pending \subseteq Keys
    /\ queue \subseteq Keys
    /\ mtx \in Kinds \cup {""}
    /\ worker \in [Kinds -> Worker]
    /\ edits \in 0..MaxEdits
    /\ faults \in 0..MaxFaults

\* The apps a cluster should receive: the union of the apps of every
\* profile its annotation lists.
AppsFor(c) ==
    LET listed == IF apps[c].exists THEN apps[c].ann ELSE argo[c].ann IN
    UNION {profs[p].apps : p \in {q \in listed : profs[q].exists}}

ClustersInSync ==
    \A c \in Clusters :
      argo[c].server # NoServer /\ apps[c].exists => argo[c].ann = apps[c].ann

ProfilesInSync ==
    \A p \in Profiles : profs[p].exists =>
      /\ profs[p].invalid = {a \in profs[p].apps : ~appsets[a].exists}
      /\ profs[p].health = IF \A a \in profs[p].apps : appsets[a].exists
                           THEN "healthy" ELSE "degraded"

AppsInSync ==
    \A a \in Apps : \A c \in Clusters : appsets[a].exists /\ appsets[a].list =>
      ((\E s \in Servers : <<c, s>> \in appsets[a].elems)
         <=> argo[c].server # NoServer /\ a \in AppsFor(c))

InSync == ClustersInSync /\ ProfilesInSync /\ AppsInSync

\* When every event has been handled, the annotations in Argo CD, the status
\* of the profiles and the clusters of every arlon app agree with what the
\* users asked for (ReconcileEverything and the events that lead to it).
QuietMeansInSync == Quiet => InSync

\* A pass never undoes what a user wrote to an ApplicationSet, nor brings a
\* deleted one back (cli.Update of the whole listed copy).
UserEditsKept ==
    [][\A a \in Apps : edits' = edits =>
         /\ appsets'[a].body = appsets[a].body
         /\ appsets'[a].exists = appsets[a].exists]_vars

\* Once the users stop, everything is brought into sync for good.
EventuallyInSync == <>[]InSync

----------------------------------------------------------------------------
(* The inductive invariant behind QuietMeansInSync and UserEditsKept.  The  *)
(* parts about a worker w and its pass have the state as arguments: the     *)
(* clusters registered, ac, the cluster apps, ap, the apps, st, and the     *)
(* profiles, pr.                                                            *)

InPass(w) == w.pc \notin {"idle", "lock"}
LoopPCs == {"clusters", "profiles", "apps"}

\* The pass belongs to the worker that holds the mutex.
MutexInv ==
    /\ \A k \in Kinds : InPass(worker[k]) <=> mtx = k
    /\ \A k \in Kinds : IF worker[k].pc = "idle" THEN worker[k] = Idle
                        ELSE worker[k].key \in Keys

\* The cache has the present version of an object without a pending event.
CacheInv ==
    /\ \A c \in Clusters :
          <<"app", c>> \notin pending => cache.apps[c] = apps[c].exists
    /\ \A a \in Apps : <<"appset", a>> \notin pending => cache.sets[a] = appsets[a]
    /\ \A p \in Profiles : <<"prof", p>> \notin pending => cache.profs[p] = profs[p]

\* A copy that may be written back has what the user last wrote.
CopyInv(w, st) ==
    w.pc \in {"list profiles"} \cup LoopPCs =>
        \A a \in Apps : <<"appset", a>> \notin w.stale =>
            w.sets[a].body = st[a].body /\ w.sets[a].exists = st[a].exists

\* What reaches the controllers are events, and none is of a deleted cluster
\* app: users leave the registered clusters alone and delete no cluster app.
EventsTell == Ops \cap {"register", "delete app"} = {}

\* Every key that is queued, or will be queued again, leads to a pass.
TriggerInv ==
    \A c \in Clusters :
        /\ <<"app", c>> \in pending \/ cache.apps[c] => apps[c].exists
        /\ <<"app", c>> \in queue => cache.apps[c]
        /\ \A k \in Kinds : worker[k].key = <<"app", c>> => cache.apps[c]

\* A pass will follow the present one, if there is any.
Awaiting == pending # {} \/ queue # {} \/ \E k \in Kinds : worker[k].pc = "lock"

\* A pass that no other will follow has listed what there is, and what it has
\* been through is in sync.
PassInv(w, ac, ap, st, pr) ==
    /\ w.pc \in {"list cluster apps", "list apps", "list profiles"} => w.argo = ac
    /\ w.pc \in {"list apps", "list profiles"} \cup LoopPCs => w.apps = ap
    /\ w.pc \in {"list profiles"} \cup LoopPCs => w.sets = st
    /\ w.pc \in LoopPCs =>
          /\ w.profs = pr
          /\ \A c \in Clusters :
                /\ w.argo[c].server = ac[c].server
                /\ ~ap[c].exists => w.argo[c].ann = ac[c].ann
    /\ w.pc = "clusters" =>
          /\ \A c \in Clusters : ac[c].server # NoServer /\ ap[c].exists =>
                ac[c].ann = ap[c].ann \/ c \in w.todo
          /\ \A c \in w.todo : ap[c].exists
    /\ w.pc = "profiles" => w.todo = DirtyProfiles(w)
    /\ w.pc = "apps" => w.todo = DirtyApps(w)

SettledInv ==
    ~Awaiting =>
        /\ (\A k \in Kinds : worker[k].pc = "idle") => InSync
        /\ \A k \in Kinds : InPass(worker[k]) =>
              /\ PassInv(worker[k], argo, apps, appsets, profs)
              /\ worker[k].pc \in {"profiles", "apps"} => ClustersInSync
              /\ worker[k].pc = "apps" => ProfilesInSync

IndInv ==
    /\ TypeOK
    /\ MutexInv
    /\ CacheInv
    /\ \A k \in Kinds : CopyInv(worker[k], appsets)
    /\ EventsTell => TriggerInv /\ SettledInv
=============================================================================
