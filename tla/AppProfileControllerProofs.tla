---------------------- MODULE AppProfileControllerProofs ----------------------
(***************************************************************************)
(* Proofs about AppProfileController: no pass undoes what a user wrote, and *)
(* once everything that the users did has been handled, what they asked     *)
(* for is in place, for any number of objects, edits, failures and crashes. *)
(***************************************************************************)
EXTENDS AppProfileController, TLAPS

----------------------------------------------------------------------------
(* Keys and workers *)

LEMMA KeyFacts ==
    /\ \A c \in Clusters : <<"app", c>> \in AppKeys /\ <<"app", c>> \in Keys
    /\ \A a \in Apps : <<"appset", a>> \in AppsetKeys /\ <<"appset", a>> \in Keys
    /\ \A p \in Profiles : <<"prof", p>> \in ProfKeys /\ <<"prof", p>> \in Keys
    /\ \A c \in Clusters : <<"app", c>> \notin AppsetKeys /\ <<"app", c>> \notin ProfKeys
    /\ \A a \in Apps : <<"appset", a>> \notin AppKeys /\ <<"appset", a>> \notin ProfKeys
    /\ \A p \in Profiles : <<"prof", p>> \notin AppKeys /\ <<"prof", p>> \notin AppsetKeys
    /\ \A o \in Keys : o[1] \in Kinds /\ o # <<>>
BY DEF Keys, AppKeys, AppsetKeys, ProfKeys, Kinds

LEMMA NothingFacts ==
    /\ NoCluster \in ArgoCluster /\ NoApp \in Application
    /\ NoAppset \in ApplicationSet /\ NoProf \in AppProfile
    /\ NoCluster.server = NoServer
    /\ ~NoApp.exists /\ ~NoAppset.exists /\ ~NoProf.exists
    /\ NoServer \notin Servers
BY ConstantsAssumption DEF NoCluster, ArgoCluster, NoApp, Application, NoAppset,
   ApplicationSet, NoProf, AppProfile, Health, NoServer

LEMMA IdleFacts ==
    /\ Idle \in Worker /\ Idle.pc = "idle" /\ Idle.key = <<>>
    /\ ~InPass(Idle)
<1>. DEFINE a == [c \in Clusters |-> NoCluster]
            b == [c \in Clusters |-> NoApp]
            s == [x \in Apps |-> NoAppset]
            q == [p \in Profiles |-> NoProf]
<1>1. /\ a \in [Clusters -> ArgoCluster] /\ b \in [Clusters -> Application]
      /\ s \in [Apps -> ApplicationSet] /\ q \in [Profiles -> AppProfile]
  BY NothingFacts
<1>2. Idle = [pc |-> "idle", key |-> <<>>, argo |-> a, apps |-> b, sets |-> s,
              profs |-> q, stale |-> {}, todo |-> {}]
  BY DEF Idle
<1>. HIDE DEF a, b, s, q
<1>. QED  BY <1>1, <1>2 DEF Worker, PCs, InPass

\* The fields of a worker.
LEMMA WorkerFields ==
    ASSUME NEW w \in Worker
    PROVE  /\ w.pc \in PCs /\ w.key \in Keys \cup {<<>>}
           /\ w.argo \in [Clusters -> ArgoCluster]
           /\ w.apps \in [Clusters -> Application]
           /\ w.sets \in [Apps -> ApplicationSet]
           /\ w.profs \in [Profiles -> AppProfile]
           /\ w.stale \in SUBSET Keys
           /\ w.todo \in SUBSET (Clusters \cup Apps \cup Profiles)
BY DEF Worker

\* What the invariant says of a worker in its pass: it alone holds the mutex.
LEMMA PassFacts ==
    ASSUME IndInv, NEW k \in Kinds, InPass(worker[k])
    PROVE  /\ worker[k] \in Worker /\ worker[k].key \in Keys
           /\ mtx = k /\ mtx # ""
           /\ \A q \in Kinds : q # k => ~InPass(worker[q])
           /\ CopyInv(worker[k], appsets)
<1>1. worker[k] \in Worker
  BY DEF IndInv, TypeOK
<1>2. mtx = k /\ \A q \in Kinds : q # k => ~InPass(worker[q])
  BY Zenon DEF IndInv, MutexInv
<1>3. worker[k].pc # "idle"
  BY DEF InPass
<1>4. worker[k].key \in Keys
  BY <1>3, Zenon DEF IndInv, MutexInv
<1>5. CopyInv(worker[k], appsets)
  BY Zenon DEF IndInv
<1>6. mtx # ""
  BY <1>2 DEF Kinds
<1>. QED  BY <1>1, <1>2, <1>4, <1>5, <1>6

LEMMA FaultsBounded ==
    ASSUME TypeOK, Ok \/ Fault
    PROVE  faults' \in 0..MaxFaults
<1>1. faults \in 0..MaxFaults /\ MaxFaults \in Nat
  BY ConstantsAssumption, Zenon DEF TypeOK
<1>2. faults' = faults \/ (faults < MaxFaults /\ faults' = faults + 1)
  BY DEF Ok, Fault
<1>. QED  BY <1>1, <1>2

\* A pass goes on: k's record becomes r.  What it writes to the API server is
\* pending, and leaves alone what users write.
LEMMA GoesOn ==
    ASSUME IndInv, NEW k \in Kinds, InPass(worker[k]), NEW r \in Worker,
           InPass(r), r.key = worker[k].key,
           worker' = [worker EXCEPT ![k] = r],
           UNCHANGED <<mtx, queue, cache, apps, edits>>,
           faults' \in 0..MaxFaults,
           argo' \in [Clusters -> ArgoCluster],
           appsets' \in [Apps -> ApplicationSet],
           profs' \in [Profiles -> AppProfile],
           pending' \in SUBSET Keys, pending \subseteq pending',
           \A c \in Clusters : <<"app", c>> \in pending' => <<"app", c>> \in pending,
           \A a \in Apps : appsets'[a] # appsets[a] => <<"appset", a>> \in pending',
           \A p \in Profiles : profs'[p] # profs[p] => <<"prof", p>> \in pending',
           \A a \in Apps : /\ appsets'[a].body = appsets[a].body
                           /\ appsets'[a].exists = appsets[a].exists,
           CopyInv(r, appsets),
           EventsTell /\ ~Awaiting /\ pending' = {} =>
               /\ PassInv(r, argo', apps', appsets', profs')
               /\ r.pc \in {"profiles", "apps"} => ClustersInSync'
               /\ r.pc = "apps" => ProfilesInSync'
    PROVE  IndInv'
<1>1. /\ worker \in [Kinds -> Worker] /\ worker[k].pc \notin {"idle", "lock"}
      /\ r.pc \notin {"idle", "lock"} /\ mtx = k
      /\ worker[k].key \in Keys
      /\ \A q \in Kinds : q # k => ~InPass(worker[q])
  BY PassFacts DEF IndInv, TypeOK, InPass
<1>2. /\ worker' \in [Kinds -> Worker] /\ worker'[k] = r
      /\ \A q \in Kinds : q # k => worker'[q] = worker[q]
  BY <1>1
<1>3. TypeOK'
  BY <1>2 DEF IndInv, TypeOK
<1>4. MutexInv'
  <2>. SUFFICES ASSUME NEW q \in Kinds
                PROVE  /\ InPass(worker'[q]) <=> mtx = q
                       /\ IF worker'[q].pc = "idle" THEN worker'[q] = Idle
                          ELSE worker'[q].key \in Keys
    BY DEF MutexInv
  <2>1. CASE q = k
    BY <1>1, <1>2, <2>1
  <2>2. CASE q # k
    BY <1>2, <2>2, Zenon DEF IndInv, MutexInv
  <2>. QED  BY <2>1, <2>2
<1>5. CacheInv'
  BY Zenon DEF IndInv, CacheInv
<1>6. ASSUME NEW q \in Kinds
      PROVE  CopyInv(worker'[q], appsets')
  <2>1. CopyInv(worker'[q], appsets)
    BY <1>2, Zenon DEF IndInv
  <2>. QED  BY <2>1, Zenon DEF CopyInv
<1>7. ASSUME EventsTell
      PROVE  TriggerInv'
  <2>1. TriggerInv
    BY <1>7, Zenon DEF IndInv
  <2>2. \A q \in Kinds : worker'[q].key = worker[q].key
    BY <1>2, Zenon
  <2>. QED  BY <2>1, <2>2, Zenon DEF TriggerInv
<1>8. ASSUME EventsTell
      PROVE  SettledInv'
  <2>. SUFFICES ASSUME ~Awaiting'
                PROVE  /\ ~\A q \in Kinds : worker'[q].pc = "idle"
                       /\ \A q \in Kinds : InPass(worker'[q]) =>
                             /\ PassInv(worker'[q], argo', apps', appsets', profs')
                             /\ worker'[q].pc \in {"profiles", "apps"} =>
                                   ClustersInSync'
                             /\ worker'[q].pc = "apps" => ProfilesInSync'
    BY Zenon DEF SettledInv
  <2>1. pending' = {} /\ queue' = {} /\ \A q \in Kinds : worker'[q].pc # "lock"
    BY Zenon DEF Awaiting
  <2>2. pending = {} /\ queue = {} /\ \A q \in Kinds : worker[q].pc # "lock"
    BY <1>1, <1>2, <2>1
  <2>3. ~Awaiting
    BY <2>2, Zenon DEF Awaiting
  <2>4. \A q \in Kinds : InPass(worker'[q]) => q = k
    BY <1>1, <1>2, Zenon
  <2>. QED  BY <1>1, <1>2, <1>8, <2>1, <2>3, <2>4, Zenon
<1>. QED  BY <1>3, <1>4, <1>5, <1>6, <1>7, <1>8, Zenon DEF IndInv

\* A pass that ends with an error is followed by another for the same object.
LEMMA AbortKeeps ==
    ASSUME IndInv, NEW k \in Kinds, InPass(worker[k]), Abort(k),
           UNCHANGED <<cache, apps, edits>>,
           faults' \in 0..MaxFaults,
           argo' \in [Clusters -> ArgoCluster],
           appsets' \in [Apps -> ApplicationSet],
           profs' \in [Profiles -> AppProfile],
           pending' \in SUBSET Keys, pending \subseteq pending',
           \A c \in Clusters : <<"app", c>> \in pending' => <<"app", c>> \in pending,
           \A a \in Apps : appsets'[a] # appsets[a] => <<"appset", a>> \in pending',
           \A p \in Profiles : profs'[p] # profs[p] => <<"prof", p>> \in pending',
           \A a \in Apps : /\ appsets'[a].body = appsets[a].body
                           /\ appsets'[a].exists = appsets[a].exists
    PROVE  IndInv'
<1>1. /\ worker \in [Kinds -> Worker] /\ mtx = k
      /\ worker[k].key \in Keys
      /\ worker' = [worker EXCEPT ![k] = Idle] /\ mtx' = ""
      /\ queue' = queue \cup {worker[k].key}
      /\ \A q \in Kinds : q # k => ~InPass(worker[q])
      /\ mtx # ""
  BY PassFacts DEF IndInv, TypeOK, Abort
<1>2. /\ worker' \in [Kinds -> Worker] /\ worker'[k] = Idle
      /\ \A q \in Kinds : q # k => worker'[q] = worker[q]
  BY <1>1, IdleFacts
<1>3. TypeOK'
  BY <1>1, <1>2 DEF IndInv, TypeOK
<1>4. MutexInv'
  <2>. SUFFICES ASSUME NEW q \in Kinds
                PROVE  /\ InPass(worker'[q]) <=> "" = q
                       /\ IF worker'[q].pc = "idle" THEN worker'[q] = Idle
                          ELSE worker'[q].key \in Keys
    BY <1>1 DEF MutexInv
  <2>1. q # ""
    BY DEF Kinds
  <2>2. CASE q = k
    BY <1>2, <2>1, <2>2, IdleFacts
  <2>3. CASE q # k
    BY <1>1, <1>2, <2>1, <2>3, Zenon DEF IndInv, MutexInv
  <2>. QED  BY <2>2, <2>3
<1>5. CacheInv'
  BY Zenon DEF IndInv, CacheInv
<1>6. ASSUME NEW q \in Kinds
      PROVE  CopyInv(worker'[q], appsets')
  <2>1. CopyInv(Idle, appsets)
    BY IdleFacts DEF CopyInv, LoopPCs
  <2>2. CopyInv(worker'[q], appsets)
    BY <1>2, <2>1, Zenon DEF IndInv
  <2>. QED  BY <2>2, Zenon DEF CopyInv
<1>7. ASSUME EventsTell
      PROVE  TriggerInv'
  <2>1. TriggerInv
    BY <1>7, Zenon DEF IndInv
  <2>. SUFFICES ASSUME NEW c \in Clusters
                PROVE  /\ <<"app", c>> \in pending' \/ cache'.apps[c] => apps'[c].exists
                       /\ <<"app", c>> \in queue' => cache'.apps[c]
                       /\ \A q \in Kinds :
                             worker'[q].key = <<"app", c>> => cache'.apps[c]
    BY Zenon DEF TriggerInv
  <2>2. <<"app", c>> # <<>>
    BY KeyFacts
  <2>. QED  BY <1>1, <1>2, <2>1, <2>2, IdleFacts, Zenon DEF TriggerInv
<1>8. SettledInv'
  <2>1. Awaiting'
    BY <1>1 DEF Awaiting
  <2>. QED  BY <2>1, Zenon DEF SettledInv
<1>. QED  BY <1>3, <1>4, <1>5, <1>6, <1>7, <1>8, Zenon DEF IndInv

----------------------------------------------------------------------------
(* The steps of a pass *)

\* What IndInv says of the objects.
LEMMA ObjectFacts ==
    ASSUME IndInv
    PROVE  /\ argo \in [Clusters -> ArgoCluster]
           /\ apps \in [Clusters -> Application]
           /\ appsets \in [Apps -> ApplicationSet]
           /\ profs \in [Profiles -> AppProfile]
           /\ cache \in Cache /\ pending \in SUBSET Keys
           /\ queue \in SUBSET Keys /\ worker \in [Kinds -> Worker]
           /\ edits \in 0..MaxEdits
BY DEF IndInv, TypeOK

\* What it says of a pass that no other will follow.
LEMMA LastPassFacts ==
    ASSUME IndInv, EventsTell, ~Awaiting, NEW k \in Kinds, InPass(worker[k])
    PROVE  /\ PassInv(worker[k], argo, apps, appsets, profs)
           /\ worker[k].pc \in {"profiles", "apps"} => ClustersInSync
           /\ worker[k].pc = "apps" => ProfilesInSync
           /\ pending = {}
BY Zenon DEF IndInv, SettledInv, Awaiting

\* Without a pending event the cache has everything as it is.
LEMMA CacheIsCurrent ==
    ASSUME IndInv, pending = {}
    PROVE  cache.sets = appsets /\ cache.profs = profs
<1>1. /\ \A a \in Apps : cache.sets[a] = appsets[a]
      /\ \A p \in Profiles : cache.profs[p] = profs[p]
  BY Zenon DEF IndInv, CacheInv
<1>2. /\ cache.sets \in [Apps -> ApplicationSet]
      /\ cache.profs \in [Profiles -> AppProfile]
  BY ObjectFacts DEF Cache
<1>. QED  BY <1>1, <1>2, ObjectFacts

LEMMA ListingKeeps ==
    ASSUME IndInv, NEW k \in Kinds, NEW from \in PCs \ {"idle", "lock"},
           NEW r, Listing(k, from, r),
           r \in Worker, InPass(r), r.key = worker[k].key,
           CopyInv(r, appsets),
           EventsTell /\ ~Awaiting =>
               /\ PassInv(r, argo, apps, appsets, profs)
               /\ r.pc \notin {"profiles", "apps"}
    PROVE  IndInv'
<1>1. /\ worker[k].pc = from /\ InPass(worker[k])
      /\ UNCHANGED <<argo, apps, appsets, profs, cache, pending, edits>>
      /\ faults' \in 0..MaxFaults
  BY FaultsBounded DEF Listing, objects, InPass, IndInv
<1>2. CASE Ok /\ worker' = [worker EXCEPT ![k] = r] /\ UNCHANGED <<queue, mtx>>
  <2>1. EventsTell /\ ~Awaiting /\ pending' = {} =>
            /\ PassInv(r, argo', apps', appsets', profs')
            /\ r.pc \in {"profiles", "apps"} => ClustersInSync'
            /\ r.pc = "apps" => ProfilesInSync'
    BY <1>1
  <2>. QED  BY <1>1, <1>2, <2>1, ObjectFacts, GoesOn
<1>3. CASE Fault /\ Abort(k)
  BY <1>1, <1>3, ObjectFacts, AbortKeeps
<1>. QED  BY <1>2, <1>3 DEF Listing

LEMMA ListArgoClustersKeeps ==
    ASSUME IndInv, NEW k \in Kinds, ListArgoClusters(k)
    PROVE  IndInv'
<1>. DEFINE r == [worker[k] EXCEPT !.pc = "list cluster apps", !.argo = argo]
            from == "list clusters"
<1>1. Listing(k, from, r) /\ worker[k].pc = from
  BY DEF ListArgoClusters, Listing
<1>2. from \in PCs \ {"idle", "lock"} /\ InPass(worker[k])
  BY <1>1 DEF PCs, InPass
<1>3. /\ r \in Worker /\ r.pc = "list cluster apps" /\ r.argo = argo
      /\ r.key = worker[k].key
  <2>1. /\ worker[k] \in Worker /\ argo \in [Clusters -> ArgoCluster]
        /\ apps \in [Clusters -> Application]
    BY ObjectFacts
  <2>. QED  BY <2>1 DEF Worker, PCs
<1>. HIDE DEF r, from
<1>4. InPass(r) /\ CopyInv(r, appsets)
  BY <1>3 DEF InPass, CopyInv, LoopPCs
<1>5. PassInv(r, argo, apps, appsets, profs)
  BY <1>3 DEF PassInv, LoopPCs
<1>. QED  BY <1>1, <1>2, <1>3, <1>4, <1>5, ListingKeeps

LEMMA ListClusterAppsKeeps ==
    ASSUME IndInv, NEW k \in Kinds, ListClusterApps(k)
    PROVE  IndInv'
<1>. DEFINE r == [worker[k] EXCEPT !.pc = "list apps", !.apps = apps]
            from == "list cluster apps"
<1>1. Listing(k, from, r) /\ worker[k].pc = from
  BY DEF ListClusterApps, Listing
<1>2. from \in PCs \ {"idle", "lock"} /\ InPass(worker[k])
  BY <1>1 DEF PCs, InPass
<1>3. /\ r \in Worker /\ r.pc = "list apps" /\ r.argo = worker[k].argo
      /\ r.apps = apps /\ r.key = worker[k].key
  <2>1. /\ worker[k] \in Worker /\ argo \in [Clusters -> ArgoCluster]
        /\ apps \in [Clusters -> Application]
    BY ObjectFacts
  <2>. QED  BY <2>1 DEF Worker, PCs
<1>4. worker[k].pc = "list cluster apps"
  BY <1>1
<1>. HIDE DEF r, from
<1>5. InPass(r) /\ CopyInv(r, appsets)
  BY <1>3 DEF InPass, CopyInv, LoopPCs
<1>6. EventsTell /\ ~Awaiting => PassInv(r, argo, apps, appsets, profs)
  <2>. SUFFICES ASSUME EventsTell, ~Awaiting
                PROVE  PassInv(r, argo, apps, appsets, profs)
    OBVIOUS
  <2>1. worker[k].argo = argo
    BY <1>2, <1>4, LastPassFacts DEF PassInv
  <2>. QED  BY <1>3, <2>1 DEF PassInv, LoopPCs
<1>. QED  BY <1>1, <1>2, <1>3, <1>5, <1>6, ListingKeeps

\* A copy listed while no event of it is pending is the present version.
LEMMA ListAppsKeeps ==
    ASSUME IndInv, NEW k \in Kinds, ListApps(k)
    PROVE  IndInv'
<1>. DEFINE old == (worker[k].stale \ AppsetKeys) \cup (pending \cap AppsetKeys)
            r == [worker[k] EXCEPT !.pc = "list profiles", !.sets = cache.sets,
                                   !.stale = old]
            from == "list apps"
<1>1. Listing(k, from, r) /\ worker[k].pc = from
  BY DEF ListApps, Listing
<1>2. from \in PCs \ {"idle", "lock"} /\ InPass(worker[k])
  BY <1>1 DEF PCs, InPass
<1>3. old \in SUBSET Keys /\ cache.sets \in [Apps -> ApplicationSet]
      /\ worker[k] \in Worker
  BY ObjectFacts, WorkerFields DEF Cache
<1>4. \A a \in Apps : <<"appset", a>> \notin old => <<"appset", a>> \notin pending
  BY KeyFacts
<1>. HIDE DEF old
<1>5. /\ r \in Worker /\ r.pc = "list profiles" /\ r.argo = worker[k].argo
      /\ r.apps = worker[k].apps /\ r.sets = cache.sets /\ r.stale = old
      /\ r.key = worker[k].key
  BY <1>3 DEF Worker, PCs
<1>6. worker[k].pc = "list apps"
  BY <1>1
<1>. HIDE DEF r, from
<1>7. InPass(r)
  BY <1>5 DEF InPass
<1>8. CopyInv(r, appsets)
  <2>1. \A a \in Apps : <<"appset", a>> \notin pending => cache.sets[a] = appsets[a]
    BY Zenon DEF IndInv, CacheInv
  <2>. QED  BY <1>4, <1>5, <2>1, Zenon DEF CopyInv
<1>9. EventsTell /\ ~Awaiting => PassInv(r, argo, apps, appsets, profs)
  <2>. SUFFICES ASSUME EventsTell, ~Awaiting
                PROVE  PassInv(r, argo, apps, appsets, profs)
    OBVIOUS
  <2>1. /\ worker[k].argo = argo /\ worker[k].apps = apps /\ pending = {}
    BY <1>2, <1>6, LastPassFacts DEF PassInv
  <2>2. cache.sets = appsets
    BY <2>1, CacheIsCurrent
  <2>. QED  BY <1>5, <2>1, <2>2 DEF PassInv, LoopPCs
<1>. QED  BY <1>1, <1>2, <1>5, <1>7, <1>8, <1>9, ListingKeeps

LEMMA ListProfilesKeeps ==
    ASSUME IndInv, NEW k \in Kinds, ListProfiles(k)
    PROVE  IndInv'
<1>. DEFINE old == (worker[k].stale \ ProfKeys) \cup (pending \cap ProfKeys)
            w == [worker[k] EXCEPT !.pc = "clusters", !.profs = cache.profs,
                                   !.stale = old]
            dirty == DirtyClusters(w)
            r == [w EXCEPT !.todo = dirty]
            from == "list profiles"
<1>1. Listing(k, from, r) /\ worker[k].pc = from
  BY DEF ListProfiles, Listing
<1>2. from \in PCs \ {"idle", "lock"} /\ InPass(worker[k])
  BY <1>1 DEF PCs, InPass
<1>3. old \in SUBSET Keys /\ cache.profs \in [Profiles -> AppProfile]
      /\ worker[k] \in Worker
  BY ObjectFacts, WorkerFields DEF Cache
<1>4. \A a \in Apps : <<"appset", a>> \notin old =>
                          <<"appset", a>> \notin worker[k].stale
  BY KeyFacts
<1>. HIDE DEF old
<1>5. /\ w \in Worker /\ w.pc = "clusters" /\ w.argo = worker[k].argo
      /\ w.apps = worker[k].apps /\ w.sets = worker[k].sets
      /\ w.profs = cache.profs /\ w.stale = old
      /\ w.key = worker[k].key
  BY <1>3 DEF Worker, PCs
<1>. HIDE DEF w
<1>6. dirty = {c \in Clusters : /\ w.argo[c].server # NoServer
                                /\ w.apps[c].exists
                                /\ w.argo[c].ann # w.apps[c].ann}
  BY DEF DirtyClusters, Registered
<1>. HIDE DEF dirty
<1>7. /\ r \in Worker /\ r.pc = "clusters" /\ r.argo = worker[k].argo
      /\ r.apps = worker[k].apps /\ r.sets = worker[k].sets
      /\ r.profs = cache.profs /\ r.stale = old /\ r.todo = dirty
      /\ r.key = worker[k].key
  BY <1>5, <1>6 DEF Worker
<1>8. worker[k].pc = "list profiles"
  BY <1>1
<1>. HIDE DEF r, from
<1>9. InPass(r)
  BY <1>7 DEF InPass
<1>10. CopyInv(r, appsets)
  <2>1. CopyInv(worker[k], appsets)
    BY <1>2, PassFacts
  <2>. QED  BY <1>4, <1>7, <1>8, <2>1, Zenon DEF CopyInv, LoopPCs
<1>11. EventsTell /\ ~Awaiting => PassInv(r, argo, apps, appsets, profs)
  <2>. SUFFICES ASSUME EventsTell, ~Awaiting
                PROVE  PassInv(r, argo, apps, appsets, profs)
    OBVIOUS
  <2>1. /\ worker[k].argo = argo /\ worker[k].apps = apps
        /\ worker[k].sets = appsets /\ pending = {}
    BY <1>2, <1>8, LastPassFacts DEF PassInv
  <2>2. cache.profs = profs
    BY <2>1, CacheIsCurrent
  <2>3. dirty = {c \in Clusters : /\ argo[c].server # NoServer
                                  /\ apps[c].exists
                                  /\ argo[c].ann # apps[c].ann}
    BY <1>5, <1>6, <2>1
  <2>. QED  BY <1>7, <2>1, <2>2, <2>3 DEF PassInv, LoopPCs
<1>. QED  BY <1>1, <1>2, <1>7, <1>9, <1>10, <1>11, ListingKeeps

\* The loop over the clusters: only the annotation of a cluster with a cluster
\* app is written.
LEMMA UpdateArgoClusterKeeps ==
    ASSUME IndInv, NEW k \in Kinds, NEW c \in Clusters, UpdateArgoCluster(k, c)
    PROVE  IndInv'
<1>. DEFINE w == worker[k]
            rest == w.todo \ {c}
            r == [w EXCEPT !.todo = rest]
            written == [argo EXCEPT ![c].ann = w.apps[c].ann]
<1>1. /\ w.pc = "clusters" /\ c \in w.todo /\ InPass(w)
      /\ UNCHANGED <<apps, appsets, profs, cache, pending, edits>>
      /\ faults' \in 0..MaxFaults
  BY FaultsBounded DEF UpdateArgoCluster, InPass, IndInv
<1>2. w \in Worker /\ CopyInv(w, appsets)
  BY <1>1, PassFacts
<1>3. /\ written \in [Clusters -> ArgoCluster]
      /\ \A d \in Clusters : /\ written[d].server = argo[d].server
                             /\ d # c => written[d] = argo[d]
      /\ written[c].ann = w.apps[c].ann
  <2>1. w.apps[c].ann \in SUBSET Profiles
    BY <1>2, WorkerFields DEF Application
  <2>. QED  BY <2>1, ObjectFacts DEF ArgoCluster
<1>4. /\ r \in Worker /\ r.pc = "clusters" /\ r.argo = w.argo /\ r.apps = w.apps
      /\ r.sets = w.sets /\ r.profs = w.profs /\ r.stale = w.stale
      /\ r.todo = rest /\ r.key = w.key
  BY <1>1, <1>2 DEF Worker
<1>5. \/ /\ argo' = written /\ worker' = [worker EXCEPT ![k] = r]
         /\ UNCHANGED <<queue, mtx>>
      \/ Abort(k) /\ argo' \in {argo, written}
  BY DEF UpdateArgoCluster
<1>. HIDE DEF r, written
<1>6. CASE /\ argo' = written /\ worker' = [worker EXCEPT ![k] = r]
           /\ UNCHANGED <<queue, mtx>>
  <2>1. InPass(r) /\ CopyInv(r, appsets)
    BY <1>1, <1>2, <1>4, Zenon DEF CopyInv, InPass
  <2>2. EventsTell /\ ~Awaiting /\ pending' = {} =>
            PassInv(r, argo', apps', appsets', profs')
    <3>. SUFFICES ASSUME EventsTell, ~Awaiting
                  PROVE  PassInv(r, written, apps, appsets, profs)
      BY <1>1, <1>6
    <3>1. /\ w.apps = apps /\ w.sets = appsets /\ w.profs = profs
          /\ \A d \in Clusters :
                /\ w.argo[d].server = argo[d].server
                /\ ~apps[d].exists => w.argo[d].ann = argo[d].ann
          /\ \A d \in Clusters : argo[d].server # NoServer /\ apps[d].exists =>
                argo[d].ann = apps[d].ann \/ d \in w.todo
          /\ \A d \in w.todo : apps[d].exists
      BY <1>1, LastPassFacts DEF PassInv, LoopPCs
    <3>2. \A d \in Clusters :
              /\ r.argo[d].server = written[d].server
              /\ ~apps[d].exists => r.argo[d].ann = written[d].ann
      <4>. SUFFICES ASSUME NEW d \in Clusters
                    PROVE  /\ r.argo[d].server = written[d].server
                           /\ ~apps[d].exists => r.argo[d].ann = written[d].ann
        OBVIOUS
      <4>1. CASE d = c
        BY <1>1, <1>3, <1>4, <3>1, <4>1
      <4>2. CASE d # c
        BY <1>3, <1>4, <3>1, <4>2
      <4>. QED  BY <4>1, <4>2
    <3>3. \A d \in Clusters : written[d].server # NoServer /\ apps[d].exists =>
              written[d].ann = apps[d].ann \/ d \in rest
      BY <1>3, <3>1
    <3>4. \A d \in rest : apps[d].exists
      BY <3>1
    <3>. QED  BY <1>4, <3>1, <3>2, <3>3, <3>4 DEF PassInv, LoopPCs
  <2>. QED  BY <1>1, <1>3, <1>4, <1>6, <2>1, <2>2, ObjectFacts, GoesOn
<1>7. CASE Abort(k) /\ argo' \in {argo, written}
  BY <1>1, <1>3, <1>7, ObjectFacts, AbortKeeps
<1>. QED  BY <1>5, <1>6, <1>7

\* The loop over the profiles: what it writes is pending.
LEMMA UpdateProfileStatusKeeps ==
    ASSUME IndInv, NEW k \in Kinds, NEW p \in Profiles, UpdateProfileStatus(k, p)
    PROVE  IndInv'
<1>. DEFINE w == worker[k]
            rest == w.todo \ {p}
            r == [w EXCEPT !.todo = rest]
            o == <<"prof", p>>
            new == AfterStatus(w, p)
<1>1. /\ w.pc = "profiles" /\ p \in w.todo /\ InPass(w)
      /\ UNCHANGED <<argo, apps, appsets, cache, edits>>
      /\ faults' \in 0..MaxFaults
  BY FaultsBounded DEF UpdateProfileStatus, InPass, IndInv
<1>2. w \in Worker /\ CopyInv(w, appsets)
  BY <1>1, PassFacts
<1>3. new \in AppProfile
  <2>1. w.profs[p] \in AppProfile
    BY <1>2, WorkerFields
  <2>. QED  BY <2>1 DEF AfterStatus, AppProfile, Health
<1>4. /\ r \in Worker /\ r.pc = "profiles" /\ r.sets = w.sets
      /\ r.stale = w.stale /\ r.key = w.key
  BY <1>1, <1>2 DEF Worker
<1>5. o \in Keys /\ \A c \in Clusters : <<"app", c>> # o
  BY KeyFacts
<1>6. \/ /\ profs' = [profs EXCEPT ![p] = new] /\ pending' = pending \cup {o}
         /\ worker' = [worker EXCEPT ![k] = r]
         /\ UNCHANGED <<queue, mtx>>
      \/ Abort(k) /\ profs' = profs /\ pending' = pending
      \/ /\ Abort(k) /\ profs' = [profs EXCEPT ![p] = new]
         /\ pending' = pending \cup {o}
  BY DEF UpdateProfileStatus, Writes
<1>7. /\ pending' \in SUBSET Keys /\ pending \subseteq pending'
      /\ profs' \in [Profiles -> AppProfile]
      /\ \A c \in Clusters : <<"app", c>> \in pending' => <<"app", c>> \in pending
      /\ \A q \in Profiles : profs'[q] # profs[q] => <<"prof", q>> \in pending'
  <2>1. CASE profs' = profs /\ pending' = pending
    BY <2>1, ObjectFacts
  <2>2. CASE profs' = [profs EXCEPT ![p] = new] /\ pending' = pending \cup {o}
    <3>. HIDE DEF new
    <3>1. \A q \in Profiles : q # p => profs'[q] = profs[q]
      BY <2>2, ObjectFacts
    <3>2. profs' \in [Profiles -> AppProfile]
      BY <1>3, <2>2, ObjectFacts
    <3>. QED  BY <1>5, <2>2, <3>1, <3>2, ObjectFacts
  <2>. QED  BY <1>6, <2>1, <2>2
<1>. HIDE DEF r, new, o
<1>8. CASE Abort(k)
  BY <1>1, <1>7, <1>8, ObjectFacts, AbortKeeps
<1>9. CASE /\ pending' = pending \cup {o} /\ worker' = [worker EXCEPT ![k] = r]
           /\ UNCHANGED <<queue, mtx>>
  <2>1. InPass(r) /\ CopyInv(r, appsets)
    BY <1>1, <1>2, <1>4, Zenon DEF CopyInv, InPass
  <2>2. pending' # {}
    BY <1>9
  <2>. QED  BY <1>1, <1>4, <1>7, <1>9, <2>1, <2>2, ObjectFacts, GoesOn
<1>. QED  BY <1>6, <1>8, <1>9

\* The clusters of an app are registered, so that they have an endpoint.
LEMMA NewElemsTyped ==
    ASSUME NEW w \in Worker, NEW a
    PROVE  NewElems(w, a) \in SUBSET (Clusters \X Servers)
<1>. SUFFICES ASSUME NEW c \in AppToClusters(w, a)
              PROVE  c \in Clusters /\ w.argo[c].server \in Servers
  BY DEF NewElems
<1>1. c \in Clusters /\ w.argo[c].server # NoServer
  BY DEF AppToClusters, ProfileToClusters, Registered
<1>. QED  BY <1>1, WorkerFields DEF ArgoCluster

\* The loop over the apps: the rest of a copy that may be written back is what
\* the user last wrote.
LEMMA UpdateAppKeeps ==
    ASSUME IndInv, NEW k \in Kinds, NEW a \in Apps, UpdateApp(k, a)
    PROVE  IndInv'
<1>. DEFINE w == worker[k]
            rest == w.todo \ {a}
            r == [w EXCEPT !.todo = rest]
            o == <<"appset", a>>
            elems == NewElems(w, a)
            new == [w.sets[a] EXCEPT !.elems = elems]
<1>1. /\ w.pc = "apps" /\ a \in w.todo /\ InPass(w)
      /\ UNCHANGED <<argo, apps, profs, cache, edits>>
      /\ faults' \in 0..MaxFaults
  BY FaultsBounded DEF UpdateApp, InPass, IndInv
<1>2. w \in Worker /\ CopyInv(w, appsets)
  BY <1>1, PassFacts
<1>3. /\ new \in ApplicationSet
      /\ new.body = w.sets[a].body /\ new.exists = w.sets[a].exists
  <2>1. w.sets[a] \in ApplicationSet
    BY <1>2, WorkerFields
  <2>2. elems \in SUBSET (Clusters \X Servers)
    BY <1>2, NewElemsTyped
  <2>. HIDE DEF elems
  <2>. QED  BY <2>1, <2>2 DEF ApplicationSet
<1>4. /\ r \in Worker /\ r.pc = "apps" /\ r.sets = w.sets
      /\ r.stale = w.stale /\ r.key = w.key
  BY <1>1, <1>2 DEF Worker
<1>5. o \in Keys /\ \A c \in Clusters : <<"app", c>> # o
  BY KeyFacts
<1>6. o \notin w.stale => /\ new.body = appsets[a].body
                          /\ new.exists = appsets[a].exists
  <2>. HIDE DEF new
  <2>. QED  BY <1>1, <1>2, <1>3 DEF CopyInv, LoopPCs
<1>7. \/ /\ appsets' = [appsets EXCEPT ![a] = new] /\ pending' = pending \cup {o}
         /\ o \notin w.stale
         /\ worker' = [worker EXCEPT ![k] = r]
         /\ UNCHANGED <<queue, mtx>>
      \/ Abort(k) /\ appsets' = appsets /\ pending' = pending
      \/ /\ Abort(k) /\ appsets' = [appsets EXCEPT ![a] = new]
         /\ o \notin w.stale
         /\ pending' = pending \cup {o}
  BY DEF UpdateApp, Writes, Fresh
<1>8. /\ pending' \in SUBSET Keys /\ pending \subseteq pending'
      /\ appsets' \in [Apps -> ApplicationSet]
      /\ \A c \in Clusters : <<"app", c>> \in pending' => <<"app", c>> \in pending
      /\ \A b \in Apps : appsets'[b] # appsets[b] => <<"appset", b>> \in pending'
      /\ \A b \in Apps : /\ appsets'[b].body = appsets[b].body
                         /\ appsets'[b].exists = appsets[b].exists
  <2>1. CASE appsets' = appsets /\ pending' = pending
    BY <2>1, ObjectFacts
  <2>2. CASE /\ appsets' = [appsets EXCEPT ![a] = new]
             /\ o \notin w.stale /\ pending' = pending \cup {o}
    <3>. HIDE DEF new
    <3>1. \A b \in Apps : b # a => appsets'[b] = appsets[b]
      BY <2>2, ObjectFacts
    <3>2. appsets' \in [Apps -> ApplicationSet] /\ appsets'[a] = new
      BY <1>3, <2>2, ObjectFacts
    <3>. QED  BY <1>5, <1>6, <2>2, <3>1, <3>2, ObjectFacts
  <2>. QED  BY <1>7, <2>1, <2>2
<1>. HIDE DEF r, new, o
<1>9. CASE Abort(k)
  BY <1>1, <1>8, <1>9, ObjectFacts, AbortKeeps
<1>10. CASE /\ pending' = pending \cup {o} /\ worker' = [worker EXCEPT ![k] = r]
            /\ UNCHANGED <<queue, mtx>>
  <2>1. InPass(r) /\ CopyInv(r, appsets)
    BY <1>1, <1>2, <1>4, Zenon DEF CopyInv, InPass
  <2>2. pending' # {}
    BY <1>10
  <2>. QED  BY <1>1, <1>4, <1>8, <1>10, <2>1, <2>2, ObjectFacts, GoesOn
<1>. QED  BY <1>7, <1>9, <1>10

\* A status that a pass would not change is the right one.
LEMMA CleanProfilesInSync ==
    ASSUME IndInv, NEW w \in Worker, w.sets = appsets, w.profs = profs,
           DirtyProfiles(w) = {}
    PROVE  ProfilesInSync
<1>. SUFFICES ASSUME NEW p \in Profiles, profs[p].exists
              PROVE  /\ profs[p].invalid =
                            {a \in profs[p].apps : ~appsets[a].exists}
                     /\ profs[p].health =
                            IF \A a \in profs[p].apps : appsets[a].exists
                            THEN "healthy" ELSE "degraded"
  BY DEF ProfilesInSync
<1>. DEFINE invalid == profs[p].apps \ ValidAppNames(w)
<1>1. profs[p] \in AppProfile /\ profs[p].apps \in SUBSET Apps
  BY ObjectFacts DEF AppProfile
<1>2. invalid = {a \in profs[p].apps : ~appsets[a].exists}
  BY <1>1 DEF ValidAppNames
<1>3. profs[p] = [profs[p] EXCEPT !.invalid = invalid,
                     !.health = IF invalid # {} THEN "degraded" ELSE "healthy"]
  BY DEF DirtyProfiles, AfterStatus
<1>4. /\ profs[p].invalid = invalid
      /\ profs[p].health = IF invalid # {} THEN "degraded" ELSE "healthy"
  <2>. DEFINE health == IF invalid # {} THEN "degraded" ELSE "healthy"
  <2>1. profs[p] = [profs[p] EXCEPT !.invalid = invalid, !.health = health]
    BY <1>3
  <2>. HIDE DEF health, invalid
  <2>2. profs[p].invalid = invalid /\ profs[p].health = health
    BY <1>1, <2>1 DEF AppProfile
  <2>. QED  BY <2>2 DEF health
<1>. HIDE DEF invalid
<1>5. invalid = {} <=> \A a \in profs[p].apps : appsets[a].exists
  BY <1>2
<1>. QED  BY <1>2, <1>4, <1>5

\* The clusters for which a pass generates an app are those that the users
\* asked for.
LEMMA AppToClustersIsAsked ==
    ASSUME IndInv, NEW w \in Worker, w.apps = apps, w.profs = profs,
           \A c \in Clusters :
               /\ w.argo[c].server = argo[c].server
               /\ ~apps[c].exists => w.argo[c].ann = argo[c].ann,
           NEW a \in Apps, NEW c \in Clusters
    PROVE  c \in AppToClusters(w, a) <=>
               argo[c].server # NoServer /\ a \in AppsFor(c)
<1>. DEFINE listed == IF apps[c].exists THEN apps[c].ann ELSE argo[c].ann
<1>1. listed \in SUBSET Profiles
  BY ObjectFacts DEF Application, ArgoCluster
<1>2. ProfilesOf(w, c) = listed
  BY DEF ProfilesOf
<1>3. a \in AppsFor(c) <=> \E p \in listed : profs[p].exists /\ a \in profs[p].apps
  BY DEF AppsFor
<1>4. c \in AppToClusters(w, a) <=>
          \E p \in Profiles : /\ profs[p].exists /\ a \in profs[p].apps
                              /\ c \in ProfileToClusters(w, p)
  BY DEF AppToClusters
<1>5. \A p \in Profiles : c \in ProfileToClusters(w, p) <=>
          argo[c].server # NoServer /\ p \in listed
  BY <1>2 DEF ProfileToClusters, Registered
<1>. QED  BY <1>1, <1>3, <1>4, <1>5, Zenon

LEMMA CleanAppsInSync ==
    ASSUME IndInv, NEW w \in Worker, w.apps = apps, w.profs = profs,
           w.sets = appsets,
           \A c \in Clusters :
               /\ w.argo[c].server = argo[c].server
               /\ ~apps[c].exists => w.argo[c].ann = argo[c].ann,
           DirtyApps(w) = {}
    PROVE  AppsInSync
<1>. SUFFICES ASSUME NEW a \in Apps, NEW c \in Clusters,
                     appsets[a].exists, appsets[a].list
              PROVE  (\E s \in Servers : <<c, s>> \in appsets[a].elems)
                         <=> argo[c].server # NoServer /\ a \in AppsFor(c)
  BY DEF AppsInSync
<1>1. BeforeClusters(w, a) = AppToClusters(w, a)
  BY DEF DirtyApps, ValidAppNames
<1>2. c \in AppToClusters(w, a) <=>
          argo[c].server # NoServer /\ a \in AppsFor(c)
  BY AppToClustersIsAsked
<1>3. c \in BeforeClusters(w, a) <=> \E s \in Servers : <<c, s>> \in appsets[a].elems
  <2>1. appsets[a].elems \in SUBSET (Clusters \X Servers)
    BY ObjectFacts DEF ApplicationSet
  <2>2. BeforeClusters(w, a) = {e[1] : e \in appsets[a].elems}
    BY DEF BeforeClusters
  <2>3. ASSUME NEW e \in appsets[a].elems, c = e[1]
        PROVE  \E s \in Servers : <<c, s>> \in appsets[a].elems
    <3>1. e = <<e[1], e[2]>> /\ e[2] \in Servers
      BY <2>1
    <3>. QED  BY <2>3, <3>1
  <2>4. ASSUME NEW s \in Servers, <<c, s>> \in appsets[a].elems
        PROVE  c \in {e[1] : e \in appsets[a].elems}
    <3>1. <<c, s>>[1] = c
      OBVIOUS
    <3>. QED  BY <2>4, <3>1
  <2>. QED  BY <2>2, <2>3, <2>4
<1>. QED  BY <1>1, <1>2, <1>3

\* What a loop has nothing left to write for is in sync.
LEMMA LoopEndsKeeps ==
    ASSUME IndInv, NEW k \in Kinds, LoopEnds(k)
    PROVE  IndInv'
<1>. DEFINE w == worker[k]
<1>1. /\ w.todo = {} /\ w.pc \in {"clusters", "profiles", "apps"} /\ InPass(w)
      /\ UNCHANGED <<argo, apps, appsets, profs, cache, pending, queue, edits,
                     faults>>
  BY DEF LoopEnds, InPass, objects
<1>2. w \in Worker /\ CopyInv(w, appsets)
  BY <1>1, PassFacts
<1>3. faults' \in 0..MaxFaults
  BY <1>1, Zenon DEF IndInv, TypeOK
<1>4. ASSUME EventsTell, ~Awaiting
      PROVE  /\ w.apps = apps /\ w.sets = appsets /\ w.profs = profs
             /\ \A c \in Clusters :
                   /\ w.argo[c].server = argo[c].server
                   /\ ~apps[c].exists => w.argo[c].ann = argo[c].ann
             /\ w.pc = "profiles" => DirtyProfiles(w) = {} /\ ClustersInSync
             /\ w.pc = "apps" => /\ DirtyApps(w) = {}
                                 /\ ClustersInSync /\ ProfilesInSync
  BY <1>1, <1>4, LastPassFacts DEF PassInv, LoopPCs
<1>5. CASE /\ w.pc = "clusters"
           /\ worker' = [worker EXCEPT ![k].pc = "profiles",
                                       ![k].todo = DirtyProfiles(w)]
           /\ UNCHANGED mtx
  <2>. DEFINE dirty == DirtyProfiles(w)
              r == [w EXCEPT !.pc = "profiles", !.todo = dirty]
  <2>1. worker' = [worker EXCEPT ![k] = r]
    BY <1>5
  <2>2. dirty \in SUBSET Profiles
    BY DEF DirtyProfiles
  <2>. HIDE DEF dirty
  <2>3. /\ r \in Worker /\ r.pc = "profiles" /\ r.argo = w.argo
        /\ r.apps = w.apps /\ r.sets = w.sets /\ r.profs = w.profs
        /\ r.stale = w.stale /\ r.todo = dirty /\ r.key = w.key
    BY <1>2, <2>2 DEF Worker, PCs
  <2>. HIDE DEF r
  <2>4. InPass(r) /\ CopyInv(r, appsets)
    BY <1>1, <1>2, <2>3 DEF CopyInv, InPass, LoopPCs
  <2>5. dirty = DirtyProfiles(r)
    <3>1. ValidAppNames(r) = ValidAppNames(w)
      BY <2>3 DEF ValidAppNames
    <3>2. \A p \in Profiles : AfterStatus(r, p) = AfterStatus(w, p)
      BY <2>3, <3>1, Zenon DEF AfterStatus
    <3>. QED  BY <2>3, <3>2 DEF dirty, DirtyProfiles
  <2>6. EventsTell /\ ~Awaiting =>
            PassInv(r, argo, apps, appsets, profs) /\ ClustersInSync
    <3>. SUFFICES ASSUME EventsTell, ~Awaiting
                  PROVE  PassInv(r, argo, apps, appsets, profs) /\ ClustersInSync
      OBVIOUS
    <3>1. PassInv(r, argo, apps, appsets, profs)
      BY <1>4, <2>3, <2>5 DEF PassInv, LoopPCs
    <3>2. ClustersInSync
      BY <1>1, <1>5, LastPassFacts DEF PassInv, ClustersInSync
    <3>. QED  BY <3>1, <3>2
  <2>7. ClustersInSync' = ClustersInSync
    BY <1>1 DEF ClustersInSync
  <2>. QED  BY <1>1, <1>3, <1>5, <2>1, <2>3, <2>4, <2>6, <2>7, ObjectFacts, GoesOn
<1>6. CASE /\ w.pc = "profiles"
           /\ worker' = [worker EXCEPT ![k].pc = "apps",
                                       ![k].todo = DirtyApps(w)]
           /\ UNCHANGED mtx
  <2>. DEFINE dirty == DirtyApps(w)
              r == [w EXCEPT !.pc = "apps", !.todo = dirty]
  <2>1. worker' = [worker EXCEPT ![k] = r]
    BY <1>6
  <2>2. dirty \in SUBSET Apps
    BY DEF DirtyApps, ValidAppNames
  <2>. HIDE DEF dirty
  <2>3. /\ r \in Worker /\ r.pc = "apps" /\ r.argo = w.argo
        /\ r.apps = w.apps /\ r.sets = w.sets /\ r.profs = w.profs
        /\ r.stale = w.stale /\ r.todo = dirty /\ r.key = w.key
    BY <1>2, <2>2 DEF Worker, PCs
  <2>. HIDE DEF r
  <2>4. InPass(r) /\ CopyInv(r, appsets)
    BY <1>1, <1>2, <2>3 DEF CopyInv, InPass, LoopPCs
  <2>5. dirty = DirtyApps(r)
    <3>1. \A p \in Profiles : ProfileToClusters(r, p) = ProfileToClusters(w, p)
      BY <2>3 DEF ProfileToClusters, Registered, ProfilesOf
    <3>2. \A a \in Apps : AppToClusters(r, a) = AppToClusters(w, a)
      BY <2>3, <3>1 DEF AppToClusters
    <3>3. \A a \in Apps : BeforeClusters(r, a) = BeforeClusters(w, a)
      BY <2>3 DEF BeforeClusters
    <3>4. ValidAppNames(r) = ValidAppNames(w) /\ ValidAppNames(w) \in SUBSET Apps
      BY <2>3 DEF ValidAppNames
    <3>. QED  BY <2>3, <3>2, <3>3, <3>4 DEF dirty, DirtyApps
  <2>6. EventsTell /\ ~Awaiting =>
            /\ PassInv(r, argo, apps, appsets, profs)
            /\ ClustersInSync /\ ProfilesInSync
    <3>. SUFFICES ASSUME EventsTell, ~Awaiting
                  PROVE  /\ PassInv(r, argo, apps, appsets, profs)
                         /\ ClustersInSync /\ ProfilesInSync
      OBVIOUS
    <3>1. PassInv(r, argo, apps, appsets, profs)
      BY <1>4, <2>3, <2>5 DEF PassInv, LoopPCs
    <3>2. ClustersInSync /\ ProfilesInSync
      BY <1>2, <1>4, <1>6, CleanProfilesInSync
    <3>. QED  BY <3>1, <3>2
  <2>7. ClustersInSync' = ClustersInSync /\ ProfilesInSync' = ProfilesInSync
    BY <1>1 DEF ClustersInSync, ProfilesInSync
  <2>. QED  BY <1>1, <1>3, <1>6, <2>1, <2>3, <2>4, <2>6, <2>7, ObjectFacts, GoesOn
<1>7. CASE /\ w.pc = "apps" /\ worker' = [worker EXCEPT ![k] = Idle]
           /\ mtx' = ""
  <2>1. /\ worker' \in [Kinds -> Worker] /\ worker'[k] = Idle
        /\ \A q \in Kinds : q # k => worker'[q] = worker[q] /\ ~InPass(worker[q])
        /\ k # ""
    BY <1>1, <1>7, IdleFacts, ObjectFacts, PassFacts
  <2>2. TypeOK'
    BY <1>1, <1>7, <2>1 DEF IndInv, TypeOK
  <2>3. MutexInv'
    <3>. SUFFICES ASSUME NEW q \in Kinds
                  PROVE  /\ InPass(worker'[q]) <=> "" = q
                         /\ IF worker'[q].pc = "idle" THEN worker'[q] = Idle
                            ELSE worker'[q].key \in Keys
      BY <1>7 DEF MutexInv
    <3>1. q # ""
      BY DEF Kinds
    <3>2. CASE q = k
      BY <2>1, <3>1, <3>2, IdleFacts
    <3>3. CASE q # k
      BY <2>1, <3>1, <3>3, Zenon DEF IndInv, MutexInv
    <3>. QED  BY <3>2, <3>3
  <2>4. CacheInv'
    BY <1>1, Zenon DEF IndInv, CacheInv
  <2>5. ASSUME NEW q \in Kinds
        PROVE  CopyInv(worker'[q], appsets')
    <3>1. CopyInv(Idle, appsets)
      BY IdleFacts DEF CopyInv, LoopPCs
    <3>. QED  BY <1>1, <2>1, <3>1, Zenon DEF IndInv
  <2>6. ASSUME EventsTell
        PROVE  TriggerInv'
    <3>1. TriggerInv
      BY <2>6, Zenon DEF IndInv
    <3>2. \A c \in Clusters : Idle.key # <<"app", c>>
      BY IdleFacts, KeyFacts
    <3>. QED  BY <1>1, <2>1, <3>1, <3>2, Zenon DEF TriggerInv
  <2>7. ASSUME EventsTell
        PROVE  SettledInv'
    <3>. SUFFICES ASSUME ~Awaiting'
                  PROVE  /\ InSync'
                         /\ \A q \in Kinds : ~InPass(worker'[q])
      BY Zenon DEF SettledInv
    <3>1. ~Awaiting
      <4>1. pending = {} /\ queue = {} /\ \A q \in Kinds : worker'[q].pc # "lock"
        BY <1>1, Zenon DEF Awaiting
      <4>2. \A q \in Kinds : worker[q].pc # "lock"
        BY <1>7, <2>1, <4>1
      <4>. QED  BY <4>1, <4>2, Zenon DEF Awaiting
    <3>2. ClustersInSync /\ ProfilesInSync
      BY <1>4, <1>7, <2>7, <3>1
    <3>3. AppsInSync
      BY <1>2, <1>4, <1>7, <2>7, <3>1, CleanAppsInSync
    <3>4. InSync' = InSync
      BY <1>1 DEF InSync, ClustersInSync, ProfilesInSync, AppsInSync, AppsFor
    <3>5. \A q \in Kinds : ~InPass(worker'[q])
      BY <2>1, IdleFacts, Zenon
    <3>. QED  BY <3>2, <3>3, <3>4, <3>5 DEF InSync
  <2>. QED  BY <2>2, <2>3, <2>4, <2>5, <2>6, <2>7, Zenon DEF IndInv
<1>. QED  BY <1>5, <1>6, <1>7 DEF LoopEnds


----------------------------------------------------------------------------
(* Events, the queues and the mutex *)

\* A delivered event is queued.
LEMMA DeliverKeeps ==
    ASSUME IndInv, NEW o \in Keys, Deliver(o)
    PROVE  IndInv'
<1>1. /\ UNCHANGED <<argo, apps, appsets, profs, mtx, worker, edits, faults>>
      /\ pending' = pending \ {o} /\ queue' = queue \cup {o} /\ o \in pending
  BY DEF Deliver, objects
<1>. DEFINE ca == [c \in Clusters |-> IF o = <<"app", c>> THEN apps[c].exists
                                      ELSE cache.apps[c]]
            cs == [a \in Apps |-> IF o = <<"appset", a>> THEN appsets[a]
                                  ELSE cache.sets[a]]
            cp == [p \in Profiles |-> IF o = <<"prof", p>> THEN profs[p]
                                      ELSE cache.profs[p]]
<1>2. /\ cache.apps \in [Clusters -> BOOLEAN]
      /\ cache.sets \in [Apps -> ApplicationSet]
      /\ cache.profs \in [Profiles -> AppProfile]
  BY ObjectFacts DEF Cache
<1>3. cache' = [cache EXCEPT !.apps = ca, !.sets = cs, !.profs = cp]
  BY DEF Deliver
<1>4. /\ ca \in [Clusters -> BOOLEAN] /\ cs \in [Apps -> ApplicationSet]
      /\ cp \in [Profiles -> AppProfile]
  <2>1. ca \in [Clusters -> BOOLEAN]
    BY <1>2, ObjectFacts DEF Application
  <2>2. cs \in [Apps -> ApplicationSet] /\ cp \in [Profiles -> AppProfile]
    BY <1>2, ObjectFacts
  <2>. QED  BY <2>1, <2>2
<1>5. /\ \A c \in Clusters :
            ca[c] = IF o = <<"app", c>> THEN apps[c].exists ELSE cache.apps[c]
      /\ \A a \in Apps :
            cs[a] = IF o = <<"appset", a>> THEN appsets[a] ELSE cache.sets[a]
      /\ \A p \in Profiles :
            cp[p] = IF o = <<"prof", p>> THEN profs[p] ELSE cache.profs[p]
  BY Zenon
<1>. HIDE DEF ca, cs, cp
<1>6. cache' \in Cache /\ cache'.apps = ca /\ cache'.sets = cs /\ cache'.profs = cp
  BY <1>3, <1>4, ObjectFacts DEF Cache
<1>7. TypeOK'
  BY <1>1, <1>6 DEF IndInv, TypeOK
<1>8. MutexInv'
  BY <1>1, Zenon DEF IndInv, MutexInv
<1>9. CacheInv'
  <2>1. CacheInv
    BY DEF IndInv
  <2>2. \A x \in Keys : x \notin pending' => x = o \/ x \notin pending
    BY <1>1
  <2>3. \A c \in Clusters : <<"app", c>> \notin pending' => ca[c] = apps[c].exists
    BY <1>5, <2>1, <2>2, KeyFacts, Zenon DEF CacheInv
  <2>4. \A a \in Apps : <<"appset", a>> \notin pending' => cs[a] = appsets[a]
    BY <1>5, <2>1, <2>2, KeyFacts, Zenon DEF CacheInv
  <2>5. \A p \in Profiles : <<"prof", p>> \notin pending' => cp[p] = profs[p]
    BY <1>5, <2>1, <2>2, KeyFacts, Zenon DEF CacheInv
  <2>. QED  BY <1>1, <1>6, <2>3, <2>4, <2>5, Zenon DEF CacheInv
<1>10. \A k \in Kinds : CopyInv(worker'[k], appsets')
  BY <1>1, Zenon DEF IndInv
<1>11. ASSUME EventsTell
       PROVE  TriggerInv'
  <2>1. TriggerInv
    BY <1>11, Zenon DEF IndInv
  <2>. SUFFICES ASSUME NEW c \in Clusters
                PROVE  /\ <<"app", c>> \in pending' \/ ca[c] => apps[c].exists
                       /\ <<"app", c>> \in queue' => ca[c]
                       /\ \A k \in Kinds : worker[k].key = <<"app", c>> => ca[c]
    BY <1>1, <1>6, Zenon DEF TriggerInv
  <2>2. CASE o = <<"app", c>>
    <3>1. apps[c].exists
      BY <1>1, <2>1, <2>2, Zenon DEF TriggerInv
    <3>. QED  BY <1>5, <2>2, <3>1, Zenon
  <2>3. CASE o # <<"app", c>>
    <3>1. ca[c] = cache.apps[c]
      BY <1>5, <2>3, Zenon
    <3>2. /\ <<"app", c>> \in pending' => <<"app", c>> \in pending
          /\ <<"app", c>> \in queue' => <<"app", c>> \in queue
      BY <1>1, <2>3
    <3>. QED  BY <2>1, <3>1, <3>2, Zenon DEF TriggerInv
  <2>. QED  BY <2>2, <2>3
<1>12. SettledInv'
  <2>1. Awaiting'
    BY <1>1 DEF Awaiting
  <2>. QED  BY <2>1, Zenon DEF SettledInv
<1>. QED  BY <1>7, <1>8, <1>9, <1>10, <1>11, <1>12, Zenon DEF IndInv

\* An object that is taken leads to a pass, unless it is queued again.
LEMMA DequeueKeeps ==
    ASSUME IndInv, NEW o \in Keys, Dequeue(o)
    PROVE  IndInv'
<1>. DEFINE k == o[1]
            r == [Idle EXCEPT !.pc = "lock", !.key = o]
<1>1. /\ UNCHANGED <<argo, apps, appsets, profs, cache, pending, mtx, edits>>
      /\ o \in queue /\ worker[k].pc = "idle" /\ k \in Kinds
      /\ faults' \in 0..MaxFaults
      /\ queue' = queue \/ queue' = queue \ {o}
  BY FaultsBounded, KeyFacts DEF Dequeue, objects, IndInv
<1>2. r \in Worker /\ r.pc = "lock" /\ r.key = o
  BY IdleFacts DEF Worker, PCs
<1>3. \/ /\ queue' = queue /\ worker' = worker
      \/ /\ queue' = queue \ {o} /\ Triggers(o)
         /\ worker' = [worker EXCEPT ![k] = r]
      \/ /\ queue' = queue \ {o} /\ ~Triggers(o)
         /\ worker' = worker
  BY <1>1 DEF Dequeue
<1>. HIDE DEF r, k
<1>4. /\ worker' \in [Kinds -> Worker]
      /\ \/ \A q \in Kinds : worker'[q] = worker[q]
         \/ /\ worker'[k] = r
            /\ \A q \in Kinds : q # k => worker'[q] = worker[q]
  BY <1>1, <1>2, <1>3, ObjectFacts
<1>5. TypeOK'
  <2>1. queue' \in SUBSET Keys
    BY <1>1, ObjectFacts
  <2>. QED  BY <1>1, <1>4, <2>1 DEF IndInv, TypeOK
<1>6. MutexInv'
  <2>. SUFFICES ASSUME NEW q \in Kinds
                PROVE  /\ InPass(worker'[q]) <=> mtx = q
                       /\ IF worker'[q].pc = "idle" THEN worker'[q] = Idle
                          ELSE worker'[q].key \in Keys
    BY <1>1 DEF MutexInv
  <2>1. CASE worker'[q] = worker[q]
    BY <2>1, Zenon DEF IndInv, MutexInv
  <2>2. CASE q = k /\ worker'[q] = r
    <3>1. ~InPass(worker[q]) /\ ~InPass(r)
      BY <1>1, <1>2, <2>2 DEF InPass
    <3>2. mtx # q
      BY <3>1, Zenon DEF IndInv, MutexInv
    <3>. QED  BY <1>2, <2>2, <3>1, <3>2
  <2>. QED  BY <1>4, <2>1, <2>2
<1>7. CacheInv'
  BY <1>1, Zenon DEF IndInv, CacheInv
<1>8. ASSUME NEW q \in Kinds
      PROVE  CopyInv(worker'[q], appsets')
  <2>1. CopyInv(r, appsets)
    BY <1>2 DEF CopyInv, LoopPCs
  <2>2. worker'[q] = worker[q] \/ worker'[q] = r
    BY <1>4, Zenon
  <2>3. CopyInv(worker[q], appsets)
    BY Zenon DEF IndInv
  <2>. QED  BY <1>1, <2>1, <2>2, <2>3, Zenon
<1>9. ASSUME EventsTell
      PROVE  TriggerInv'
  <2>1. TriggerInv
    BY <1>9, Zenon DEF IndInv
  <2>2. \A x \in Keys : x \in queue' => x \in queue
    BY <1>1
  <2>3. ASSUME NEW c \in Clusters, NEW q \in Kinds, worker'[q].key = <<"app", c>>
        PROVE  cache.apps[c]
    <3>1. worker'[q] = worker[q] \/ worker'[q] = r
      BY <1>4, Zenon
    <3>2. CASE worker'[q] = worker[q]
      BY <2>1, <2>3, <3>2, Zenon DEF TriggerInv
    <3>3. CASE worker'[q] = r
      <4>1. <<"app", c>> \in queue
        BY <1>1, <1>2, <2>3, <3>3
      <4>. QED  BY <2>1, <4>1, Zenon DEF TriggerInv
    <3>. QED  BY <3>1, <3>2, <3>3
  <2>. QED  BY <1>1, <2>1, <2>2, <2>3, KeyFacts, Zenon DEF TriggerInv
<1>10. ASSUME EventsTell
       PROVE  SettledInv'
  <2>1. Triggers(o)
    <3>. SUFFICES ASSUME o \in AppKeys
                  PROVE  cache.apps[o[2]]
      BY DEF Triggers
    <3>1. PICK c \in Clusters : o = <<"app", c>>
      BY DEF AppKeys
    <3>2. cache.apps[c]
      BY <1>1, <1>10, <3>1, Zenon DEF IndInv, TriggerInv
    <3>. QED  BY <3>1, <3>2
  <2>2. CASE queue' = queue
    BY <1>1, <2>2 DEF Awaiting, SettledInv
  <2>3. CASE worker' = [worker EXCEPT ![k] = r]
    <3>1. worker'[k].pc = "lock"
      BY <1>1, <1>2, <2>3, ObjectFacts
    <3>. QED  BY <1>1, <3>1, Zenon DEF Awaiting, SettledInv
  <2>. QED  BY <1>3, <2>1, <2>2, <2>3
<1>. QED  BY <1>5, <1>6, <1>7, <1>8, <1>9, <1>10, Zenon DEF IndInv

\* The mutex is taken when no pass is under way.
LEMMA LockKeeps ==
    ASSUME IndInv, NEW k \in Kinds, Lock(k)
    PROVE  IndInv'
<1>. DEFINE r == [worker[k] EXCEPT !.pc = "list clusters"]
<1>1. /\ UNCHANGED <<argo, apps, appsets, profs, cache, pending, queue, edits,
                     faults>>
      /\ worker[k].pc = "lock" /\ mtx = "" /\ mtx' = k
      /\ worker' = [worker EXCEPT ![k] = r]
  BY DEF Lock, objects
<1>2. worker[k] \in Worker /\ worker[k].key \in Keys
  <2>1. worker[k].pc # "idle"
    BY <1>1
  <2>. QED  BY <2>1, ObjectFacts DEF IndInv, MutexInv
<1>3. r \in Worker /\ r.pc = "list clusters" /\ r.key = worker[k].key
  BY <1>2 DEF Worker, PCs
<1>. HIDE DEF r
<1>4. /\ worker' \in [Kinds -> Worker] /\ worker'[k] = r
      /\ \A q \in Kinds : q # k => worker'[q] = worker[q]
  BY <1>1, <1>3, ObjectFacts
<1>5. \A q \in Kinds : ~InPass(worker[q])
  <2>1. \A q \in Kinds : q # ""
    BY DEF Kinds
  <2>. QED  BY <1>1, <2>1, Zenon DEF IndInv, MutexInv
<1>6. InPass(r)
  BY <1>3 DEF InPass
<1>7. TypeOK'
  BY <1>1, <1>4 DEF IndInv, TypeOK
<1>8. MutexInv'
  <2>. SUFFICES ASSUME NEW q \in Kinds
                PROVE  /\ InPass(worker'[q]) <=> k = q
                       /\ IF worker'[q].pc = "idle" THEN worker'[q] = Idle
                          ELSE worker'[q].key \in Keys
    BY <1>1 DEF MutexInv
  <2>1. CASE q = k
    BY <1>2, <1>3, <1>4, <1>6, <2>1
  <2>2. CASE q # k
    BY <1>4, <1>5, <2>2, Zenon DEF IndInv, MutexInv
  <2>. QED  BY <2>1, <2>2
<1>9. CacheInv'
  BY <1>1, Zenon DEF IndInv, CacheInv
<1>10. ASSUME NEW q \in Kinds
       PROVE  CopyInv(worker'[q], appsets')
  <2>1. CopyInv(r, appsets)
    BY <1>3 DEF CopyInv, LoopPCs
  <2>. QED  BY <1>1, <1>4, <2>1, Zenon DEF IndInv
<1>11. ASSUME EventsTell
       PROVE  TriggerInv'
  <2>1. TriggerInv
    BY <1>11, Zenon DEF IndInv
  <2>2. \A q \in Kinds : worker'[q].key = worker[q].key
    BY <1>3, <1>4, Zenon
  <2>. QED  BY <1>1, <2>1, <2>2, Zenon DEF TriggerInv
<1>12. SettledInv'
  <2>1. \A q \in Kinds : InPass(worker'[q]) => worker'[q] = r
    BY <1>4, <1>5, Zenon
  <2>2. worker'[k].pc # "idle"
    BY <1>3, <1>4
  <2>3. PassInv(r, argo', apps', appsets', profs')
    BY <1>3 DEF PassInv, LoopPCs
  <2>4. r.pc \notin {"profiles", "apps"}
    BY <1>3
  <2>5. ~\A q \in Kinds : worker'[q].pc = "idle"
    BY <2>2, Zenon
  <2>. QED  BY <2>1, <2>3, <2>4, <2>5 DEF SettledInv
<1>. QED  BY <1>7, <1>8, <1>9, <1>10, <1>11, <1>12, Zenon DEF IndInv

----------------------------------------------------------------------------
(* Starts, restarts and the resync *)

\* Without any object there is nothing to bring into sync.
LEMMA NothingIsInSync ==
    ASSUME ExistingKeys = {}
    PROVE  InSync
<1>1. /\ \A c \in Clusters : ~apps[c].exists
      /\ \A a \in Apps : ~appsets[a].exists
      /\ \A p \in Profiles : ~profs[p].exists
  BY DEF ExistingKeys
<1>. QED  BY <1>1, Zenon DEF InSync, ClustersInSync, ProfilesInSync, AppsInSync

\* What the informers' first lists queue.
LEMMA ExistingKeysFacts ==
    /\ ExistingKeys \in SUBSET Keys
    /\ \A c \in Clusters : <<"app", c>> \in ExistingKeys => apps[c].exists
<1>1. ExistingKeys \in SUBSET Keys
  BY KeyFacts DEF ExistingKeys
<1>2. ASSUME NEW c \in Clusters, <<"app", c>> \in ExistingKeys
      PROVE  apps[c].exists
  BY <1>2 DEF ExistingKeys
<1>. QED  BY <1>1, <1>2

LEMMA CachedKeysFacts ==
    /\ CachedKeys \in SUBSET Keys
    /\ \A c \in Clusters : <<"app", c>> \in CachedKeys => cache.apps[c]
<1>1. CachedKeys \in SUBSET Keys
  BY KeyFacts DEF CachedKeys
<1>2. ASSUME NEW c \in Clusters, <<"app", c>> \in CachedKeys
      PROVE  cache.apps[c]
  BY <1>2 DEF CachedKeys
<1>. QED  BY <1>1, <1>2

\* Controllers that start with the cache the informers' first lists give them.
JustStarted ==
    /\ argo \in [Clusters -> ArgoCluster]
    /\ apps \in [Clusters -> Application]
    /\ appsets \in [Apps -> ApplicationSet]
    /\ profs \in [Profiles -> AppProfile]
    /\ cache = [apps |-> [c \in Clusters |-> apps[c].exists],
                sets |-> appsets, profs |-> profs]
    /\ pending = {} /\ queue = ExistingKeys /\ mtx = ""
    /\ worker = [k \in Kinds |-> Idle]
    /\ edits \in 0..MaxEdits /\ faults \in 0..MaxFaults

LEMMA FreshStart == JustStarted => IndInv
<1>. SUFFICES ASSUME JustStarted
              PROVE  IndInv
  OBVIOUS
<1>. DEFINE ca == [c \in Clusters |-> apps[c].exists]
<1>1. ca \in [Clusters -> BOOLEAN] /\ \A c \in Clusters : ca[c] = apps[c].exists
  BY DEF Application, JustStarted
<1>2. cache = [apps |-> ca, sets |-> appsets, profs |-> profs]
  BY DEF JustStarted
<1>. HIDE DEF ca
<1>3. cache \in Cache /\ cache.apps = ca /\ cache.sets = appsets
      /\ cache.profs = profs
  <2>1. appsets \in [Apps -> ApplicationSet] /\ profs \in [Profiles -> AppProfile]
    BY DEF JustStarted
  <2>. QED  BY <1>1, <1>2, <2>1 DEF Cache
<1>4. worker \in [Kinds -> Worker] /\ \A k \in Kinds : worker[k] = Idle
  BY IdleFacts DEF JustStarted
<1>5. TypeOK
  BY <1>3, <1>4, ExistingKeysFacts DEF TypeOK, JustStarted
<1>6. MutexInv
  <2>1. \A k \in Kinds : "" # k
    BY DEF Kinds
  <2>. QED  BY <1>4, <2>1, IdleFacts, Zenon DEF MutexInv, JustStarted
<1>7. CacheInv
  BY <1>1, <1>3, Zenon DEF CacheInv
<1>8. \A k \in Kinds : CopyInv(worker[k], appsets)
  <2>1. CopyInv(Idle, appsets)
    BY IdleFacts DEF CopyInv, LoopPCs
  <2>. QED  BY <1>4, <2>1, Zenon
<1>9. TriggerInv
  <2>. SUFFICES ASSUME NEW c \in Clusters
                PROVE  /\ <<"app", c>> \in {} \/ ca[c] => apps[c].exists
                       /\ <<"app", c>> \in ExistingKeys => ca[c]
                       /\ \A k \in Kinds : worker[k].key = <<"app", c>> => ca[c]
    BY <1>3, Zenon DEF TriggerInv, JustStarted
  <2>1. \A k \in Kinds : worker[k].key # <<"app", c>>
    BY <1>4, IdleFacts, KeyFacts
  <2>. QED  BY <1>1, <2>1, ExistingKeysFacts
<1>10. SettledInv
  <2>. SUFFICES ASSUME ~Awaiting
                PROVE  /\ InSync
                       /\ \A k \in Kinds : ~InPass(worker[k])
    BY Zenon DEF SettledInv
  <2>1. ExistingKeys = {}
    BY Zenon DEF Awaiting, JustStarted
  <2>. QED  BY <1>4, <2>1, NothingIsInSync, IdleFacts, Zenon
<1>. QED  BY <1>5, <1>6, <1>7, <1>8, <1>9, <1>10, Zenon DEF IndInv

LEMMA InitImpliesIndInv ==
    ASSUME Init
    PROVE  IndInv
<1>1. apps \in [Clusters -> Application]
  <2>1. \A x \in {NoApp} \cup [exists: {TRUE}, ann: SUBSET Profiles] :
            x \in Application
    <3>1. \A x \in [exists: {TRUE}, ann: SUBSET Profiles] : x \in Application
      BY DEF Application
    <3>. QED  BY <3>1, NothingFacts
  <2>2. apps \in [Clusters -> {NoApp} \cup [exists: {TRUE}, ann: SUBSET Profiles]]
    BY DEF Init
  <2>. QED  BY <2>1, <2>2
<1>2. appsets \in [Apps -> ApplicationSet]
  <2>1. NoAppset \in ApplicationSet /\ NewAppset(TRUE) \in ApplicationSet
    BY DEF NoAppset, NewAppset, ApplicationSet
  <2>2. appsets \in [Apps -> {NoAppset, NewAppset(TRUE)}]
    BY DEF Init
  <2>. QED  BY <2>1, <2>2
<1>3. profs \in [Profiles -> AppProfile]
  <2>1. \A names \in SUBSET Apps : NewProf(names) \in AppProfile
    BY DEF NoProf, NewProf, AppProfile, Health
  <2>2. profs \in [Profiles -> {NoProf} \cup {NewProf(names) : names \in SUBSET Apps}]
    BY DEF Init
  <2>3. \A x \in {NoProf} \cup {NewProf(names) : names \in SUBSET Apps} :
            x \in AppProfile
    BY <2>1, NothingFacts
  <2>. QED  BY <2>2, <2>3
<1>4. edits \in 0..MaxEdits /\ faults \in 0..MaxFaults
  <2>1. edits = 0 /\ faults = 0
    BY DEF Init
  <2>2. MaxEdits \in Nat /\ MaxFaults \in Nat
    BY ConstantsAssumption
  <2>. QED  BY <2>1, <2>2
<1>5. /\ argo \in [Clusters -> ArgoCluster]
      /\ cache = [apps |-> [c \in Clusters |-> apps[c].exists],
                  sets |-> appsets, profs |-> profs]
      /\ pending = {} /\ queue = ExistingKeys /\ mtx = ""
      /\ worker = [k \in Kinds |-> Idle]
  BY DEF Init
<1>. QED  BY <1>1, <1>2, <1>3, <1>4, <1>5, FreshStart DEF JustStarted

LEMMA CrashKeeps ==
    ASSUME IndInv, Crash
    PROVE  IndInv'
<1>1. /\ UNCHANGED <<argo, apps, appsets, profs, edits>>
      /\ cache' = [apps |-> [c \in Clusters |-> apps[c].exists],
                   sets |-> appsets, profs |-> profs]
      /\ queue' = ExistingKeys /\ pending' = {} /\ mtx' = ""
      /\ worker' = [k \in Kinds |-> Idle]
      /\ faults' \in 0..MaxFaults
  BY FaultsBounded DEF Crash, objects, IndInv
<1>2. queue' = ExistingKeys'
  BY <1>1 DEF ExistingKeys
<1>3. /\ argo' \in [Clusters -> ArgoCluster] /\ apps' \in [Clusters -> Application]
      /\ appsets' \in [Apps -> ApplicationSet]
      /\ profs' \in [Profiles -> AppProfile] /\ edits' \in 0..MaxEdits
      /\ cache' = [apps |-> [c \in Clusters |-> apps'[c].exists],
                   sets |-> appsets', profs |-> profs']
  BY <1>1, ObjectFacts
<1>4. JustStarted'
  BY <1>1, <1>2, <1>3 DEF JustStarted
<1>5. JustStarted' => IndInv'
  BY FreshStart, PTL
<1>. QED  BY <1>4, <1>5

LEMMA ResyncKeeps ==
    ASSUME IndInv, Resync
    PROVE  IndInv'
<1>1. /\ UNCHANGED <<argo, apps, appsets, profs, cache, pending, mtx, worker,
                     edits, faults>>
      /\ queue' = CachedKeys /\ pending = {} /\ queue = {}
      /\ \A k \in Kinds : worker[k] = Idle
  BY DEF Resync, Quiet, objects
<1>2. TypeOK'
  BY <1>1, CachedKeysFacts DEF IndInv, TypeOK
<1>3. MutexInv' /\ CacheInv' /\ \A k \in Kinds : CopyInv(worker'[k], appsets')
  BY <1>1, Zenon DEF IndInv, MutexInv, CacheInv
<1>4. ASSUME EventsTell
      PROVE  TriggerInv'
  <2>1. TriggerInv
    BY <1>4, Zenon DEF IndInv
  <2>. QED  BY <1>1, <2>1, CachedKeysFacts, Zenon DEF TriggerInv
<1>5. ASSUME EventsTell
      PROVE  SettledInv'
  <2>. SUFFICES ASSUME ~Awaiting'
                PROVE  /\ InSync'
                       /\ \A q \in Kinds : ~InPass(worker'[q])
    BY Zenon DEF SettledInv
  <2>1. \A k \in Kinds : worker[k].pc = "idle" /\ ~InPass(worker[k])
    BY <1>1, IdleFacts, Zenon
  <2>2. ~Awaiting
    <3>1. \A k \in Kinds : worker[k].pc # "lock"
      BY <2>1
    <3>. QED  BY <1>1, <3>1, Zenon DEF Awaiting
  <2>3. InSync
    BY <1>5, <2>1, <2>2, Zenon DEF IndInv, SettledInv
  <2>4. InSync' = InSync
    BY <1>1 DEF InSync, ClustersInSync, ProfilesInSync, AppsInSync, AppsFor
  <2>. QED  BY <1>1, <2>1, <2>3, <2>4, Zenon
<1>. QED  BY <1>2, <1>3, <1>4, <1>5, Zenon DEF IndInv

----------------------------------------------------------------------------
(* Users *)

LEMMA EditsBounded ==
    ASSUME TypeOK, NEW op, Edit(op)
    PROVE  edits' \in 0..MaxEdits /\ edits' # edits
<1>1. edits \in 0..MaxEdits /\ MaxEdits \in Nat
  BY ConstantsAssumption, Zenon DEF TypeOK
<1>2. edits < MaxEdits /\ edits' = edits + 1
  BY DEF Edit
<1>. QED  BY <1>1, <1>2

\* A new version of an object is pending, and a copy of it can no longer be
\* written back.
LEMMA ChangeKeeps ==
    ASSUME IndInv, NEW o \in Keys, NEW op, Edit(op), Changed(o), argo' = argo,
           apps' \in [Clusters -> Application],
           appsets' \in [Apps -> ApplicationSet],
           profs' \in [Profiles -> AppProfile],
           \A c \in Clusters : apps'[c].exists # apps[c].exists => o = <<"app", c>>,
           \A a \in Apps : appsets'[a] # appsets[a] => o = <<"appset", a>>,
           \A p \in Profiles : profs'[p] # profs[p] => o = <<"prof", p>>,
           EventsTell => \A c \in Clusters :
               apps[c].exists \/ o = <<"app", c>> => apps'[c].exists
    PROVE  IndInv'
<1>1. /\ UNCHANGED <<cache, queue, mtx, faults>>
      /\ pending' = pending \cup {o} /\ edits' \in 0..MaxEdits
  BY EditsBounded DEF Edit, Changed, IndInv
<1>. DEFINE r(k) == [worker[k] EXCEPT !.stale = @ \cup {o}]
<1>2. /\ DOMAIN worker' = Kinds
      /\ worker' = [k \in Kinds |-> worker'[k]]
      /\ \A k \in Kinds :
            worker'[k] = IF worker[k].pc = "idle" THEN worker[k] ELSE r(k)
  BY DEF Changed
<1>3. ASSUME NEW k \in Kinds
      PROVE  /\ r(k) \in Worker /\ r(k).pc = worker[k].pc
             /\ r(k).key = worker[k].key /\ r(k).sets = worker[k].sets
             /\ r(k).stale = worker[k].stale \cup {o}
  <2>1. worker[k] \in Worker
    BY ObjectFacts
  <2>. QED  BY <2>1 DEF Worker
<1>. HIDE DEF r
<1>4. worker' \in [Kinds -> Worker]
  <2>1. \A k \in Kinds : worker'[k] \in Worker
    BY <1>2, <1>3, ObjectFacts
  <2>. QED  BY <1>2, <2>1, Zenon
<1>5. \A k \in Kinds : /\ worker'[k].pc = worker[k].pc
                       /\ worker'[k].key = worker[k].key
                       /\ worker[k].pc = "idle" => worker'[k] = worker[k]
  <2>. TAKE k \in Kinds
  <2>1. CASE worker[k].pc = "idle"
    BY <1>2, <2>1, Zenon
  <2>2. CASE worker[k].pc # "idle"
    <3>1. worker'[k] = r(k)
      BY <1>2, <2>2, Zenon
    <3>. QED  BY <1>3, <2>2, <3>1, Zenon
  <2>. QED  BY <2>1, <2>2
<1>6. TypeOK'
  BY <1>1, <1>4 DEF IndInv, TypeOK
<1>7. MutexInv'
  BY <1>1, <1>5, Zenon DEF IndInv, MutexInv, InPass
<1>8. CacheInv'
  <2>1. CacheInv
    BY DEF IndInv
  <2>2. \A x : x \notin pending' => x # o /\ x \notin pending
    BY <1>1
  <2>3. \A c \in Clusters :
            <<"app", c>> \notin pending' => cache'.apps[c] = apps'[c].exists
    BY <1>1, <2>1, <2>2, Zenon DEF CacheInv
  <2>4. \A a \in Apps : <<"appset", a>> \notin pending' => cache'.sets[a] = appsets'[a]
    BY <1>1, <2>1, <2>2, Zenon DEF CacheInv
  <2>5. \A p \in Profiles :
            <<"prof", p>> \notin pending' => cache'.profs[p] = profs'[p]
    BY <1>1, <2>1, <2>2, Zenon DEF CacheInv
  <2>. QED  BY <2>3, <2>4, <2>5, Zenon DEF CacheInv
<1>9. ASSUME NEW k \in Kinds
      PROVE  CopyInv(worker'[k], appsets')
  <2>1. CASE worker[k].pc = "idle"
    BY <1>5, <2>1 DEF CopyInv, LoopPCs
  <2>2. CASE worker[k].pc # "idle"
    <3>1. worker'[k] = r(k)
      BY <1>2, <2>2, Zenon
    <3>2. CopyInv(worker[k], appsets)
      BY Zenon DEF IndInv
    <3>3. \A a \in Apps : <<"appset", a>> \notin r(k).stale =>
              /\ <<"appset", a>> \notin worker[k].stale
              /\ appsets'[a] = appsets[a]
      <4>1. \A x : x \notin r(k).stale => x # o /\ x \notin worker[k].stale
        BY <1>3
      <4>. QED  BY <4>1, Zenon
    <3>4. r(k).pc = worker[k].pc /\ r(k).sets = worker[k].sets
      BY <1>3, Zenon
    <3>5. CopyInv(r(k), appsets')
      BY <3>2, <3>3, <3>4, Zenon DEF CopyInv
    <3>. QED  BY <3>1, <3>5, Zenon
  <2>. QED  BY <2>1, <2>2
<1>10. ASSUME EventsTell
       PROVE  TriggerInv'
  <2>1. TriggerInv
    BY <1>10, Zenon DEF IndInv
  <2>2. \A x : x \in pending' => x = o \/ x \in pending
    BY <1>1
  <2>3. \A c \in Clusters : apps[c].exists \/ o = <<"app", c>> => apps'[c].exists
    BY <1>10
  <2>4. \A k \in Kinds : worker'[k].key = worker[k].key
    BY <1>5, Zenon
  <2>. QED  BY <1>1, <2>1, <2>2, <2>3, <2>4, Zenon DEF TriggerInv
<1>11. SettledInv'
  <2>1. Awaiting'
    BY <1>1 DEF Awaiting
  <2>. QED  BY <2>1, Zenon DEF SettledInv
<1>. QED  BY <1>6, <1>7, <1>8, <1>9, <1>10, <1>11, Zenon DEF IndInv

\* A change of a registered cluster reaches no controller.
LEMMA RegistrationKeeps ==
    ASSUME IndInv, NEW op, Edit(op), op = "register",
           argo' \in [Clusters -> ArgoCluster],
           UNCHANGED <<apps, appsets, profs, pending, worker>>
    PROVE  IndInv'
<1>1. /\ UNCHANGED <<cache, queue, mtx, faults>> /\ edits' \in 0..MaxEdits
      /\ ~EventsTell
  BY EditsBounded DEF Edit, EventsTell, IndInv
<1>2. TypeOK'
  BY <1>1 DEF IndInv, TypeOK
<1>3. MutexInv' /\ CacheInv' /\ \A k \in Kinds : CopyInv(worker'[k], appsets')
  BY <1>1, Zenon DEF IndInv, MutexInv, CacheInv
<1>. QED  BY <1>1, <1>2, <1>3, Zenon DEF IndInv

\* Operations on a cluster app.
LEMMA AppChangeKeeps ==
    ASSUME IndInv, NEW c \in Clusters, NEW new \in Application, NEW op, Edit(op),
           Changed(<<"app", c>>), UNCHANGED <<argo, appsets, profs>>,
           apps' = [apps EXCEPT ![c] = new],
           EventsTell => new.exists
    PROVE  IndInv'
<1>1. /\ <<"app", c>> \in Keys
      /\ apps' \in [Clusters -> Application] /\ apps'[c] = new
      /\ \A d \in Clusters : d # c => apps'[d] = apps[d]
  BY ObjectFacts, KeyFacts
<1>2. \A d \in Clusters : <<"app", c>> = <<"app", d>> => d = c
  OBVIOUS
<1>3. \A d \in Clusters : apps'[d].exists # apps[d].exists => <<"app", c>> = <<"app", d>>
  BY <1>1, Zenon
<1>4. EventsTell => \A d \in Clusters :
          apps[d].exists \/ <<"app", c>> = <<"app", d>> => apps'[d].exists
  BY <1>1, <1>2, Zenon
<1>. QED  BY <1>1, <1>3, <1>4, ObjectFacts, ChangeKeeps

\* Operations on an arlon app.
LEMMA AppsetChangeKeeps ==
    ASSUME IndInv, NEW a \in Apps, NEW new \in ApplicationSet, NEW op, Edit(op),
           Changed(<<"appset", a>>), UNCHANGED <<argo, apps, profs>>,
           appsets' = [appsets EXCEPT ![a] = new]
    PROVE  IndInv'
<1>1. /\ <<"appset", a>> \in Keys
      /\ appsets' \in [Apps -> ApplicationSet]
      /\ \A b \in Apps : b # a => appsets'[b] = appsets[b]
      /\ \A d \in Clusters : <<"appset", a>> # <<"app", d>>
  BY ObjectFacts, KeyFacts
<1>2. \A b \in Apps : appsets'[b] # appsets[b] => <<"appset", a>> = <<"appset", b>>
  BY <1>1, Zenon
<1>. QED  BY <1>1, <1>2, ObjectFacts, ChangeKeeps

\* Operations on a profile.
LEMMA ProfChangeKeeps ==
    ASSUME IndInv, NEW p \in Profiles, NEW new \in AppProfile, NEW op, Edit(op),
           Changed(<<"prof", p>>), UNCHANGED <<argo, apps, appsets>>,
           profs' = [profs EXCEPT ![p] = new]
    PROVE  IndInv'
<1>1. /\ <<"prof", p>> \in Keys
      /\ profs' \in [Profiles -> AppProfile]
      /\ \A q \in Profiles : q # p => profs'[q] = profs[q]
      /\ \A d \in Clusters : <<"prof", p>> # <<"app", d>>
  BY ObjectFacts, KeyFacts
<1>2. \A q \in Profiles : profs'[q] # profs[q] => <<"prof", p>> = <<"prof", q>>
  BY <1>1, Zenon
<1>. QED  BY <1>1, <1>2, ObjectFacts, ChangeKeeps

LEMMA UsersKeep ==
    ASSUME IndInv, Users
    PROVE  IndInv'
<1>1. ASSUME NEW c \in Clusters, NEW s \in Servers, Register(c, s)
      PROVE  IndInv'
  <2>1. [server |-> s, ann |-> {}] \in ArgoCluster
    BY DEF ArgoCluster
  <2>2. argo' \in [Clusters -> ArgoCluster]
    BY <1>1, <2>1, ObjectFacts DEF Register
  <2>. QED  BY <1>1, <2>2, RegistrationKeeps DEF Register
<1>2. ASSUME NEW c \in Clusters, Unregister(c)
      PROVE  IndInv'
  <2>1. argo' \in [Clusters -> ArgoCluster]
    BY <1>2, NothingFacts, ObjectFacts DEF Unregister
  <2>. QED  BY <1>2, <2>1, RegistrationKeeps DEF Unregister
<1>3. ASSUME NEW c \in Clusters, NEW ann \in SUBSET Profiles,
             AnnotateArgoCluster(c, ann)
      PROVE  IndInv'
  <2>1. argo' \in [Clusters -> ArgoCluster]
    BY <1>3, ObjectFacts DEF AnnotateArgoCluster, ArgoCluster
  <2>. QED  BY <1>3, <2>1, RegistrationKeeps DEF AnnotateArgoCluster
<1>4. ASSUME NEW c \in Clusters, NEW ann \in SUBSET Profiles,
             CreateClusterApp(c, ann)
      PROVE  IndInv'
  <2>. DEFINE new == [exists |-> TRUE, ann |-> ann]
  <2>1. new \in Application /\ new.exists
    BY DEF Application
  <2>. HIDE DEF new
  <2>2. apps' = [apps EXCEPT ![c] = new]
    BY <1>4 DEF CreateClusterApp, new
  <2>. QED  BY <1>4, <2>1, <2>2, AppChangeKeeps DEF CreateClusterApp
<1>5. ASSUME NEW c \in Clusters, NEW ann \in SUBSET Profiles,
             SetAppProfiles(c, ann)
      PROVE  IndInv'
  <2>. DEFINE new == [apps[c] EXCEPT !.ann = ann]
  <2>1. new \in Application /\ new.exists
    BY <1>5, ObjectFacts DEF Application, SetAppProfiles
  <2>2. apps' = [apps EXCEPT ![c] = new]
    BY <1>5 DEF SetAppProfiles
  <2>. HIDE DEF new
  <2>. QED  BY <1>5, <2>1, <2>2, AppChangeKeeps DEF SetAppProfiles
<1>6. ASSUME NEW c \in Clusters, DeleteClusterApp(c)
      PROVE  IndInv'
  <2>1. ~EventsTell
    BY <1>6 DEF DeleteClusterApp, Edit, EventsTell
  <2>. QED  BY <1>6, <2>1, NothingFacts, AppChangeKeeps DEF DeleteClusterApp
<1>7. ASSUME NEW p \in Profiles, NEW names \in SUBSET Apps, SetProfile(p, names)
      PROVE  IndInv'
  <2>. DEFINE new == [profs[p] EXCEPT !.exists = TRUE, !.apps = names]
  <2>1. new \in AppProfile
    BY ObjectFacts DEF AppProfile
  <2>2. profs' = [profs EXCEPT ![p] = new]
    BY <1>7 DEF SetProfile
  <2>. HIDE DEF new
  <2>. QED  BY <1>7, <2>1, <2>2, ProfChangeKeeps DEF SetProfile
<1>8. ASSUME NEW p \in Profiles, DeleteProfile(p)
      PROVE  IndInv'
  BY <1>8, NothingFacts, ProfChangeKeeps DEF DeleteProfile
<1>9. ASSUME NEW a \in Apps, NEW list \in BOOLEAN, CreateApp(a, list)
      PROVE  IndInv'
  <2>1. NewAppset(list) \in ApplicationSet
    BY DEF NewAppset, NoAppset, ApplicationSet
  <2>. QED  BY <1>9, <2>1, AppsetChangeKeeps DEF CreateApp
<1>10. ASSUME NEW a \in Apps, EditApp(a)
       PROVE  IndInv'
  <2>. DEFINE new == [appsets[a] EXCEPT !.body = ~@]
  <2>1. new \in ApplicationSet
    BY ObjectFacts DEF ApplicationSet
  <2>2. appsets' = [appsets EXCEPT ![a] = new]
    BY <1>10 DEF EditApp
  <2>. HIDE DEF new
  <2>. QED  BY <1>10, <2>1, <2>2, AppsetChangeKeeps DEF EditApp
<1>11. ASSUME NEW a \in Apps, DeleteApp(a)
       PROVE  IndInv'
  BY <1>11, NothingFacts, AppsetChangeKeeps DEF DeleteApp
<1>. QED  BY <1>1, <1>2, <1>3, <1>4, <1>5, <1>6, <1>7, <1>8, <1>9, <1>10, <1>11,
             Zenon DEF Users

----------------------------------------------------------------------------
(* The steps *)

LEMMA StutterKeeps ==
    ASSUME IndInv, UNCHANGED vars
    PROVE  IndInv'
<1>1. UNCHANGED <<argo, apps, appsets, profs, cache, pending, queue, mtx, worker,
                  edits, faults>>
  BY DEF vars
<1>2. TypeOK' /\ MutexInv' /\ CacheInv'
  BY <1>1 DEF IndInv, TypeOK, MutexInv, CacheInv
<1>3. \A k \in Kinds : CopyInv(worker'[k], appsets')
  BY <1>1, Zenon DEF IndInv
<1>4. /\ TriggerInv' = TriggerInv
      /\ Awaiting' = Awaiting
      /\ ClustersInSync' = ClustersInSync /\ ProfilesInSync' = ProfilesInSync
      /\ InSync' = InSync
  BY <1>1 DEF TriggerInv, Awaiting, InSync, ClustersInSync, ProfilesInSync,
     AppsInSync, AppsFor
<1>5. EventsTell => TriggerInv /\ SettledInv
  BY Zenon DEF IndInv
<1>6. SettledInv => SettledInv'
  BY <1>1, <1>4, Zenon DEF SettledInv
<1>. QED  BY <1>2, <1>3, <1>4, <1>5, <1>6, Zenon DEF IndInv

LEMMA StepPreserves == IndInv /\ [Next]_vars => IndInv'
<1>. SUFFICES ASSUME IndInv, [Next]_vars
              PROVE  IndInv'
  OBVIOUS
<1>1. ASSUME NEW k \in Kinds, Step(k)
      PROVE  IndInv'
  BY <1>1, LockKeeps, ListArgoClustersKeeps, ListClusterAppsKeeps, ListAppsKeeps,
     ListProfilesKeeps, UpdateArgoClusterKeeps, UpdateProfileStatusKeeps,
     UpdateAppKeeps, LoopEndsKeeps, Zenon DEF Step
<1>. QED  BY <1>1, DeliverKeeps, DequeueKeeps, ResyncKeeps, CrashKeeps, UsersKeep,
             StutterKeeps, Zenon DEF Next

----------------------------------------------------------------------------
(* Results *)

\* The inductive invariant holds in every reachable state.
THEOREM Invariance == Spec => []IndInv
<1>1. Init => IndInv
  BY InitImpliesIndInv
<1>. QED  BY <1>1, StepPreserves, PTL DEF Spec

\* Every variable has its type in every reachable state (the caches, the work
\* queues and the passes of pkg/appprofile).
THEOREM TypeCorrect == Spec => []TypeOK
<1>1. IndInv => TypeOK
  BY DEF IndInv
<1>. QED  BY <1>1, Invariance, PTL

\* When everything has been handled, the annotations in Argo CD, the status of
\* the profiles and the clusters of every app are what the users asked for,
\* provided that all that users change are objects with events that lead to a
\* pass (ReconcileEverything and the three controllers that call it).
THEOREM QuietIsInSync ==
    ASSUME EventsTell
    PROVE  Spec => []QuietMeansInSync
<1>1. IndInv => QuietMeansInSync
  <2>. SUFFICES ASSUME IndInv, Quiet
                PROVE  InSync
    BY DEF QuietMeansInSync
  <2>1. \A k \in Kinds : worker[k].pc = "idle"
    BY IdleFacts, Zenon DEF Quiet
  <2>2. ~Awaiting
    <3>1. \A k \in Kinds : worker[k].pc # "lock"
      BY <2>1
    <3>. QED  BY <3>1, Zenon DEF Awaiting, Quiet
  <2>. QED  BY <2>1, <2>2, Zenon DEF IndInv, SettledInv
<1>. QED  BY <1>1, Invariance, PTL

\* What a pass writes of an app is what the user last wrote, but for its
\* clusters: a copy that was overtaken is refused (cli.Update).
LEMMA UpdateAppKeepsEdits ==
    ASSUME IndInv, NEW k \in Kinds, NEW a \in Apps, UpdateApp(k, a), NEW b \in Apps
    PROVE  /\ appsets'[b].body = appsets[b].body
           /\ appsets'[b].exists = appsets[b].exists
<1>. DEFINE w == worker[k]
            elems == NewElems(w, a)
            new == [w.sets[a] EXCEPT !.elems = elems]
<1>1. w.pc = "apps" /\ InPass(w)
  BY DEF UpdateApp, InPass
<1>2. w \in Worker /\ CopyInv(w, appsets)
  BY <1>1, PassFacts
<1>3. \/ appsets' = appsets
      \/ appsets' = [appsets EXCEPT ![a] = new] /\ <<"appset", a>> \notin w.stale
  BY DEF UpdateApp, Fresh
<1>4. new.body = w.sets[a].body /\ new.exists = w.sets[a].exists
  <2>1. w.sets[a] \in ApplicationSet
    BY <1>2, WorkerFields
  <2>. HIDE DEF elems
  <2>. QED  BY <2>1 DEF ApplicationSet
<1>5. <<"appset", a>> \notin w.stale =>
          w.sets[a].body = appsets[a].body /\ w.sets[a].exists = appsets[a].exists
  BY <1>1, <1>2 DEF CopyInv, LoopPCs
<1>. HIDE DEF new
<1>6. CASE b = a
  BY <1>3, <1>4, <1>5, <1>6, ObjectFacts
<1>7. CASE b # a
  BY <1>3, <1>7, ObjectFacts
<1>. QED  BY <1>6, <1>7

LEMMA UsersEdit ==
    ASSUME IndInv, Users
    PROVE  edits' # edits
<1>1. PICK op \in Ops : Edit(op)
  <2>1. \E op : Edit(op)
    BY Zenon DEF Users, Register, Unregister, AnnotateArgoCluster, CreateClusterApp,
       SetAppProfiles, DeleteClusterApp, SetProfile, DeleteProfile, CreateApp,
       EditApp, DeleteApp
  <2>. QED  BY <2>1 DEF Edit
<1>. QED  BY <1>1, EditsBounded DEF IndInv

\* No step of a controller undoes what a user wrote to an ApplicationSet, nor
\* brings a deleted one back.
THEOREM EditsKept == Spec => UserEditsKept
<1>. DEFINE Kept == \A a \in Apps : edits' = edits =>
                        /\ appsets'[a].body = appsets[a].body
                        /\ appsets'[a].exists = appsets[a].exists
<1>1. IndInv /\ [Next]_vars => [Kept]_vars
  <2>. SUFFICES ASSUME IndInv, Next, NEW b \in Apps, edits' = edits
                PROVE  /\ appsets'[b].body = appsets[b].body
                       /\ appsets'[b].exists = appsets[b].exists
    BY Zenon
  <2>1. CASE UNCHANGED appsets
    BY <2>1
  <2>2. CASE \E k \in Kinds : \E a \in Apps : UpdateApp(k, a)
    BY <2>2, UpdateAppKeepsEdits
  <2>3. CASE Users
    BY <2>3, UsersEdit
  <2>4. \/ UNCHANGED appsets \/ Users
        \/ \E k \in Kinds : \E a \in Apps : UpdateApp(k, a)
    <3>1. ASSUME NEW k \in Kinds, Step(k)
          PROVE  UNCHANGED appsets \/ \E a \in Apps : UpdateApp(k, a)
      <4>1. Lock(k) \/ LoopEnds(k) => UNCHANGED appsets
        BY DEF Lock, LoopEnds, objects
      <4>2. ListArgoClusters(k) \/ ListClusterApps(k) \/ ListApps(k)
              \/ ListProfiles(k) => UNCHANGED appsets
        BY DEF ListArgoClusters, ListClusterApps, ListApps, ListProfiles, Listing,
           objects
      <4>3. \A c \in Clusters : UpdateArgoCluster(k, c) => UNCHANGED appsets
        BY DEF UpdateArgoCluster
      <4>4. \A p \in Profiles : UpdateProfileStatus(k, p) => UNCHANGED appsets
        BY DEF UpdateProfileStatus
      <4>. QED  BY <3>1, <4>1, <4>2, <4>3, <4>4, Zenon DEF Step
    <3>2. \A o \in Keys : Deliver(o) \/ Dequeue(o) => UNCHANGED appsets
      BY DEF Deliver, Dequeue, objects
    <3>3. Resync \/ Crash => UNCHANGED appsets
      BY DEF Resync, Crash, objects
    <3>. QED  BY <3>1, <3>2, <3>3, Zenon DEF Next
  <2>. QED  BY <2>1, <2>2, <2>3, <2>4
<1>2. [][Kept]_vars => UserEditsKept
  BY DEF UserEditsKept
<1>. QED  BY <1>1, <1>2, Invariance, PTL DEF Spec
=============================================================================
