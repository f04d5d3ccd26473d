------------------------- MODULE Gen1CatalogProofs -------------------------
(* Proofs about Gen1Catalog, for every value of its constants. *)
EXTENDS Gen1Catalog, TLAPS

----------------------------------------------------------------------------
(* Facts about the data *)

Ops == {"CreateProfile", "UpdateProfile", "CreateCluster", "UpdateCluster",
        "UpdateSpec"}
Writes == Profile \cup RootApp \cup ClusterSpec

\* The fields of a command, and that it is one.
LEMMA CommandFields ==
    ASSUME NEW cmd \in Command
    PROVE  /\ cmd.op \in Ops
           /\ cmd.on \in Targets
           /\ cmd.step \in {"clone", "push", "apply"}
           /\ cmd.new \in Writes
           /\ cmd.given \in Given
           /\ cmd.tree \in Tree \cup {None}
           /\ cmd.wt \in Branch \cup {None}
           /\ cmd.alone \in BOOLEAN
           /\ cmd # Idle
<1>1. cmd.op \in Ops
  BY DEF Command, Ops
<1>2. cmd.op # "idle"
  BY <1>1 DEF Ops
<1>. QED  BY <1>1, <1>2 DEF Command, Writes, Idle

\* The ways a command in progress changes.
Cloned(cmd, br) == [cmd EXCEPT !.step = "push", !.wt = br]
Pushed(cmd) == [cmd EXCEPT !.step = "apply", !.wt = None]
Joined(cmd) == [cmd EXCEPT !.alone = FALSE]

LEMMA ChangedType ==
    ASSUME NEW cmd \in Command, NEW br \in Branch
    PROVE  /\ Cloned(cmd, br) \in Command
           /\ Pushed(cmd) \in Command
           /\ Joined(cmd) \in Command
<1>1. Cloned(cmd, br) \in Command
  BY DEF Command, Cloned
<1>2. Pushed(cmd) \in Command
  BY DEF Command, Pushed
<1>3. Joined(cmd) \in Command
  BY DEF Command, Joined
<1>. QED  BY <1>1, <1>2, <1>3

LEMMA ChangedFields ==
    ASSUME NEW cmd \in Command, NEW br \in Branch
    PROVE  /\ LET c == Cloned(cmd, br) IN
              /\ c.op = cmd.op /\ c.on = cmd.on /\ c.new = cmd.new
              /\ c.given = cmd.given /\ c.tree = cmd.tree
              /\ c.alone = cmd.alone /\ c.step = "push" /\ c.wt = br
           /\ LET c == Pushed(cmd) IN
              /\ c.op = cmd.op /\ c.on = cmd.on /\ c.new = cmd.new
              /\ c.given = cmd.given /\ c.tree = cmd.tree
              /\ c.alone = cmd.alone /\ c.step = "apply"
           /\ LET c == Joined(cmd) IN
              /\ c.op = cmd.op /\ c.on = cmd.on /\ c.new = cmd.new
              /\ c.given = cmd.given /\ c.tree = cmd.tree
              /\ c.alone = FALSE /\ c.step = cmd.step /\ c.wt = cmd.wt
BY DEF Command, Cloned, Pushed, Joined

\* A command as Start makes it.
NewCommand(op, d, step, new, given, tree, alone) ==
    [op |-> op, on |-> d, step |-> step, new |-> new, given |-> given,
     tree |-> tree, wt |-> None, alone |-> alone]

LEMMA NewCommandType ==
    ASSUME NEW op \in Ops, NEW d \in Targets,
           NEW step \in {"clone", "push", "apply"},
           NEW new \in Writes, NEW given \in Given,
           NEW tree \in Tree \cup {None}, NEW alone \in BOOLEAN
    PROVE  NewCommand(op, d, step, new, given, tree, alone) \in Command
BY DEF NewCommand, Command, Ops, Writes

\* The fields of the other records.
LEMMA ProfileFields ==
    ASSUME NEW prof \in Profile
    PROVE  /\ prof.rv \in Nat
           /\ prof.bundles \in SUBSET Bundles
           /\ prof.dynamic \in BOOLEAN
           /\ prof.overrides \in Overrides
           /\ \A rv \in Nat :
                LET new == [prof EXCEPT !.rv = rv] IN
                /\ new \in Profile /\ new.rv = rv
                /\ new.bundles = prof.bundles /\ new.dynamic = prof.dynamic
                /\ new.overrides = prof.overrides
BY DEF Profile

LEMMA RootAppFields ==
    ASSUME NEW app \in RootApp
    PROVE  /\ app.uid \in Nat /\ app.spec \in Specs /\ app.profile \in Profiles
           /\ \A uid \in Nat :
                LET new == [app EXCEPT !.uid = uid] IN
                new \in RootApp /\ new.profile = app.profile
BY DEF RootApp

LEMMA GivenFields ==
    ASSUME NEW given \in Given
    PROVE  given.bundles \in (SUBSET Bundles) \cup {None}
           /\ given.overrides \in Overrides
BY DEF Given

LEMMA BranchFields ==
    ASSUME NEW br \in Branch
    PROVE  br.rev \in Nat /\ br.tree \in [Dirs -> Tree \cup {None}]
BY DEF Branch

LEMMA TreeFields ==
    ASSUME NEW tree \in Tree
    PROVE  tree.profile \in Profiles /\ tree.ref \in BOOLEAN /\ tree # None
<1>1. tree.profile \in Profiles /\ tree.ref \in BOOLEAN
  BY DEF Tree
<1>2. None \notin Tree
  BY ConstantsAssumption, Zenon
<1>. QED  BY <1>1, <1>2

LEMMA NothingGivenType == NothingGiven \in Given /\ NoOverrides \in Overrides
<1>1. NoOverrides \in Overrides
  BY DEF NoOverrides, Overrides
<1>. QED  BY <1>1 DEF NothingGiven, Given

\* profile/update.go: merging overrides gives overrides.
LEMMA MergedType ==
    ASSUME NEW old \in Overrides, NEW given \in Overrides
    PROVE  /\ Merged(old, given) \in Overrides
           /\ \A b \in Bundles : given[b] # None => Merged(old, given)[b] = given[b]
           /\ \A b \in Bundles : given[b] = None => Merged(old, given)[b] = old[b]
BY DEF Overrides, Merged

\* gitutils/bundles.go: the manifests of existing bundles, one for each.
LEMMA ProcessBundlesFacts ==
    ASSUME bundles \in [Bundles -> Bundle \cup {None}],
           NEW prof \in Profile, prof.bundles \subseteq Existing
    PROVE  /\ ProcessBundles(prof) \in [prof.bundles -> Item]
           /\ \A b \in prof.bundles : ProcessBundles(prof)[b].kind = "dynamic" =>
                 ProcessBundles(prof)[b].value = prof.overrides[b]
<1>1. prof.bundles \subseteq Bundles
         /\ \A b \in prof.bundles : prof.overrides[b] \in Values \cup {None}
  BY DEF Profile, Overrides
<1>2. \A b \in prof.bundles : bundles[b] \in Bundle
  BY DEF Existing
<1>3. \A x \in Bundle : x.kind = "static" => x.data \in Data
  BY DEF Bundle
<1>4. \A d \in Data : [kind |-> "static", value |-> d] \in Item
  BY DEF Item
<1>5. \A v \in Values \cup {None} : [kind |-> "dynamic", value |-> v] \in Item
  BY DEF Item
<1>6. ASSUME NEW b \in prof.bundles
      PROVE  /\ ProcessBundles(prof)[b] \in Item
             /\ ProcessBundles(prof)[b].kind = "dynamic" =>
                  ProcessBundles(prof)[b].value = prof.overrides[b]
  <2>1. CASE bundles[b].kind = "static"
    <3>1. ProcessBundles(prof)[b] = [kind |-> "static", value |-> bundles[b].data]
      BY <2>1 DEF ProcessBundles
    <3>2. [kind |-> "static", value |-> bundles[b].data].kind = "static"
      OBVIOUS
    <3>. QED  BY <1>2, <1>3, <1>4, <2>1, <3>1, <3>2
  <2>2. CASE bundles[b].kind # "static"
    <3>1. ProcessBundles(prof)[b] = [kind |-> "dynamic", value |-> prof.overrides[b]]
      BY <2>2 DEF ProcessBundles
    <3>2. [kind |-> "dynamic", value |-> prof.overrides[b]].value = prof.overrides[b]
      OBVIOUS
    <3>. QED  BY <1>1, <1>5, <3>1, <3>2
  <2>. QED  BY <2>1, <2>2
<1>7. ProcessBundles(prof) \in [prof.bundles -> Item]
  BY <1>6 DEF ProcessBundles
<1>. QED  BY <1>6, <1>7

\* What is generated is a directory.
LEMMA TreeType ==
    ASSUME NEW n \in Profiles, NEW ref \in BOOLEAN, NEW bs \in SUBSET Bundles,
           NEW items \in [bs -> Item]
    PROVE  [profile |-> n, ref |-> ref, items |-> items] \in Tree
BY DEF Tree

\* The directory of a profile (createInGit) is compiled from it.
LEMMA ProfileTreeFacts ==
    ASSUME bundles \in [Bundles -> Bundle \cup {None}],
           NEW n \in Profiles, NEW prof \in Profile,
           prof.bundles \subseteq Existing
    PROVE  /\ ProfileTree(n, prof) \in Tree
           /\ CompiledFrom(ProfileTree(n, prof), prof)
<1>1. prof.bundles \in SUBSET Bundles
  BY ProfileFields
<1>2. ProfileTree(n, prof) \in Tree
  BY <1>1, ProcessBundlesFacts, TreeType DEF ProfileTree
<1>3. ProfileTree(n, prof).items = ProcessBundles(prof)
  BY DEF ProfileTree
<1>4. CompiledFrom(ProfileTree(n, prof), prof)
  BY <1>3, ProcessBundlesFacts DEF CompiledFrom
<1>. QED  BY <1>2, <1>4

\* The directory of a cluster (DeployToGit) comes from the profile it is
\* deployed with, and refers to it if it is dynamic.
LEMMA ClusterTreeFacts ==
    ASSUME bundles \in [Bundles -> Bundle \cup {None}],
           NEW n \in Profiles, NEW prof \in Profile,
           prof.bundles \subseteq Existing
    PROVE  /\ ClusterTree(n, prof) \in Tree
           /\ ClusterTree(n, prof).profile = n
           /\ ClusterTree(n, prof).ref = prof.dynamic
<1>1. prof.bundles \in SUBSET Bundles /\ prof.dynamic \in BOOLEAN
  BY ProfileFields
<1>2. ClusterTree(n, prof) \in Tree
  <2>1. CASE prof.dynamic
    <3>1. <<>> \in [{} -> Item] /\ {} \in SUBSET Bundles
      OBVIOUS
    <3>2. ClusterTree(n, prof) = [profile |-> n, ref |-> prof.dynamic, items |-> <<>>]
      BY <2>1 DEF ClusterTree
    <3>. QED  BY <1>1, <3>1, <3>2, TreeType
  <2>2. CASE ~prof.dynamic
    <3>1. ClusterTree(n, prof) =
             [profile |-> n, ref |-> prof.dynamic, items |-> ProcessBundles(prof)]
      BY <2>2 DEF ClusterTree
    <3>2. ProcessBundles(prof) \in [prof.bundles -> Item]
      BY ProcessBundlesFacts
    <3>. QED  BY <1>1, <3>1, <3>2, TreeType
  <2>. QED  BY <2>1, <2>2
<1>3. /\ ClusterTree(n, prof).profile = n
      /\ ClusterTree(n, prof).ref = prof.dynamic
  BY DEF ClusterTree
<1>. QED  BY <1>2, <1>3

\* The application of a cluster.
LEMMA RootAppType ==
    ASSUME specs \in [Specs -> ClusterSpec \cup {None}],
           NEW uid \in Nat, NEW s \in Specs, NEW n \in Profiles,
           specs[s] # None
    PROVE  /\ ConstructRootApp(uid, s, n) \in RootApp
           /\ ConstructRootApp(uid, s, n).profile = n
<1>1. specs[s].chart \in Charts /\ specs[s].region \in Regions
  BY DEF ClusterSpec
<1>. QED  BY <1>1 DEF ConstructRootApp, RootApp

----------------------------------------------------------------------------
(* What a step does to the commands in progress *)

\* The commands by their state.
LEMMA Commands ==
    ASSUME TypeOK, NEW p \in Procs
    PROVE  /\ proc[p] = Idle \/ proc[p] \in Command
           /\ proc[p] # Idle => proc[p] \in Command
BY DEF TypeOK

\* Only the process p moves, to v.
Moves(p, v) ==
    /\ proc'[p] = v
    /\ \A q \in Procs : q # p => proc'[q] = proc[q]
    /\ DOMAIN proc' = Procs

LEMMA MovesType ==
    ASSUME TypeOK, NEW p \in Procs, NEW v \in Command \cup {Idle}, Moves(p, v),
           proc' = [q \in Procs |-> proc'[q]]
    PROVE  proc' \in [Procs -> Command \cup {Idle}]
BY DEF TypeOK, Moves

LEMMA CloneMoves ==
    ASSUME TypeOK, NEW p \in Procs, CloneRepo(p)
    PROVE  /\ proc[p] \in Command /\ proc[p].step = "clone"
           /\ Moves(p, Cloned(proc[p], branch))
           /\ proc' \in [Procs -> Command \cup {Idle}]
           /\ UNCHANGED <<bundles, profiles, specs, apps, branch, etcd, acked,
                          settled, commands>>
<1>1. proc[p] \in Command /\ proc[p].step = "clone"
  BY Commands DEF CloneRepo
<1>2. proc' = [proc EXCEPT ![p] = Cloned(proc[p], branch)]
  BY DEF CloneRepo, Cloned
<1>3. Cloned(proc[p], branch) \in Command
  BY <1>1, ChangedType DEF TypeOK
<1>4. proc \in [Procs -> Command \cup {Idle}]
  BY DEF TypeOK
<1>5. Moves(p, Cloned(proc[p], branch))
  BY <1>2, <1>4 DEF Moves
<1>6. proc' \in [Procs -> Command \cup {Idle}]
  BY <1>2, <1>3, <1>4
<1>. QED  BY <1>1, <1>5, <1>6 DEF CloneRepo

\* A command that ends, with or without success.
LEMMA EndMoves ==
    ASSUME TypeOK, NEW p \in Procs, proc' = [proc EXCEPT ![p] = Idle]
    PROVE  Moves(p, Idle) /\ proc' \in [Procs -> Command \cup {Idle}]
BY DEF TypeOK, Moves

\* What an accepted push does, knowing that the clone is the branch.
LEMMA PushMoves ==
    ASSUME TypeOK, NEW p \in Procs, Push(p), FastForward(p)
    PROVE  /\ proc[p] \in Command /\ proc[p].step = "push"
           /\ Moves(p, Pushed(proc[p]))
           /\ proc' \in [Procs -> Command \cup {Idle}]
           /\ branch'.rev = branch.rev + 1
           /\ branch'.tree = [proc[p].wt.tree EXCEPT ![proc[p].on] = proc[p].tree]
           /\ branch' = [rev |-> branch'.rev, tree |-> branch'.tree]
           /\ settled' = [settled EXCEPT ![proc[p].on] = FALSE]
           /\ UNCHANGED <<bundles, profiles, specs, apps, etcd, acked, commands>>
<1>1. proc[p] \in Command /\ proc[p].step = "push"
  BY Commands DEF Push
<1>2. proc' = [proc EXCEPT ![p] = Pushed(proc[p])]
  BY DEF Push, Pushed
<1>3. Pushed(proc[p]) \in Command
  BY <1>1, ChangedType DEF TypeOK
<1>4. proc \in [Procs -> Command \cup {Idle}]
  BY DEF TypeOK
<1>5. Moves(p, Pushed(proc[p]))
  BY <1>2, <1>4 DEF Moves
<1>6. proc' \in [Procs -> Command \cup {Idle}]
  BY <1>2, <1>3, <1>4
<1>7. branch' = [rev |-> branch.rev + 1,
                 tree |-> Written(proc[p].wt.tree, proc[p].on, proc[p].tree)]
  BY DEF Push
<1>8. /\ branch'.rev = branch.rev + 1
      /\ branch'.tree = Written(proc[p].wt.tree, proc[p].on, proc[p].tree)
      /\ branch' = [rev |-> branch'.rev, tree |-> branch'.tree]
  BY <1>7
<1>. QED  BY <1>1, <1>5, <1>6, <1>8 DEF Push, Written

\* A refused push ends the command.
LEMMA RefusedMoves ==
    ASSUME TypeOK, NEW p \in Procs, Push(p), ~FastForward(p)
    PROVE  /\ Moves(p, Idle) /\ proc' \in [Procs -> Command \cup {Idle}]
           /\ UNCHANGED <<bundles, profiles, specs, apps, branch, etcd, acked,
                          settled, commands>>
<1>1. proc' = [proc EXCEPT ![p] = Idle]
  BY DEF Push
<1>. QED  BY <1>1, EndMoves DEF Push

\* A command that begins joins the ones about the same thing.
LEMMA StartMoves ==
    ASSUME TypeOK, NEW p \in Procs, NEW op, NEW d, NEW step, NEW new,
           NEW given, NEW tree,
           Start(p, op, d, step, new, given, tree)
    PROVE  /\ proc[p] = Idle
           /\ proc'[p] = NewCommand(op, d, step, new, given, tree, Active(d) = {})
           /\ \A q \in Procs : q # p =>
                 \/ proc'[q] = proc[q] /\ (proc[q] = Idle \/ proc[q].on # d)
                 \/ /\ proc'[q] = Joined(proc[q])
                    /\ proc[q] \in Command /\ proc[q].on = d
           /\ DOMAIN proc' = Procs
           /\ proc' = [q \in Procs |-> proc'[q]]
           /\ UNCHANGED <<bundles, profiles, specs, apps, branch, etcd, acked,
                          settled>>
           /\ commands' \in 0..MaxCommands
<1>. DEFINE new0 == NewCommand(op, d, step, new, given, tree, Active(d) = {})
<1>1. proc' = [q \in Procs |->
           IF q = p THEN new0
           ELSE IF q \in Active(d) THEN Joined(proc[q]) ELSE proc[q]]
  BY DEF Start, Joined, NewCommand
<1>. HIDE DEF new0
<1>2. \A q \in Active(d) : proc[q] \in Command /\ proc[q].on = d
  BY Commands DEF Active
<1>3. \A q \in Procs \ Active(d) : proc[q] = Idle \/ proc[q].on # d
  BY DEF Active
<1>4. commands' \in 0..MaxCommands
  BY ConstantsAssumption DEF Start, OneMore, TypeOK
<1>5. proc[p] = Idle /\ UNCHANGED <<bundles, profiles, specs, apps, branch,
                                    etcd, acked, settled>>
  BY DEF Start
<1>6. proc'[p] = new0 /\ DOMAIN proc' = Procs
         /\ proc' = [q \in Procs |-> proc'[q]]
  BY <1>1
<1>7. \A q \in Procs : q # p =>
         \/ proc'[q] = proc[q] /\ (proc[q] = Idle \/ proc[q].on # d)
         \/ proc'[q] = Joined(proc[q]) /\ proc[q] \in Command /\ proc[q].on = d
  BY <1>1, <1>2, <1>3
<1>. QED  BY <1>4, <1>5, <1>6, <1>7 DEF new0

\* If what begins is a command, the processes keep their type.
LEMMA StartType ==
    ASSUME TypeOK, NEW p \in Procs, NEW op \in Ops, NEW d \in Targets,
           NEW step \in {"clone", "push", "apply"},
           NEW new \in Writes, NEW given \in Given,
           NEW tree \in Tree \cup {None},
           Start(p, op, d, step, new, given, tree)
    PROVE  TypeOK'
<1>1. proc'[p] \in Command
  <2>1. proc'[p] = NewCommand(op, d, step, new, given, tree, Active(d) = {})
    BY StartMoves
  <2>2. (Active(d) = {}) \in BOOLEAN
    OBVIOUS
  <2>3. \A alone \in BOOLEAN :
           NewCommand(op, d, step, new, given, tree, alone) \in Command
    BY NewCommandType
  <2>. QED  BY <2>1, <2>2, <2>3, Zenon
<1>2. \A q \in Procs : proc'[q] \in Command \cup {Idle}
  <2>1. \A q \in Procs : proc[q] \in Command \cup {Idle}
    BY DEF TypeOK
  <2>2. \A q \in Procs : proc[q] \in Command => Joined(proc[q]) \in Command
    BY ChangedType DEF TypeOK
  <2>. QED  BY <1>1, <2>1, <2>2, StartMoves
<1>3. proc' = [q \in Procs |-> proc'[q]]
  BY StartMoves
<1>4. proc' \in [Procs -> Command \cup {Idle}]
  BY <1>2, <1>3
<1>5. /\ commands' \in 0..MaxCommands
      /\ UNCHANGED <<bundles, profiles, specs, apps, branch, etcd, acked,
                     settled>>
  BY StartMoves
<1>. QED  BY <1>4, <1>5 DEF TypeOK

----------------------------------------------------------------------------
(* What a command knows when it begins *)

\* The commands in progress under the invariant.
LEMMA InProgress ==
    ASSUME IndInv, NEW p \in Procs, proc[p] # Idle
    PROVE  /\ proc[p] \in Command
           /\ CommandInv(proc[p], branch, profiles, etcd)
BY Commands DEF IndInv, CommandsInv

\* The variables under the invariant.
LEMMA StateTypes ==
    ASSUME IndInv
    PROVE  /\ bundles \in [Bundles -> Bundle \cup {None}]
           /\ specs \in [Specs -> ClusterSpec \cup {None}]
           /\ profiles \in [Profiles -> Profile \cup {None}]
           /\ apps \in [Clusters -> RootApp \cup {None}]
           /\ branch \in Branch
           /\ branch.rev \in Nat /\ branch.tree \in [Dirs -> Tree \cup {None}]
           /\ etcd \in Nat
           /\ acked \in [Profiles -> Given]
           /\ settled \in [Dirs -> BOOLEAN]
           /\ \A n \in Profiles : profiles[n] # None =>
                 profiles[n] \in Profile /\ profiles[n].rv <= etcd
           /\ \A c \in Clusters : apps[c] # None => apps[c] \in RootApp
BY BranchFields DEF IndInv, TypeOK, VersionsInv

Begins(p) ==
    \E op \in Ops, d \in Targets, step \in {"clone", "apply"}, new \in Writes,
       given \in Given, tree \in Tree \cup {None} :
        /\ Start(p, op, d, step, new, given, tree)
        /\ \A alone \in BOOLEAN :
              CommandInv(NewCommand(op, d, step, new, given, tree, alone),
                         branch, profiles, etcd)

\* The invariant of a new command from what it was started with.
LEMMA BeginProfile ==
    ASSUME NEW op \in ProfileOps, NEW n \in Profiles,
           NEW step \in {"clone", "apply"}, NEW new \in Profile,
           NEW given, NEW tree, NEW alone,
           step = "clone" => tree \in Tree /\ CompiledFrom(tree, new),
           step = "apply" => ~new.dynamic,
           op = "CreateProfile" => /\ new.bundles = given.bundles
                                   /\ new.overrides = given.overrides,
           op = "UpdateProfile" =>
                /\ new.rv <= etcd
                /\ given.bundles = None => new.bundles = profiles[n].bundles
                /\ given.bundles # None => new.bundles = given.bundles
                /\ new.overrides = Merged(profiles[n].overrides, given.overrides)
    PROVE  CommandInv(NewCommand(op, n, step, new, given, tree, alone),
                      branch, profiles, etcd)
<1>. DEFINE cmd == NewCommand(op, n, step, new, given, tree, alone)
<1>1. /\ cmd.op = op /\ cmd.on = n /\ cmd.step = step /\ cmd.new = new
      /\ cmd.given = given /\ cmd.tree = tree
  BY DEF NewCommand
<1>. HIDE DEF cmd
<1>2. op \notin ClusterOps /\ op # "UpdateSpec" /\ step # "push"
  BY DEF ProfileOps, ClusterOps
<1>3. WellFormed(cmd)
  BY <1>1, <1>2 DEF WellFormed, BeforePush
<1>4. CloneInv(cmd, branch) /\ ReferenceInv(cmd, branch)
  BY <1>1, <1>2 DEF CloneInv, ReferenceInv
<1>5. PushedInv(cmd, branch)
  BY <1>1, <1>2 DEF PushedInv
<1>6. ReadInv(cmd, profiles, etcd)
  BY <1>1 DEF ReadInv
<1>. QED  BY <1>3, <1>4, <1>5, <1>6 DEF CommandInv, cmd

LEMMA BeginCluster ==
    ASSUME NEW op \in ClusterOps, NEW c \in Clusters, NEW new \in RootApp,
           NEW given, NEW tree \in Tree, NEW alone,
           tree.profile = new.profile,
           tree.ref => branch.tree[tree.profile] # None
    PROVE  CommandInv(NewCommand(op, c, "clone", new, given, tree, alone),
                      branch, profiles, etcd)
<1>. DEFINE cmd == NewCommand(op, c, "clone", new, given, tree, alone)
<1>1. /\ cmd.op = op /\ cmd.on = c /\ cmd.step = "clone" /\ cmd.new = new
      /\ cmd.tree = tree
  BY DEF NewCommand
<1>. HIDE DEF cmd
<1>2. op \notin ProfileOps /\ op # "UpdateSpec"
         /\ op # "CreateProfile" /\ op # "UpdateProfile"
  BY DEF ProfileOps, ClusterOps
<1>3. WellFormed(cmd)
  BY <1>1, <1>2 DEF WellFormed, BeforePush
<1>4. CloneInv(cmd, branch) /\ ReferenceInv(cmd, branch)
  BY <1>1 DEF CloneInv, ReferenceInv
<1>5. PushedInv(cmd, branch)
  BY <1>1 DEF PushedInv
<1>6. ReadInv(cmd, profiles, etcd)
  BY <1>1, <1>2 DEF ReadInv
<1>. QED  BY <1>3, <1>4, <1>5, <1>6 DEF CommandInv, cmd

\* profile.Create
LEMMA CreateProfileBegins ==
    ASSUME IndInv, NEW p \in Procs, NEW n \in Profiles, NEW given \in Requests,
           NEW dynamic \in BOOLEAN, CreateProfile(p, n, given, dynamic)
    PROVE  Begins(p)
<1>. DEFINE new == [rv |-> 0, bundles |-> given.bundles, dynamic |-> dynamic,
                    overrides |-> given.overrides]
<1>1. given \in Given
  BY ConstantsAssumption
<1>2. given.bundles \in SUBSET Bundles /\ given.bundles \subseteq Existing
  BY <1>1, GivenFields DEF CreateProfile
<1>3. new \in Profile
  BY <1>1, <1>2, GivenFields DEF Profile
<1>4. /\ new.bundles = given.bundles /\ new.overrides = given.overrides
      /\ new.dynamic = dynamic
  OBVIOUS
<1>5. IF dynamic
      THEN Start(p, "CreateProfile", n, "clone", new, given, ProfileTree(n, new))
      ELSE Start(p, "CreateProfile", n, "apply", new, given, None)
  BY DEF CreateProfile
<1>. HIDE DEF new
<1>6. n \in Targets /\ new \in Writes /\ "CreateProfile" \in Ops
         /\ "CreateProfile" \in ProfileOps
  BY <1>3 DEF Targets, Dirs, Writes, Ops, ProfileOps
<1>7. CASE dynamic
  <2>. DEFINE tree == ProfileTree(n, new)
  <2>1. tree \in Tree /\ CompiledFrom(tree, new)
    BY <1>2, <1>3, <1>4, StateTypes, ProfileTreeFacts
  <2>. HIDE DEF tree
  <2>2. \A alone : CommandInv(NewCommand("CreateProfile", n, "clone", new,
                                         given, tree, alone),
                              branch, profiles, etcd)
    BY <1>3, <1>4, <1>6, <2>1, BeginProfile
  <2>3. Start(p, "CreateProfile", n, "clone", new, given, tree)
    BY <1>5, <1>7 DEF tree
  <2>. QED  BY <1>1, <1>6, <2>1, <2>2, <2>3 DEF Begins
<1>8. CASE ~dynamic
  <2>1. \A alone : CommandInv(NewCommand("CreateProfile", n, "apply", new,
                                         given, None, alone),
                              branch, profiles, etcd)
    BY <1>3, <1>4, <1>6, <1>8, BeginProfile
  <2>. QED  BY <1>1, <1>5, <1>6, <1>8, <2>1 DEF Begins
<1>. QED  BY <1>7, <1>8

\* profile.Update
LEMMA UpdateProfileBegins ==
    ASSUME IndInv, NEW p \in Procs, NEW n \in Profiles, NEW given \in Requests,
           UpdateProfile(p, n, given)
    PROVE  Begins(p)
<1>. DEFINE old == profiles[n]
            new == [old EXCEPT
                       !.bundles = IF given.bundles = None THEN @
                                   ELSE given.bundles,
                       !.overrides = Merged(@, given.overrides)]
<1>1. given \in Given
  BY ConstantsAssumption
<1>2. old \in Profile /\ old.rv <= etcd
  BY StateTypes DEF UpdateProfile
<1>3. given.bundles # None => given.bundles \in SUBSET Bundles
  BY <1>1, GivenFields
<1>4. Merged(old.overrides, given.overrides) \in Overrides
  BY <1>1, <1>2, GivenFields, ProfileFields, MergedType
<1>5. new \in Profile
  BY <1>2, <1>3, <1>4 DEF Profile
<1>6. /\ new.rv = old.rv /\ new.dynamic = old.dynamic
      /\ given.bundles = None => new.bundles = old.bundles
      /\ given.bundles # None => new.bundles = given.bundles
      /\ new.overrides = Merged(old.overrides, given.overrides)
  BY <1>2 DEF Profile
<1>7. /\ old.dynamic => new.bundles \subseteq Existing
      /\ IF old.dynamic
         THEN Start(p, "UpdateProfile", n, "clone", new, given, ProfileTree(n, new))
         ELSE Start(p, "UpdateProfile", n, "apply", new, given, None)
  BY DEF UpdateProfile
<1>. HIDE DEF new
<1>8. n \in Targets /\ new \in Writes /\ "UpdateProfile" \in Ops
         /\ "UpdateProfile" \in ProfileOps
  BY <1>5 DEF Targets, Dirs, Writes, Ops, ProfileOps
<1>9. new.rv <= etcd
  BY <1>2, <1>6
<1>10. CASE old.dynamic
  <2>. DEFINE tree == ProfileTree(n, new)
  <2>1. tree \in Tree /\ CompiledFrom(tree, new)
    BY <1>5, <1>7, <1>10, StateTypes, ProfileTreeFacts
  <2>. HIDE DEF tree
  <2>2. \A alone : CommandInv(NewCommand("UpdateProfile", n, "clone", new,
                                         given, tree, alone),
                              branch, profiles, etcd)
    BY <1>5, <1>6, <1>8, <1>9, <2>1, BeginProfile
  <2>3. Start(p, "UpdateProfile", n, "clone", new, given, tree)
    BY <1>7, <1>10 DEF tree
  <2>. QED  BY <1>1, <1>8, <2>1, <2>2, <2>3 DEF Begins
<1>11. CASE ~old.dynamic
  <2>1. \A alone : CommandInv(NewCommand("UpdateProfile", n, "apply", new,
                                         given, None, alone),
                              branch, profiles, etcd)
    BY <1>5, <1>6, <1>8, <1>9, <1>11, BeginProfile
  <2>. QED  BY <1>1, <1>7, <1>8, <1>11, <2>1 DEF Begins
<1>. QED  BY <1>10, <1>11

\* cluster.Create and cluster.Update
LEMMA ClusterBegins ==
    ASSUME IndInv, NEW p \in Procs, NEW c \in Clusters, NEW s \in Specs,
           NEW n \in Profiles,
           CreateCluster(p, c, s, n) \/ UpdateCluster(p, c, s, n)
    PROVE  Begins(p)
<1>. DEFINE tree == ClusterTree(n, profiles[n])
<1>1. /\ profiles[n] # None /\ specs[s] # None
      /\ profiles[n].bundles \subseteq Existing
  BY DEF CreateCluster, UpdateCluster
<1>2. profiles[n] \in Profile
  BY <1>1, StateTypes
<1>3. tree \in Tree /\ tree.profile = n /\ tree.ref = profiles[n].dynamic
  BY <1>1, <1>2, StateTypes, ClusterTreeFacts
<1>4. tree.ref => branch.tree[tree.profile] # None
  BY <1>1, <1>3 DEF IndInv, NothingDangles, ResourceHasTree
<1>5. PICK op \in ClusterOps, uid \in Nat :
         Start(p, op, c, "clone", ConstructRootApp(uid, s, n), NothingGiven, tree)
  <2>1. CASE CreateCluster(p, c, s, n)
    BY <2>1 DEF CreateCluster, ClusterOps
  <2>2. CASE UpdateCluster(p, c, s, n)
    <3>1. apps[c].uid \in Nat
      BY <2>2, StateTypes, RootAppFields DEF UpdateCluster
    <3>. QED  BY <2>2, <3>1 DEF UpdateCluster, ClusterOps
  <2>. QED  BY <2>1, <2>2
<1>. DEFINE new == ConstructRootApp(uid, s, n)
<1>6. new \in RootApp /\ new.profile = n
  BY <1>1, StateTypes, RootAppType
<1>. HIDE DEF tree, new
<1>7. c \in Targets /\ new \in Writes /\ op \in Ops
  BY <1>6 DEF Targets, Dirs, Writes, Ops, ClusterOps
<1>8. \A alone : CommandInv(NewCommand(op, c, "clone", new, NothingGiven,
                                       tree, alone),
                            branch, profiles, etcd)
  BY <1>3, <1>4, <1>6, BeginCluster
<1>9. Start(p, op, c, "clone", new, NothingGiven, tree)
  BY <1>5 DEF new
<1>. QED  BY <1>3, <1>7, <1>8, <1>9, NothingGivenType DEF Begins

\* clusterspec.Update
LEMMA UpdateSpecBegins ==
    ASSUME IndInv, NEW p \in Procs, NEW s \in Specs, UpdateSpec(p, s)
    PROVE  Begins(p)
<1>. DEFINE new == specs[s]
<1>1. new \in ClusterSpec
  BY StateTypes DEF UpdateSpec
<1>2. s \in Targets /\ new \in Writes /\ "UpdateSpec" \in Ops
  BY <1>1 DEF Targets, Writes, Ops
<1>3. Start(p, "UpdateSpec", s, "apply", new, NothingGiven, None)
  BY DEF UpdateSpec
<1>. HIDE DEF new
<1>4. ASSUME NEW alone
      PROVE  CommandInv(NewCommand("UpdateSpec", s, "apply", new, NothingGiven,
                                   None, alone), branch, profiles, etcd)
  <2>. DEFINE cmd == NewCommand("UpdateSpec", s, "apply", new, NothingGiven,
                                None, alone)
  <2>1. /\ cmd.op = "UpdateSpec" /\ cmd.on = s /\ cmd.step = "apply"
        /\ cmd.new = new
    BY DEF NewCommand
  <2>. HIDE DEF cmd
  <2>2. WellFormed(cmd)
    BY <1>1, <2>1 DEF WellFormed, BeforePush, ProfileOps, ClusterOps
  <2>3. /\ CloneInv(cmd, branch) /\ ReferenceInv(cmd, branch)
        /\ PushedInv(cmd, branch) /\ ReadInv(cmd, profiles, etcd)
    BY <2>1 DEF CloneInv, ReferenceInv, PushedInv, ReadInv, BeforePush,
                ProfileOps, ClusterOps
  <2>. QED  BY <2>2, <2>3 DEF CommandInv, cmd
<1>. QED  BY <1>2, <1>3, <1>4, NothingGivenType DEF Begins

\* Every command.
LEMMA RunBegins ==
    ASSUME IndInv, NEW p \in Procs, Run(p)
    PROVE  Begins(p)
BY CreateProfileBegins, UpdateProfileBegins, ClusterBegins, UpdateSpecBegins
   DEF Run

----------------------------------------------------------------------------
(* What a command in progress keeps while others make their steps *)

\* The same command, perhaps joined by another one.
SameCommand(a, b) ==
    /\ b.op = a.op /\ b.on = a.on /\ b.step = a.step /\ b.new = a.new
    /\ b.given = a.given /\ b.tree = a.tree /\ b.wt = a.wt
    /\ b.alone => a.alone

LEMMA SameKeeps ==
    ASSUME NEW a, NEW b, SameCommand(a, b), NEW br, NEW profs, NEW rev,
           CommandInv(a, br, profs, rev)
    PROVE  CommandInv(b, br, profs, rev)
<1>1. WellFormed(b)
  BY DEF SameCommand, CommandInv, WellFormed, BeforePush
<1>2. CloneInv(b, br)
  BY DEF SameCommand, CommandInv, CloneInv
<1>3. ReferenceInv(b, br)
  BY DEF SameCommand, CommandInv, ReferenceInv, BeforePush
<1>4. PushedInv(b, br)
  BY DEF SameCommand, CommandInv, PushedInv
<1>5. ReadInv(b, profs, rev)
  BY DEF SameCommand, CommandInv, ReadInv
<1>. QED  BY <1>1, <1>2, <1>3, <1>4, <1>5 DEF CommandInv

\* A branch that only grows, and leaves the directory of a command alone that
\* is alone, keeps what the command knows.
LEMMA BranchKeeps ==
    ASSUME NEW cmd \in Command, NEW br \in Branch, NEW br2 \in Branch,
           NEW profs, NEW rev, CommandInv(cmd, br, profs, rev),
           br.rev <= br2.rev,
           br2.rev = br.rev => br2.tree = br.tree,
           \A d \in Dirs : br.tree[d] # None => br2.tree[d] # None,
           cmd.alone /\ cmd.on \in Dirs => br2.tree[cmd.on] = br.tree[cmd.on]
    PROVE  CommandInv(cmd, br2, profs, rev)
<1>1. CloneInv(cmd, br2)
  <2>. SUFFICES ASSUME cmd.step = "push"
                PROVE  /\ cmd.wt \in Branch
                       /\ cmd.wt.rev <= br2.rev
                       /\ cmd.wt.rev = br2.rev => cmd.wt.tree = br2.tree
    BY DEF CloneInv
  <2>1. /\ cmd.wt \in Branch /\ cmd.wt.rev <= br.rev
        /\ cmd.wt.rev = br.rev => cmd.wt.tree = br.tree
    BY DEF CommandInv, CloneInv
  <2>2. cmd.wt.rev \in Nat /\ br.rev \in Nat /\ br2.rev \in Nat
    BY <2>1, BranchFields
  <2>3. cmd.wt.rev <= br2.rev /\ (cmd.wt.rev = br2.rev => br2.rev = br.rev)
    BY <2>1, <2>2
  <2>. QED  BY <2>1, <2>3
<1>2. ReferenceInv(cmd, br2)
  <2>. SUFFICES ASSUME BeforePush(cmd), cmd.op \in ClusterOps, cmd.tree.ref
                PROVE  br2.tree[cmd.tree.profile] # None
    BY DEF ReferenceInv
  <2>1. cmd.tree \in Tree /\ br.tree[cmd.tree.profile] # None
    BY DEF CommandInv, WellFormed, ReferenceInv
  <2>2. cmd.tree.profile \in Dirs
    BY <2>1, TreeFields DEF Dirs
  <2>. QED  BY <2>1, <2>2
<1>3. PushedInv(cmd, br2)
  <2>1. cmd.op \in ProfileOps \/ cmd.op \in ClusterOps => cmd.on \in Dirs
    BY DEF CommandInv, WellFormed, Dirs
  <2>. QED  BY <2>1 DEF CommandInv, PushedInv
<1>. QED  BY <1>1, <1>2, <1>3 DEF CommandInv

\* A profile that is deleted or written gets a version that no command has
\* read.
LEMMA ProfilesKeep ==
    ASSUME NEW cmd \in Command, NEW br, NEW profs, NEW profs2,
           NEW rev \in Nat, NEW rev2 \in Nat,
           CommandInv(cmd, br, profs, rev),
           rev <= rev2,
           \A n \in Profiles : \/ profs2[n] = profs[n]
                               \/ profs2[n] = None
                               \/ profs2[n].rv = rev + 1
    PROVE  CommandInv(cmd, br, profs2, rev2)
<1>1. ReadInv(cmd, profs2, rev2)
  <2>1. CASE cmd.op # "UpdateProfile"
    BY <2>1 DEF CommandInv, ReadInv
  <2>2. CASE cmd.op = "UpdateProfile"
    <3>1. cmd.on \in Profiles /\ cmd.new \in Profile /\ cmd.new.rv <= rev
      BY <2>2 DEF CommandInv, ReadInv, WellFormed, ProfileOps
    <3>2. cmd.new.rv \in Nat
      BY <3>1, ProfileFields
    <3>3. cmd.new.rv <= rev2 /\ cmd.new.rv # rev + 1
      BY <3>1, <3>2
    <3>4. CASE profs2[cmd.on] = profs[cmd.on]
      BY <2>2, <3>3, <3>4 DEF CommandInv, ReadInv
    <3>5. CASE profs2[cmd.on] = None \/ profs2[cmd.on].rv = rev + 1
      BY <2>2, <3>3, <3>5 DEF ReadInv
    <3>. QED  BY <3>1, <3>4, <3>5
  <2>. QED  BY <2>1, <2>2
<1>. QED  BY <1>1 DEF CommandInv

----------------------------------------------------------------------------
(* The steps that change the branch and the resources *)

\* An accepted push replaces the directory of its command and no other.
LEMMA PushFacts ==
    ASSUME IndInv, NEW p \in Procs, Push(p), FastForward(p)
    PROVE  /\ proc[p].on \in Dirs /\ proc[p].tree \in Tree
           /\ branch' \in Branch /\ branch'.rev = branch.rev + 1
           /\ branch'.tree[proc[p].on] = proc[p].tree
           /\ \A d \in Dirs : d # proc[p].on => branch'.tree[d] = branch.tree[d]
           /\ \A d \in Dirs : branch.tree[d] # None => branch'.tree[d] # None
<1>0. TypeOK
  BY DEF IndInv
<1>1. proc[p] \in Command /\ proc[p].step = "push"
         /\ CommandInv(proc[p], branch, profiles, etcd)
  BY <1>0, PushMoves, InProgress, CommandFields
<1>2. proc[p].tree \in Tree /\ proc[p].op # "UpdateSpec"
  BY <1>1 DEF CommandInv, WellFormed, BeforePush
<1>3. proc[p].on \in Dirs
  BY <1>1, <1>2, CommandFields
     DEF CommandInv, WellFormed, Ops, ProfileOps, ClusterOps, Dirs
<1>4. proc[p].wt.tree = branch.tree
  BY <1>1 DEF CommandInv, CloneInv, FastForward
<1>5. /\ branch'.tree = [branch.tree EXCEPT ![proc[p].on] = proc[p].tree]
      /\ branch'.rev = branch.rev + 1
      /\ branch' = [rev |-> branch'.rev, tree |-> branch'.tree]
  BY <1>0, <1>4, PushMoves
<1>6. /\ branch.rev \in Nat
      /\ branch.tree \in [Dirs -> Tree \cup {None}]
  BY StateTypes
<1>7. branch'.rev \in Nat
  BY <1>5, <1>6
<1>8. branch'.tree \in [Dirs -> Tree \cup {None}]
  BY <1>2, <1>5, <1>6
<1>9. branch' \in Branch
  BY <1>5, <1>7, <1>8 DEF Branch
<1>10. /\ branch'.tree[proc[p].on] = proc[p].tree
       /\ \A d \in Dirs : d # proc[p].on => branch'.tree[d] = branch.tree[d]
  BY <1>3, <1>5, <1>6
<1>11. proc[p].tree # None
  BY <1>2, TreeFields
<1>. QED  BY <1>2, <1>3, <1>5, <1>9, <1>10, <1>11

\* The write that ends a command about a profile.
LEMMA ProfileApplies ==
    ASSUME IndInv, NEW p \in Procs,
           ApplyCreateProfile(p) \/ ApplyUpdateProfile(p)
    PROVE  /\ Moves(p, Idle) /\ proc' \in [Procs -> Command \cup {Idle}]
           /\ proc[p] \in Command /\ proc[p].step = "apply"
           /\ CommandInv(proc[p], branch, profiles, etcd)
           /\ proc[p].op \in ProfileOps /\ proc[p].on \in Profiles
           /\ [proc[p].new EXCEPT !.rv = etcd + 1] \in Profile
           /\ UNCHANGED <<bundles, specs, apps, branch, commands>>
           /\ \/ UNCHANGED <<profiles, etcd, acked, settled>>
              \/ /\ profiles' = [profiles EXCEPT
                       ![proc[p].on] = [proc[p].new EXCEPT !.rv = etcd + 1]]
                 /\ etcd' = etcd + 1
                 /\ settled' = [settled EXCEPT ![proc[p].on] = proc[p].alone]
                 /\ \/ /\ proc[p].op = "CreateProfile"
                       /\ acked' = [acked EXCEPT ![proc[p].on] = proc[p].given]
                    \/ /\ proc[p].op = "UpdateProfile"
                       /\ SameVersion(p)
                       /\ acked' = [acked EXCEPT ![proc[p].on] =
                             Acknowledged(acked[proc[p].on], proc[p].given)]
<1>0. TypeOK
  BY DEF IndInv
<1>1. /\ proc[p] # Idle /\ proc[p].step = "apply"
      /\ proc[p].op \in ProfileOps
      /\ proc' = [proc EXCEPT ![p] = Idle]
      /\ UNCHANGED <<bundles, specs, apps, branch, commands>>
  BY DEF ApplyCreateProfile, ApplyUpdateProfile, Applies, ProfileOps
<1>2. proc[p] \in Command /\ CommandInv(proc[p], branch, profiles, etcd)
  BY <1>1, InProgress
<1>3. proc[p].on \in Profiles /\ proc[p].new \in Profile
  BY <1>1, <1>2 DEF CommandInv, WellFormed
<1>4. etcd + 1 \in Nat
  BY StateTypes
<1>5. [proc[p].new EXCEPT !.rv = etcd + 1] \in Profile
  BY <1>3, <1>4, ProfileFields
<1>6. Moves(p, Idle) /\ proc' \in [Procs -> Command \cup {Idle}]
  BY <1>0, <1>1, EndMoves
<1>7. \/ UNCHANGED <<profiles, etcd, acked, settled>>
      \/ /\ profiles' = [profiles EXCEPT
               ![proc[p].on] = [proc[p].new EXCEPT !.rv = etcd + 1]]
         /\ etcd' = etcd + 1
         /\ settled' = [settled EXCEPT ![proc[p].on] = proc[p].alone]
         /\ \/ /\ proc[p].op = "CreateProfile"
               /\ acked' = [acked EXCEPT ![proc[p].on] = proc[p].given]
            \/ /\ proc[p].op = "UpdateProfile"
               /\ SameVersion(p)
               /\ acked' = [acked EXCEPT ![proc[p].on] =
                     Acknowledged(acked[proc[p].on], proc[p].given)]
  BY DEF ApplyCreateProfile, ApplyUpdateProfile, Applies
<1>. QED  BY <1>1, <1>2, <1>3, <1>5, <1>6, <1>7

\* The write that ends a command about a cluster.
LEMMA ClusterApplies ==
    ASSUME IndInv, NEW p \in Procs,
           ApplyCreateCluster(p) \/ ApplyUpdateCluster(p)
    PROVE  /\ Moves(p, Idle) /\ proc' \in [Procs -> Command \cup {Idle}]
           /\ proc[p] \in Command /\ proc[p].step = "apply"
           /\ CommandInv(proc[p], branch, profiles, etcd)
           /\ proc[p].op \in ClusterOps /\ proc[p].on \in Clusters
           /\ UNCHANGED <<bundles, profiles, specs, branch, acked, commands>>
           /\ etcd' \in {etcd, etcd + 1}
           /\ \/ UNCHANGED <<apps, settled>>
              \/ \E uid \in Nat :
                    /\ [proc[p].new EXCEPT !.uid = uid] \in RootApp
                    /\ apps' = [apps EXCEPT
                          ![proc[p].on] = [proc[p].new EXCEPT !.uid = uid]]
                    /\ settled' = [settled EXCEPT ![proc[p].on] = proc[p].alone]
<1>0. TypeOK
  BY DEF IndInv
<1>1. /\ proc[p] # Idle /\ proc[p].step = "apply"
      /\ proc[p].op \in ClusterOps
      /\ proc' = [proc EXCEPT ![p] = Idle]
      /\ UNCHANGED <<bundles, profiles, specs, branch, acked, commands>>
      /\ etcd' \in {etcd, etcd + 1}
  BY DEF ApplyCreateCluster, ApplyUpdateCluster, Applies, ClusterOps
<1>2. proc[p] \in Command /\ CommandInv(proc[p], branch, profiles, etcd)
  BY <1>1, InProgress
<1>3. proc[p].on \in Clusters /\ proc[p].new \in RootApp
  BY <1>1, <1>2 DEF CommandInv, WellFormed
<1>4. etcd + 1 \in Nat
  BY StateTypes
<1>5. apps[proc[p].on] # None => apps[proc[p].on].uid \in Nat
  BY <1>3, StateTypes, RootAppFields
<1>6. Moves(p, Idle) /\ proc' \in [Procs -> Command \cup {Idle}]
  BY <1>0, <1>1, EndMoves
<1>7. \A uid \in Nat : [proc[p].new EXCEPT !.uid = uid] \in RootApp
  BY <1>3, RootAppFields
<1>8. \/ UNCHANGED <<apps, settled>>
      \/ \E uid \in Nat :
            /\ apps' = [apps EXCEPT
                  ![proc[p].on] = [proc[p].new EXCEPT !.uid = uid]]
            /\ settled' = [settled EXCEPT ![proc[p].on] = proc[p].alone]
  <2>1. CASE ApplyCreateCluster(p)
    BY <1>4, <2>1 DEF ApplyCreateCluster
  <2>2. CASE ApplyUpdateCluster(p)
    BY <1>5, <2>2 DEF ApplyUpdateCluster
  <2>. QED  BY <2>1, <2>2
<1>. QED  BY <1>1, <1>2, <1>3, <1>6, <1>7, <1>8

\* The write that ends an update of a cluster spec.
LEMMA SpecApplies ==
    ASSUME IndInv, NEW p \in Procs, ApplyUpdateSpec(p)
    PROVE  /\ Moves(p, Idle) /\ proc' \in [Procs -> Command \cup {Idle}]
           /\ specs' \in [Specs -> ClusterSpec \cup {None}]
           /\ UNCHANGED <<bundles, profiles, apps, branch, etcd, acked, settled,
                          commands>>
<1>0. TypeOK
  BY DEF IndInv
<1>1. /\ proc[p] # Idle /\ proc[p].op = "UpdateSpec"
      /\ proc' = [proc EXCEPT ![p] = Idle]
      /\ specs' = IF specs[proc[p].on] # None
                  THEN [specs EXCEPT ![proc[p].on] = proc[p].new] ELSE specs
      /\ UNCHANGED <<bundles, profiles, apps, branch, etcd, acked, settled,
                     commands>>
  BY DEF ApplyUpdateSpec, Applies
<1>2. proc[p].new \in ClusterSpec
  BY <1>1, InProgress DEF CommandInv, WellFormed
<1>3. specs' \in [Specs -> ClusterSpec \cup {None}]
  BY <1>1, <1>2, StateTypes
<1>. QED  BY <1>0, <1>1, <1>3, EndMoves

----------------------------------------------------------------------------
(* The inductive invariant *)

LEMMA OneMoreType ==
    ASSUME TypeOK, OneMore
    PROVE  commands' \in 0..MaxCommands
BY ConstantsAssumption DEF TypeOK, OneMore

\* Every step keeps the types, given what the commands in progress carry.
LEMMA TypeNext ==
    ASSUME IndInv, [Next]_vars
    PROVE  TypeOK'
<1>0. TypeOK
  BY DEF IndInv
<1>1. ASSUME NEW b \in Bundles, NEW s \in Bundle, CreateBundle(b, s)
      PROVE  TypeOK'
  <2>1. commands' \in 0..MaxCommands
    BY <1>0, <1>1, OneMoreType DEF CreateBundle
  <2>2. bundles' \in [Bundles -> Bundle \cup {None}]
    BY <1>0, <1>1 DEF CreateBundle, TypeOK
  <2>. QED  BY <1>0, <1>1, <2>1, <2>2 DEF CreateBundle, TypeOK
<1>2. ASSUME NEW b \in Bundles, NEW d \in Data, UpdateBundle(b, d)
      PROVE  TypeOK'
  <2>1. commands' \in 0..MaxCommands
    BY <1>0, <1>2, OneMoreType DEF UpdateBundle
  <2>2. bundles[b] \in Bundle /\ bundles[b].kind = "static"
    BY <1>0, <1>2 DEF UpdateBundle, TypeOK
  <2>3. [bundles[b] EXCEPT !.data = d] \in Bundle
    BY <2>2 DEF Bundle
  <2>4. bundles' = [bundles EXCEPT ![b] = [bundles[b] EXCEPT !.data = d]]
    BY <1>2 DEF UpdateBundle
  <2>5. bundles' \in [Bundles -> Bundle \cup {None}]
    BY <1>0, <2>3, <2>4 DEF TypeOK
  <2>. QED  BY <1>0, <1>2, <2>1, <2>5 DEF UpdateBundle, TypeOK
<1>3. ASSUME NEW b \in Bundles, DeleteBundle(b) PROVE TypeOK'
  <2>1. commands' \in 0..MaxCommands
    BY <1>0, <1>3, OneMoreType DEF DeleteBundle
  <2>2. bundles' \in [Bundles -> Bundle \cup {None}]
    BY <1>0, <1>3 DEF DeleteBundle, TypeOK
  <2>. QED  BY <1>0, <1>3, <2>1, <2>2 DEF DeleteBundle, TypeOK
<1>4. ASSUME NEW s \in Specs, NEW new \in ClusterSpec, CreateSpec(s, new)
      PROVE  TypeOK'
  <2>1. commands' \in 0..MaxCommands
    BY <1>0, <1>4, OneMoreType DEF CreateSpec
  <2>2. specs' \in [Specs -> ClusterSpec \cup {None}]
    BY <1>0, <1>4 DEF CreateSpec, TypeOK
  <2>. QED  BY <1>0, <1>4, <2>1, <2>2 DEF CreateSpec, TypeOK
<1>5. ASSUME NEW s \in Specs, DeleteSpec(s) PROVE TypeOK'
  <2>1. commands' \in 0..MaxCommands
    BY <1>0, <1>5, OneMoreType DEF DeleteSpec
  <2>2. specs' \in [Specs -> ClusterSpec \cup {None}]
    BY <1>0, <1>5 DEF DeleteSpec, TypeOK
  <2>. QED  BY <1>0, <1>5, <2>1, <2>2 DEF DeleteSpec, TypeOK
<1>6. ASSUME NEW n \in Profiles, DeleteProfile(n) PROVE TypeOK'
  <2>1. commands' \in 0..MaxCommands
    BY <1>0, <1>6, OneMoreType DEF DeleteProfile
  <2>2. profiles' \in [Profiles -> Profile \cup {None}]
    BY <1>0, <1>6 DEF DeleteProfile, TypeOK
  <2>3. acked' \in [Profiles -> Given]
    BY <1>0, <1>6, NothingGivenType DEF DeleteProfile, TypeOK
  <2>. QED  BY <1>0, <1>6, <2>1, <2>2, <2>3 DEF DeleteProfile, TypeOK
<1>7. ASSUME NEW c \in Clusters, DeleteCluster(c) PROVE TypeOK'
  <2>1. commands' \in 0..MaxCommands
    BY <1>0, <1>7, OneMoreType DEF DeleteCluster
  <2>2. apps' \in [Clusters -> RootApp \cup {None}]
    BY <1>0, <1>7 DEF DeleteCluster, TypeOK
  <2>. QED  BY <1>0, <1>7, <2>1, <2>2 DEF DeleteCluster, TypeOK
<1>8. ASSUME NEW p \in Procs, Run(p) PROVE TypeOK'
  BY <1>0, <1>8, RunBegins, StartType DEF Begins
<1>9. ASSUME NEW p \in Procs, CloneRepo(p) PROVE TypeOK'
  BY <1>0, <1>9, CloneMoves DEF TypeOK
<1>10. ASSUME NEW p \in Procs, Push(p) PROVE TypeOK'
  <2>1. CASE FastForward(p)
    <3>1. branch' \in Branch /\ proc' \in [Procs -> Command \cup {Idle}]
      BY <1>0, <1>10, <2>1, PushFacts, PushMoves
    <3>2. settled' \in [Dirs -> BOOLEAN]
      BY <1>0, <1>10, <2>1, PushMoves DEF TypeOK
    <3>3. UNCHANGED <<bundles, profiles, specs, apps, etcd, acked, commands>>
      BY <1>0, <1>10, <2>1, PushMoves
    <3>. QED  BY <1>0, <3>1, <3>2, <3>3 DEF TypeOK
  <2>2. CASE ~FastForward(p)
    BY <1>0, <1>10, <2>2, RefusedMoves DEF TypeOK
  <2>. QED  BY <2>1, <2>2
<1>11. ASSUME NEW p \in Procs, ApplyCreateProfile(p) \/ ApplyUpdateProfile(p)
       PROVE  TypeOK'
  <2>1. /\ proc' \in [Procs -> Command \cup {Idle}]
        /\ proc[p] \in Command /\ proc[p].on \in Profiles
        /\ UNCHANGED <<bundles, specs, apps, branch, commands>>
    BY <1>11, ProfileApplies
  <2>2. CASE UNCHANGED <<profiles, etcd, acked, settled>>
    BY <1>0, <2>1, <2>2 DEF TypeOK
  <2>3. CASE /\ profiles' = [profiles EXCEPT
                   ![proc[p].on] = [proc[p].new EXCEPT !.rv = etcd + 1]]
             /\ etcd' = etcd + 1
             /\ settled' = [settled EXCEPT ![proc[p].on] = proc[p].alone]
             /\ \/ acked' = [acked EXCEPT ![proc[p].on] = proc[p].given]
                \/ acked' = [acked EXCEPT ![proc[p].on] =
                         Acknowledged(acked[proc[p].on], proc[p].given)]
    <3>1. profiles' \in [Profiles -> Profile \cup {None}]
      BY <1>11, <2>1, <2>3, ProfileApplies, StateTypes
    <3>2. etcd' \in Nat
      BY <2>3, StateTypes
    <3>3. settled' \in [Dirs -> BOOLEAN]
      BY <2>1, <2>3, CommandFields, StateTypes
    <3>4. proc[p].given \in Given /\ acked[proc[p].on] \in Given
      BY <2>1, CommandFields, StateTypes
    <3>5. Acknowledged(acked[proc[p].on], proc[p].given) \in Given
      <4>1. Merged(acked[proc[p].on].overrides, proc[p].given.overrides)
               \in Overrides
        BY <3>4, GivenFields, MergedType
      <4>. QED  BY <3>4, <4>1, GivenFields DEF Acknowledged, Given
    <3>6. acked' \in [Profiles -> Given]
      BY <2>3, <3>4, <3>5, StateTypes
    <3>. QED  BY <1>0, <2>1, <3>1, <3>2, <3>3, <3>6 DEF TypeOK
  <2>. QED  BY <1>11, <2>2, <2>3, ProfileApplies
<1>12. ASSUME NEW p \in Procs, ApplyCreateCluster(p) \/ ApplyUpdateCluster(p)
       PROVE  TypeOK'
  <2>1. /\ proc' \in [Procs -> Command \cup {Idle}]
        /\ proc[p] \in Command /\ proc[p].on \in Clusters
        /\ UNCHANGED <<bundles, profiles, specs, branch, acked, commands>>
        /\ etcd' \in {etcd, etcd + 1}
    BY <1>12, ClusterApplies
  <2>2. etcd' \in Nat
    BY <2>1, StateTypes
  <2>3. CASE UNCHANGED <<apps, settled>>
    BY <1>0, <2>1, <2>2, <2>3 DEF TypeOK
  <2>4. ASSUME NEW app \in RootApp, apps' = [apps EXCEPT ![proc[p].on] = app],
               settled' = [settled EXCEPT ![proc[p].on] = proc[p].alone]
        PROVE  TypeOK'
    <3>1. apps' \in [Clusters -> RootApp \cup {None}]
      BY <2>1, <2>4, StateTypes
    <3>2. settled' \in [Dirs -> BOOLEAN]
      BY <2>1, <2>4, CommandFields, StateTypes
    <3>. QED  BY <1>0, <2>1, <2>2, <3>1, <3>2 DEF TypeOK
  <2>. QED  BY <1>12, <2>3, <2>4, ClusterApplies
<1>13. ASSUME NEW p \in Procs, ApplyUpdateSpec(p) PROVE TypeOK'
  BY <1>0, <1>13, SpecApplies DEF TypeOK
<1>14. ASSUME NEW p \in Procs, Fail(p) PROVE TypeOK'
  BY <1>0, <1>14, EndMoves DEF Fail, TypeOK
<1>15. CASE UNCHANGED vars
  BY <1>0, <1>15 DEF vars, TypeOK
<1>. QED
  BY <1>1, <1>2, <1>3, <1>4, <1>5, <1>6, <1>7, <1>8, <1>9, <1>10, <1>11,
     <1>12, <1>13, <1>14, <1>15 DEF Next, RunOneCall, Step

\* The steps by what they do to the resources, the branch and the commands.
LEMMA StepCases ==
    ASSUME IndInv, [Next]_vars
    PROVE  \/ UNCHANGED <<profiles, apps, branch, proc, etcd, acked, settled>>
           \/ \E n \in Profiles : DeleteProfile(n)
           \/ \E c \in Clusters : DeleteCluster(c)
           \/ \E p \in Procs :
                 \/ Begins(p)
                 \/ CloneRepo(p)
                 \/ Push(p) /\ FastForward(p)
                 \/ ApplyCreateProfile(p) \/ ApplyUpdateProfile(p)
                 \/ ApplyCreateCluster(p) \/ ApplyUpdateCluster(p)
                 \/ /\ Moves(p, Idle)
                    /\ UNCHANGED <<profiles, apps, branch, etcd, acked, settled>>
<1>0. TypeOK
  BY DEF IndInv
<1>1. ASSUME NEW p \in Procs, Push(p), ~FastForward(p)
      PROVE  /\ Moves(p, Idle)
             /\ UNCHANGED <<profiles, apps, branch, etcd, acked, settled>>
  BY <1>0, <1>1, RefusedMoves
<1>2. ASSUME NEW p \in Procs, ApplyUpdateSpec(p) \/ Fail(p)
      PROVE  /\ Moves(p, Idle)
             /\ UNCHANGED <<profiles, apps, branch, etcd, acked, settled>>
  BY <1>0, <1>2, SpecApplies, EndMoves DEF Fail
<1>3. ASSUME NEW p \in Procs, Run(p) PROVE Begins(p)
  BY <1>3, RunBegins
<1>4. CASE \/ \E b \in Bundles : \/ \E s \in Bundle : CreateBundle(b, s)
                                 \/ \E d \in Data : UpdateBundle(b, d)
                                 \/ DeleteBundle(b)
           \/ \E s \in Specs : \/ DeleteSpec(s)
                               \/ \E new \in ClusterSpec : CreateSpec(s, new)
           \/ UNCHANGED vars
  BY <1>4 DEF CreateBundle, UpdateBundle, DeleteBundle, CreateSpec,
              DeleteSpec, vars
<1>. QED  BY <1>1, <1>2, <1>3, <1>4 DEF Next, RunOneCall, Step

\* Of two commands about the same thing neither is alone, whoever began first.
LEMMA AloneNext ==
    ASSUME IndInv, [Next]_vars
    PROVE  AloneInv'
<1>. SUFFICES ASSUME NEW p \in Procs, NEW q \in Procs, p # q,
                     proc'[p] # Idle, proc'[q] # Idle,
                     proc'[p].on = proc'[q].on
              PROVE  ~proc'[p].alone
  BY DEF AloneInv
<1>0. TypeOK
  BY DEF IndInv
\* A process keeps its command's target, and is not more alone than before.
<1>1. ASSUME NEW r \in Procs, NEW v,
             Moves(r, v), v = Idle \/ (/\ proc[r] # Idle
                                       /\ v.on = proc[r].on
                                       /\ v.alone = proc[r].alone)
      PROVE  ~proc'[p].alone
  BY <1>1 DEF Moves, IndInv, AloneInv
<1>2. CASE UNCHANGED proc
  BY <1>2 DEF IndInv, AloneInv
<1>3. ASSUME NEW r \in Procs, CloneRepo(r) PROVE ~proc'[p].alone
  <2>1. proc[r] # Idle
    BY <1>3 DEF CloneRepo
  <2>2. proc[r] \in Command /\ Moves(r, Cloned(proc[r], branch))
    BY <1>0, <1>3, CloneMoves
  <2>3. LET v == Cloned(proc[r], branch) IN
        v.on = proc[r].on /\ v.alone = proc[r].alone
    BY <2>2 DEF Cloned, Command
  <2>. QED  BY <1>1, <2>1, <2>2, <2>3, Zenon
<1>4. ASSUME NEW r \in Procs, Push(r), FastForward(r) PROVE ~proc'[p].alone
  <2>1. proc[r] # Idle
    BY <1>4 DEF Push
  <2>2. proc[r] \in Command /\ Moves(r, Pushed(proc[r]))
    BY <1>0, <1>4, PushMoves
  <2>3. LET v == Pushed(proc[r]) IN
        v.on = proc[r].on /\ v.alone = proc[r].alone
    BY <2>2 DEF Pushed, Command
  <2>. QED  BY <1>1, <2>1, <2>2, <2>3, Zenon
<1>5. ASSUME NEW r \in Procs, Begins(r) PROVE ~proc'[p].alone
  <2>1. PICK op, d, step, new, given, tree :
           Start(r, op, d, step, new, given, tree)
    BY <1>5 DEF Begins
  <2>2. proc'[r] = NewCommand(op, d, step, new, given, tree, Active(d) = {})
    BY <1>0, <2>1, StartMoves
  <2>3. proc'[r].on = d /\ proc'[r].alone = (Active(d) = {})
    BY <2>2 DEF NewCommand
  <2>4. \A s \in Procs : s # r =>
           \/ proc'[s] = proc[s] /\ (proc[s] = Idle \/ proc[s].on # d)
           \/ proc'[s] = Joined(proc[s]) /\ proc[s] \in Command /\ proc[s].on = d
    BY <1>0, <2>1, StartMoves
  <2>5. \A s \in Procs : s # r /\ proc'[s] # Idle =>
           \/ proc'[s] = proc[s] /\ proc[s] # Idle /\ proc[s].on # d
           \/ /\ proc[s] # Idle /\ proc[s].on = d
              /\ proc'[s].on = d /\ ~proc'[s].alone
    <3>1. \A cmd \in Command : /\ cmd # Idle
                               /\ Joined(cmd).on = cmd.on
                               /\ Joined(cmd).alone = FALSE
      BY CommandFields DEF Joined, Command
    <3>. QED  BY <2>4, <3>1
  <2>6. CASE p = r
    <3>1. q \in Active(d)
      BY <2>3, <2>5, <2>6 DEF Active
    <3>. QED  BY <2>3, <2>6, <3>1
  <2>7. CASE p # r
    BY <2>3, <2>5, <2>7 DEF IndInv, AloneInv
  <2>. QED  BY <2>6, <2>7
<1>6. ASSUME NEW r \in Procs, Moves(r, Idle) PROVE ~proc'[p].alone
  BY <1>1, <1>6
<1>. QED
  BY <1>2, <1>3, <1>4, <1>5, <1>6, StepCases, ProfileApplies, ClusterApplies
     DEF DeleteProfile, DeleteCluster

\* What the commands in progress rely on.
LEMMA CommandsNext ==
    ASSUME IndInv, [Next]_vars
    PROVE  CommandsInv'
<1>. SUFFICES ASSUME NEW q \in Procs, proc'[q] # Idle
              PROVE  CommandInv(proc'[q], branch', profiles', etcd')
  BY DEF CommandsInv
<1>0. TypeOK /\ etcd \in Nat /\ etcd + 1 \in Nat /\ etcd <= etcd /\ etcd <= etcd + 1
         /\ branch \in Branch
  BY StateTypes DEF IndInv
<1>1. ASSUME proc[q] # Idle, SameCommand(proc[q], proc'[q]), UNCHANGED branch,
             etcd' \in Nat, etcd <= etcd',
             \A n \in Profiles : \/ profiles'[n] = profiles[n]
                                 \/ profiles'[n] = None
                                 \/ profiles'[n].rv = etcd + 1
      PROVE  CommandInv(proc'[q], branch', profiles', etcd')
  <2>1. proc[q] \in Command /\ CommandInv(proc[q], branch, profiles, etcd)
    BY <1>1, InProgress
  <2>2. CommandInv(proc[q], branch, profiles', etcd')
    BY <1>0, <1>1, <2>1, ProfilesKeep
  <2>. QED  BY <1>1, <2>2, SameKeeps
<1>2. ASSUME proc'[q] = proc[q], UNCHANGED branch,
             etcd' \in {etcd, etcd + 1},
             \A n \in Profiles : \/ profiles'[n] = profiles[n]
                                 \/ profiles'[n] = None
                                 \/ profiles'[n].rv = etcd + 1
      PROVE  CommandInv(proc'[q], branch', profiles', etcd')
  <2>1. SameCommand(proc[q], proc'[q])
    BY <1>2 DEF SameCommand
  <2>2. etcd' \in Nat /\ etcd <= etcd'
    BY <1>0, <1>2
  <2>. QED  BY <1>1, <1>2, <2>1, <2>2
<1>3. CASE UNCHANGED <<profiles, branch, proc, etcd>>
  BY <1>2, <1>3
<1>4. ASSUME NEW n \in Profiles, DeleteProfile(n)
      PROVE  CommandInv(proc'[q], branch', profiles', etcd')
  <2>1. \A m \in Profiles : profiles'[m] = profiles[m] \/ profiles'[m] = None
    BY <1>4, StateTypes DEF DeleteProfile
  <2>. QED  BY <1>2, <1>4, <2>1 DEF DeleteProfile
<1>5. ASSUME NEW p \in Procs, Begins(p)
      PROVE  CommandInv(proc'[q], branch', profiles', etcd')
  <2>1. PICK op, d, step, new, given, tree :
           /\ Start(p, op, d, step, new, given, tree)
           /\ \A alone \in BOOLEAN :
                 CommandInv(NewCommand(op, d, step, new, given, tree, alone),
                            branch, profiles, etcd)
    BY <1>5 DEF Begins
  <2>2. UNCHANGED <<branch, profiles, etcd>>
    BY <1>0, <2>1, StartMoves
  <2>3. CASE q = p
    <3>1. proc'[q] = NewCommand(op, d, step, new, given, tree, Active(d) = {})
      BY <1>0, <2>1, <2>3, StartMoves
    <3>2. (Active(d) = {}) \in BOOLEAN
      OBVIOUS
    <3>3. CommandInv(proc'[q], branch, profiles, etcd)
      BY <2>1, <3>1, <3>2, Zenon
    <3>. QED  BY <2>2, <3>3
  <2>4. CASE q # p
    <3>1. \/ proc'[q] = proc[q]
          \/ proc'[q] = Joined(proc[q]) /\ proc[q] \in Command
      BY <1>0, <2>1, <2>4, StartMoves
    <3>2. CASE proc'[q] = proc[q]
      BY <1>2, <2>2, <3>2
    <3>3. CASE proc'[q] = Joined(proc[q]) /\ proc[q] \in Command
      <4>1. SameCommand(proc[q], proc'[q])
        BY <3>3 DEF SameCommand, Joined, Command
      <4>2. proc[q] # Idle
        BY <3>3, CommandFields
      <4>. QED  BY <1>0, <1>1, <2>2, <4>1, <4>2
    <3>. QED  BY <3>1, <3>2, <3>3
  <2>. QED  BY <2>3, <2>4
<1>6. ASSUME NEW p \in Procs, CloneRepo(p)
      PROVE  CommandInv(proc'[q], branch', profiles', etcd')
  <2>1. /\ proc[p] \in Command /\ proc[p].step = "clone"
        /\ Moves(p, Cloned(proc[p], branch))
        /\ UNCHANGED <<branch, profiles, etcd>>
    BY <1>0, <1>6, CloneMoves
  <2>2. CASE q # p
    BY <1>2, <2>1, <2>2 DEF Moves
  <2>3. CASE q = p
    <3>. DEFINE cmd == proc[p]
                new == Cloned(proc[p], branch)
    <3>1. /\ new.op = cmd.op /\ new.on = cmd.on /\ new.new = cmd.new
          /\ new.given = cmd.given /\ new.tree = cmd.tree
          /\ new.alone = cmd.alone /\ new.step = "push" /\ new.wt = branch
      BY <2>1 DEF Cloned, Command
    <3>2. CommandInv(cmd, branch, profiles, etcd)
      BY <2>1, InProgress, CommandFields
    <3>3. proc'[q] = new
      BY <2>1, <2>3 DEF Moves
    <3>4. cmd.step = "clone"
      BY <2>1
    <3>. HIDE DEF new, cmd
    <3>5. WellFormed(new)
      BY <3>1, <3>2, <3>4 DEF CommandInv, WellFormed, BeforePush
    <3>6. branch.rev <= branch.rev
      BY StateTypes
    <3>7. CloneInv(new, branch)
      BY <1>0, <3>1, <3>6 DEF CloneInv
    <3>8. ReferenceInv(new, branch)
      BY <3>1, <3>2, <3>4 DEF CommandInv, ReferenceInv, BeforePush
    <3>9. PushedInv(new, branch)
      BY <3>1 DEF PushedInv
    <3>10. ReadInv(new, profiles, etcd)
      BY <3>1, <3>2 DEF CommandInv, ReadInv
    <3>. QED
      BY <2>1, <3>3, <3>5, <3>7, <3>8, <3>9, <3>10 DEF CommandInv
  <2>. QED  BY <2>2, <2>3
<1>7. ASSUME NEW p \in Procs, Push(p), FastForward(p)
      PROVE  CommandInv(proc'[q], branch', profiles', etcd')
  <2>1. /\ proc[p] \in Command /\ proc[p].step = "push"
        /\ Moves(p, Pushed(proc[p]))
        /\ UNCHANGED <<profiles, etcd>>
    BY <1>0, <1>7, PushMoves
  <2>2. CommandInv(proc[p], branch, profiles, etcd) /\ proc[p] # Idle
    BY <2>1, InProgress, CommandFields
  <2>3. CASE q # p
    <3>1. proc'[q] = proc[q]
      BY <2>1, <2>3 DEF Moves
    <3>2. proc[q] \in Command /\ CommandInv(proc[q], branch, profiles, etcd)
      BY <3>1, InProgress
    <3>3. branch'.rev = branch.rev + 1 /\ branch.rev \in Nat
      BY <1>7, PushFacts, StateTypes
    <3>4. branch.rev <= branch'.rev /\ branch'.rev # branch.rev
      BY <3>3
    <3>5. proc[q].alone => proc[q].on # proc[p].on
      BY <2>2, <2>3, <3>1 DEF IndInv, AloneInv
    <3>6. proc[q].alone /\ proc[q].on \in Dirs =>
             branch'.tree[proc[q].on] = branch.tree[proc[q].on]
      BY <1>7, <3>5, PushFacts
    <3>7. /\ branch' \in Branch
          /\ \A d \in Dirs : branch.tree[d] # None => branch'.tree[d] # None
      BY <1>7, PushFacts
    <3>8. CommandInv(proc[q], branch', profiles, etcd)
      BY <1>0, <3>2, <3>4, <3>6, <3>7, BranchKeeps
    <3>. QED  BY <2>1, <3>1, <3>8
  <2>4. CASE q = p
    <3>. DEFINE cmd == proc[p]
                new == Pushed(proc[p])
    <3>1. /\ new.op = cmd.op /\ new.on = cmd.on /\ new.new = cmd.new
          /\ new.given = cmd.given /\ new.tree = cmd.tree
          /\ new.alone = cmd.alone /\ new.step = "apply"
      BY <2>1 DEF Pushed, Command
    <3>2. CommandInv(cmd, branch, profiles, etcd)
      BY <2>2
    <3>3. proc'[q] = new
      BY <2>1, <2>4 DEF Moves
    <3>4. /\ cmd.step = "push" /\ cmd.tree \in Tree
          /\ branch'.tree[cmd.on] = cmd.tree
      BY <1>7, <2>1, PushFacts
    <3>. HIDE DEF new, cmd
    <3>5. WellFormed(new)
      BY <3>1, <3>2 DEF CommandInv, WellFormed, BeforePush
    <3>6. CloneInv(new, branch') /\ ReferenceInv(new, branch')
      BY <3>1 DEF CloneInv, ReferenceInv, BeforePush
    <3>7. cmd.tree # None
      BY <3>4, TreeFields
    <3>8. /\ cmd.op \in ProfileOps => CompiledFrom(cmd.tree, cmd.new)
          /\ cmd.op \in ClusterOps => cmd.tree.profile = cmd.new.profile
      BY <3>2, <3>4 DEF CommandInv, WellFormed, BeforePush
    <3>9. PushedInv(new, branch')
      BY <3>1, <3>4, <3>7, <3>8 DEF PushedInv
    <3>10. ReadInv(new, profiles, etcd)
      BY <3>1, <3>2 DEF CommandInv, ReadInv
    <3>. QED
      BY <2>1, <3>3, <3>5, <3>6, <3>9, <3>10 DEF CommandInv
  <2>. QED  BY <2>3, <2>4
<1>8. ASSUME NEW p \in Procs, Moves(p, Idle), UNCHANGED branch,
             etcd' \in {etcd, etcd + 1},
             \A n \in Profiles : \/ profiles'[n] = profiles[n]
                                 \/ profiles'[n].rv = etcd + 1
      PROVE  CommandInv(proc'[q], branch', profiles', etcd')
  <2>1. proc'[q] = proc[q]
    BY <1>8 DEF Moves
  <2>. QED  BY <1>2, <1>8, <2>1
<1>9. ASSUME NEW p \in Procs, ApplyCreateProfile(p) \/ ApplyUpdateProfile(p)
      PROVE  CommandInv(proc'[q], branch', profiles', etcd')
  <2>1. /\ Moves(p, Idle) /\ UNCHANGED branch /\ proc[p].on \in Profiles
        /\ etcd' \in {etcd, etcd + 1}
    BY <1>9, ProfileApplies
  <2>2. CASE UNCHANGED profiles
    BY <1>8, <2>1, <2>2
  <2>3. CASE profiles' = [profiles EXCEPT
                ![proc[p].on] = [proc[p].new EXCEPT !.rv = etcd + 1]]
    <3>1. proc[p].new \in Profile
      BY <1>9, ProfileApplies DEF CommandInv, WellFormed
    <3>2. [proc[p].new EXCEPT !.rv = etcd + 1].rv = etcd + 1
      BY <3>1 DEF Profile
    <3>3. \A n \in Profiles : \/ profiles'[n] = profiles[n]
                              \/ profiles'[n].rv = etcd + 1
      BY <2>1, <2>3, <3>2, StateTypes
    <3>. QED  BY <1>8, <2>1, <3>3
  <2>. QED  BY <1>9, <2>2, <2>3, ProfileApplies
<1>10. ASSUME NEW p \in Procs, ApplyCreateCluster(p) \/ ApplyUpdateCluster(p)
       PROVE  CommandInv(proc'[q], branch', profiles', etcd')
  <2>1. /\ Moves(p, Idle) /\ UNCHANGED <<branch, profiles>>
        /\ etcd' \in {etcd, etcd + 1}
    BY <1>10, ClusterApplies
  <2>. QED  BY <1>8, <2>1
<1>11. ASSUME NEW c \in Clusters, DeleteCluster(c)
       PROVE  CommandInv(proc'[q], branch', profiles', etcd')
  BY <1>3, <1>11 DEF DeleteCluster
<1>. QED
  BY <1>3, <1>4, <1>5, <1>6, <1>7, <1>8, <1>9, <1>10, <1>11, StepCases

\* What a write makes of a profile.
LEMMA WrittenProfile ==
    ASSUME IndInv, NEW p \in Procs,
           ApplyCreateProfile(p) \/ ApplyUpdateProfile(p),
           profiles' = [profiles EXCEPT
                ![proc[p].on] = [proc[p].new EXCEPT !.rv = etcd + 1]]
    PROVE  /\ profiles'[proc[p].on].rv = etcd + 1
           /\ profiles'[proc[p].on].bundles = proc[p].new.bundles
           /\ profiles'[proc[p].on].overrides = proc[p].new.overrides
           /\ profiles'[proc[p].on].dynamic = proc[p].new.dynamic
           /\ \A n \in Profiles : n # proc[p].on => profiles'[n] = profiles[n]
<1>1. proc[p].on \in Profiles /\ proc[p].new \in Profile
  BY ProfileApplies DEF CommandInv, WellFormed
<1>2. /\ profiles'[proc[p].on] = [proc[p].new EXCEPT !.rv = etcd + 1]
      /\ \A n \in Profiles : n # proc[p].on => profiles'[n] = profiles[n]
  BY <1>1, StateTypes
<1>3. LET new == [proc[p].new EXCEPT !.rv = etcd + 1] IN
      /\ new.rv = etcd + 1 /\ new.bundles = proc[p].new.bundles
      /\ new.overrides = proc[p].new.overrides
      /\ new.dynamic = proc[p].new.dynamic
  BY <1>1 DEF Profile
<1>. QED  BY <1>2, <1>3

\* The versions of the profiles are the API server's.
LEMMA VersionsNext ==
    ASSUME IndInv, [Next]_vars
    PROVE  VersionsInv'
<1>. SUFFICES ASSUME NEW n \in Profiles, profiles'[n] # None
              PROVE  profiles'[n].rv <= etcd'
  BY DEF VersionsInv
<1>0. TypeOK /\ etcd \in Nat
  BY StateTypes DEF IndInv
<1>1. ASSUME profiles'[n] = profiles[n], etcd' \in {etcd, etcd + 1}
      PROVE  profiles'[n].rv <= etcd'
  <2>1. profiles[n].rv <= etcd /\ profiles[n].rv \in Nat
    BY <1>1, StateTypes, ProfileFields
  <2>. QED  BY <1>0, <1>1, <2>1
<1>2. ASSUME NEW m \in Profiles, DeleteProfile(m)
      PROVE  profiles'[n].rv <= etcd'
  <2>1. profiles'[n] = profiles[n]
    BY <1>2, StateTypes DEF DeleteProfile
  <2>. QED  BY <1>1, <1>2, <2>1 DEF DeleteProfile
<1>3. ASSUME NEW p \in Procs, ApplyCreateProfile(p) \/ ApplyUpdateProfile(p)
      PROVE  profiles'[n].rv <= etcd'
  <2>1. CASE UNCHANGED <<profiles, etcd>>
    BY <1>1, <2>1
  <2>2. CASE /\ profiles' = [profiles EXCEPT
                   ![proc[p].on] = [proc[p].new EXCEPT !.rv = etcd + 1]]
             /\ etcd' = etcd + 1
    <3>1. CASE n = proc[p].on
      <4>1. profiles'[n].rv = etcd + 1
        BY <1>3, <2>2, <3>1, WrittenProfile
      <4>. QED  BY <1>0, <2>2, <4>1
    <3>2. CASE n # proc[p].on
      <4>1. profiles'[n] = profiles[n]
        BY <1>3, <2>2, <3>2, WrittenProfile
      <4>. QED  BY <1>1, <2>2, <4>1
    <3>. QED  BY <3>1, <3>2
  <2>. QED  BY <1>3, <2>1, <2>2, ProfileApplies
<1>4. ASSUME NEW p \in Procs, Begins(p) \/ CloneRepo(p)
                \/ (Push(p) /\ FastForward(p))
      PROVE  UNCHANGED <<profiles, etcd>>
  BY <1>0, <1>4, StartMoves, CloneMoves, PushMoves DEF Begins
<1>. QED
  BY <1>1, <1>2, <1>3, <1>4, StepCases, ClusterApplies DEF DeleteCluster

\* What a write makes of an application.
LEMMA WrittenApp ==
    ASSUME IndInv, NEW p \in Procs,
           ApplyCreateCluster(p) \/ ApplyUpdateCluster(p), NEW uid \in Nat,
           apps' = [apps EXCEPT ![proc[p].on] = [proc[p].new EXCEPT !.uid = uid]]
    PROVE  /\ apps'[proc[p].on].profile = proc[p].new.profile
           /\ \A c \in Clusters : c # proc[p].on => apps'[c] = apps[c]
<1>1. proc[p].on \in Clusters /\ proc[p].new \in RootApp
  BY ClusterApplies DEF CommandInv, WellFormed
<1>2. /\ apps'[proc[p].on] = [proc[p].new EXCEPT !.uid = uid]
      /\ \A c \in Clusters : c # proc[p].on => apps'[c] = apps[c]
  BY <1>1, StateTypes
<1>3. [proc[p].new EXCEPT !.uid = uid].profile = proc[p].new.profile
  BY <1>1 DEF RootApp
<1>. QED  BY <1>2, <1>3

\* Only an accepted push changes the branch.
LEMMA BranchCases ==
    ASSUME IndInv, [Next]_vars
    PROVE  \/ UNCHANGED branch
           \/ \E p \in Procs : Push(p) /\ FastForward(p)
<1>0. TypeOK
  BY DEF IndInv
<1>1. ASSUME NEW p \in Procs, Begins(p) \/ CloneRepo(p) PROVE UNCHANGED branch
  BY <1>0, <1>1, StartMoves, CloneMoves DEF Begins
<1>. QED
  BY <1>1, StepCases, ProfileApplies, ClusterApplies
     DEF DeleteProfile, DeleteCluster

\* Directories stay.
LEMMA TreesStay ==
    ASSUME IndInv, [Next]_vars
    PROVE  \A d \in Dirs : branch.tree[d] # None => branch'.tree[d] # None
BY BranchCases, PushFacts

\* Every step keeps the directories of the resources.
LEMMA ResourceHasTreeNext ==
    ASSUME IndInv, [Next]_vars
    PROVE  ResourceHasTree'
<1>0. TypeOK /\ ResourceHasTree
  BY DEF IndInv, NothingDangles
<1>1. ASSUME NEW p \in Procs, Begins(p) \/ CloneRepo(p)
                \/ (Push(p) /\ FastForward(p))
      PROVE  UNCHANGED <<profiles, apps>>
  BY <1>0, <1>1, StartMoves, CloneMoves, PushMoves DEF Begins
<1>2. ASSUME NEW n \in Profiles, profiles'[n] # None, profiles'[n].dynamic
      PROVE  branch'.tree[n] # None
  <2>1. n \in Dirs
    BY DEF Dirs
  <2>2. CASE profiles'[n] = profiles[n]
    BY <1>0, <1>2, <2>1, <2>2, TreesStay DEF ResourceHasTree
  <2>3. ASSUME NEW m \in Profiles, DeleteProfile(m)
        PROVE  profiles'[n] = profiles[n]
    BY <1>2, <2>3, StateTypes DEF DeleteProfile
  <2>4. ASSUME NEW p \in Procs, ApplyCreateProfile(p) \/ ApplyUpdateProfile(p)
        PROVE  branch'.tree[n] # None
    <3>1. CASE UNCHANGED profiles
      BY <2>2, <3>1
    <3>2. CASE profiles' = [profiles EXCEPT
                  ![proc[p].on] = [proc[p].new EXCEPT !.rv = etcd + 1]]
      <4>1. CASE n # proc[p].on
        BY <2>2, <2>4, <3>2, <4>1, WrittenProfile
      <4>2. CASE n = proc[p].on
        <5>1. proc[p].new.dynamic
          BY <1>2, <2>4, <3>2, <4>2, WrittenProfile
        <5>2. UNCHANGED branch /\ PushedInv(proc[p], branch)
                 /\ proc[p].step = "apply" /\ proc[p].op \in ProfileOps
          BY <2>4, ProfileApplies DEF CommandInv
        <5>. QED  BY <4>2, <5>1, <5>2 DEF PushedInv
      <4>. QED  BY <4>1, <4>2
    <3>. QED  BY <2>4, <3>1, <3>2, ProfileApplies
  <2>. QED
    BY <1>1, <2>2, <2>3, <2>4, StepCases, ClusterApplies DEF DeleteCluster
<1>3. ASSUME NEW c \in Clusters, apps'[c] # None
      PROVE  branch'.tree[c] # None
  <2>1. c \in Dirs
    BY DEF Dirs
  <2>2. CASE apps'[c] = apps[c]
    BY <1>0, <1>3, <2>1, <2>2, TreesStay DEF ResourceHasTree
  <2>3. ASSUME NEW k \in Clusters, DeleteCluster(k)
        PROVE  apps'[c] = apps[c]
    BY <1>3, <2>3, StateTypes DEF DeleteCluster
  <2>4. ASSUME NEW p \in Procs, ApplyCreateCluster(p) \/ ApplyUpdateCluster(p)
        PROVE  branch'.tree[c] # None
    <3>1. CASE apps'[c] = apps[c]
      BY <2>2, <3>1
    <3>2. CASE apps'[c] # apps[c]
      <4>1. c = proc[p].on
        BY <2>4, <3>2, ClusterApplies, WrittenApp
      <4>2. UNCHANGED branch /\ PushedInv(proc[p], branch)
               /\ proc[p].step = "apply" /\ proc[p].op \in ClusterOps
        BY <2>4, ClusterApplies DEF CommandInv
      <4>. QED  BY <4>1, <4>2 DEF PushedInv
    <3>. QED  BY <3>1, <3>2
  <2>. QED
    BY <1>1, <2>2, <2>3, <2>4, StepCases, ProfileApplies DEF DeleteProfile
<1>. QED  BY <1>2, <1>3 DEF ResourceHasTree

\* Every step keeps the references between directories.
LEMMA ReferencesResolveNext ==
    ASSUME IndInv, [Next]_vars
    PROVE  ReferencesResolve'
<1>. SUFFICES ASSUME NEW c \in Clusters,
                     branch'.tree[c] # None, branch'.tree[c].ref
              PROVE  branch'.tree[branch'.tree[c].profile] # None
  BY DEF ReferencesResolve
<1>0. TypeOK /\ ReferencesResolve /\ c \in Dirs
  BY DEF IndInv, NothingDangles, Dirs
<1>1. CASE branch'.tree[c] = branch.tree[c]
  <2>1. branch.tree[c] \in Tree
    BY <1>0, <1>1, StateTypes
  <2>2. branch.tree[c].profile \in Dirs
    BY <2>1, TreeFields DEF Dirs
  <2>3. branch.tree[branch.tree[c].profile] # None
    BY <1>0, <1>1 DEF ReferencesResolve
  <2>. QED  BY <1>1, <2>2, <2>3, TreesStay
<1>2. ASSUME NEW p \in Procs, Push(p), FastForward(p), c = proc[p].on
      PROVE  branch'.tree[branch'.tree[c].profile] # None
  <2>1. /\ proc[p] \in Command /\ proc[p].step = "push"
        /\ CommandInv(proc[p], branch, profiles, etcd)
    BY <1>0, <1>2, PushMoves, InProgress, CommandFields
  <2>2. branch'.tree[c] = proc[p].tree /\ proc[p].tree \in Tree
    BY <1>2, PushFacts
  <2>3. proc[p].op \in ClusterOps
    <3>1. c \notin Profiles /\ c \notin Specs
      BY ConstantsAssumption
    <3>. QED
      BY <1>2, <2>1, <3>1, CommandFields
         DEF CommandInv, WellFormed, Ops, ProfileOps, ClusterOps
  <2>4. branch.tree[proc[p].tree.profile] # None
    BY <2>1, <2>2, <2>3 DEF CommandInv, ReferenceInv, BeforePush
  <2>5. proc[p].tree.profile \in Dirs
    BY <2>2, TreeFields DEF Dirs
  <2>. QED  BY <2>2, <2>4, <2>5, TreesStay
<1>. QED  BY <1>0, <1>1, <1>2, BranchCases, PushFacts

\* Every step keeps the updates that were acknowledged.
LEMMA NoLostUpdateNext ==
    ASSUME IndInv, [Next]_vars
    PROVE  NoLostUpdate'
<1>. DEFINE Kept(ack, prof) ==
              /\ ack.bundles # None => prof.bundles = ack.bundles
              /\ \A b \in Bundles : ack.overrides[b] # None =>
                    prof.overrides[b] = ack.overrides[b]
<1>. SUFFICES ASSUME NEW n \in Profiles, profiles'[n] # None
              PROVE  Kept(acked'[n], profiles'[n])
  BY DEF NoLostUpdate
<1>0. TypeOK
  BY DEF IndInv
<1>1. CASE profiles'[n] = profiles[n] /\ acked'[n] = acked[n]
  BY <1>1 DEF IndInv, NoLostUpdate
<1>2. ASSUME NEW m \in Profiles, DeleteProfile(m)
      PROVE  profiles'[n] = profiles[n] /\ acked'[n] = acked[n]
  BY <1>2, StateTypes DEF DeleteProfile
<1>3. ASSUME NEW p \in Procs, Begins(p) \/ CloneRepo(p)
                \/ (Push(p) /\ FastForward(p))
      PROVE  UNCHANGED <<profiles, acked>>
  BY <1>0, <1>3, StartMoves, CloneMoves, PushMoves DEF Begins
<1>4. ASSUME NEW p \in Procs, ApplyCreateProfile(p) \/ ApplyUpdateProfile(p)
      PROVE  Kept(acked'[n], profiles'[n])
  <2>1. /\ proc[p] \in Command /\ proc[p].on \in Profiles
        /\ CommandInv(proc[p], branch, profiles, etcd)
    BY <1>4, ProfileApplies
  <2>2. CASE UNCHANGED <<profiles, acked>>
    BY <1>1, <2>2
  <2>3. CASE /\ profiles' = [profiles EXCEPT
                   ![proc[p].on] = [proc[p].new EXCEPT !.rv = etcd + 1]]
             /\ \/ /\ proc[p].op = "CreateProfile"
                   /\ acked' = [acked EXCEPT ![proc[p].on] = proc[p].given]
                \/ /\ proc[p].op = "UpdateProfile"
                   /\ SameVersion(p)
                   /\ acked' = [acked EXCEPT ![proc[p].on] =
                         Acknowledged(acked[proc[p].on], proc[p].given)]
    <3>1. CASE n # proc[p].on
      <4>1. profiles'[n] = profiles[n]
        BY <1>4, <2>3, <3>1, WrittenProfile
      <4>2. acked'[n] = acked[n]
        BY <2>3, <3>1, StateTypes
      <4>. QED  BY <1>1, <4>1, <4>2
    <3>2. CASE n = proc[p].on
      <4>. DEFINE new == proc[p].new
                  given == proc[p].given
      <4>1. profiles'[n].bundles = new.bundles
               /\ profiles'[n].overrides = new.overrides
        BY <1>4, <2>3, <3>2, WrittenProfile
      <4>2. CASE proc[p].op = "CreateProfile"
        <5>1. new.bundles = given.bundles /\ new.overrides = given.overrides
          BY <2>1, <4>2 DEF CommandInv, ReadInv
        <5>2. acked'[n] = given
          BY <2>3, <3>2, <4>2, StateTypes
        <5>. QED  BY <4>1, <5>1, <5>2
      <4>3. CASE /\ proc[p].op = "UpdateProfile" /\ SameVersion(p)
                 /\ acked' = [acked EXCEPT ![proc[p].on] =
                         Acknowledged(acked[proc[p].on], proc[p].given)]
        <5>1. profiles[n] # None /\ profiles[n].rv = new.rv
          BY <3>2, <4>3 DEF SameVersion
        <5>2. /\ given.bundles = None => new.bundles = profiles[n].bundles
              /\ given.bundles # None => new.bundles = given.bundles
              /\ new.overrides = Merged(profiles[n].overrides, given.overrides)
          BY <2>1, <3>2, <4>3, <5>1 DEF CommandInv, ReadInv
        <5>3. acked'[n] = Acknowledged(acked[n], given)
          BY <3>2, <4>3, StateTypes
        <5>4. /\ acked'[n].bundles = IF given.bundles = None
                                     THEN acked[n].bundles ELSE given.bundles
              /\ acked'[n].overrides = Merged(acked[n].overrides, given.overrides)
          BY <5>3 DEF Acknowledged
        <5>5. Kept(acked[n], profiles[n])
          BY <5>1 DEF IndInv, NoLostUpdate
        <5>6. given.overrides \in Overrides /\ acked[n].overrides \in Overrides
                 /\ profiles[n].overrides \in Overrides
          BY <2>1, <5>1, CommandFields, GivenFields, ProfileFields, StateTypes
        <5>7. \A b \in Bundles : acked'[n].overrides[b] # None =>
                 new.overrides[b] = acked'[n].overrides[b]
          BY <5>2, <5>4, <5>5, <5>6, MergedType
        <5>8. acked'[n].bundles # None => new.bundles = acked'[n].bundles
          BY <5>2, <5>4, <5>5
        <5>. QED  BY <4>1, <5>7, <5>8
      <4>. QED  BY <2>3, <4>2, <4>3
    <3>. QED  BY <3>1, <3>2
  <2>. QED  BY <1>4, <2>2, <2>3, ProfileApplies
<1>. HIDE DEF Kept
<1>. QED
  BY <1>1, <1>2, <1>3, <1>4, StepCases, ClusterApplies DEF DeleteCluster

\* Every step keeps the agreement of git and the resources.
LEMMA SettledAgreesNext ==
    ASSUME IndInv, [Next]_vars
    PROVE  SettledAgrees'
<1>0. TypeOK /\ SettledAgrees
  BY DEF IndInv
<1>1. ASSUME NEW p \in Procs, Begins(p) \/ CloneRepo(p)
      PROVE  UNCHANGED <<profiles, apps, branch, settled>>
  BY <1>0, <1>1, StartMoves, CloneMoves DEF Begins
<1>2. ASSUME NEW p \in Procs, Push(p), FastForward(p)
      PROVE  /\ UNCHANGED <<profiles, apps>>
             /\ \A d \in Dirs :
                   \/ settled'[d] = settled[d] /\ branch'.tree[d] = branch.tree[d]
                   \/ settled'[d] = FALSE
  <2>1. /\ settled' = [settled EXCEPT ![proc[p].on] = FALSE]
        /\ UNCHANGED <<profiles, apps>>
    BY <1>0, <1>2, PushMoves
  <2>. QED  BY <1>2, <2>1, PushFacts, StateTypes
<1>3. \A c \in Clusters : c \notin Profiles
  BY ConstantsAssumption
<1>4. ASSUME NEW n \in Profiles, settled'[n], profiles'[n] # None,
             profiles'[n].dynamic
      PROVE  CompiledFrom(branch'.tree[n], profiles'[n])
  <2>1. n \in Dirs
    BY DEF Dirs
  <2>2. CASE /\ settled'[n] = settled[n] /\ profiles'[n] = profiles[n]
             /\ branch'.tree[n] = branch.tree[n]
    BY <1>0, <1>4, <2>2 DEF SettledAgrees, Compiled
  <2>3. ASSUME NEW m \in Profiles, DeleteProfile(m)
        PROVE  profiles'[n] = profiles[n] /\ UNCHANGED <<settled, branch>>
    BY <1>4, <2>3, StateTypes DEF DeleteProfile
  <2>4. ASSUME NEW p \in Procs, ApplyCreateProfile(p) \/ ApplyUpdateProfile(p)
        PROVE  CompiledFrom(branch'.tree[n], profiles'[n])
    <3>0. UNCHANGED branch /\ proc[p].on \in Profiles
      BY <2>4, ProfileApplies
    <3>1. CASE UNCHANGED <<profiles, settled>>
      BY <2>2, <3>0, <3>1
    <3>2. CASE /\ profiles' = [profiles EXCEPT
                     ![proc[p].on] = [proc[p].new EXCEPT !.rv = etcd + 1]]
               /\ settled' = [settled EXCEPT ![proc[p].on] = proc[p].alone]
      <4>1. CASE n # proc[p].on
        <5>1. profiles'[n] = profiles[n]
          BY <2>4, <3>2, <4>1, WrittenProfile
        <5>2. settled'[n] = settled[n]
          BY <2>1, <3>2, <4>1, StateTypes
        <5>. QED  BY <2>2, <3>0, <5>1, <5>2
      <4>2. CASE n = proc[p].on
        <5>1. /\ proc[p].new.dynamic
              /\ profiles'[n].bundles = proc[p].new.bundles
              /\ profiles'[n].overrides = proc[p].new.overrides
          <6>1. /\ profiles'[n].bundles = proc[p].new.bundles
                /\ profiles'[n].overrides = proc[p].new.overrides
                /\ profiles'[n].dynamic = proc[p].new.dynamic
            BY <2>4, <3>2, <4>2, WrittenProfile
          <6>. QED  BY <1>4, <6>1
        <5>2. proc[p].alone
          BY <1>4, <2>1, <3>2, <4>2, StateTypes
        <5>3. PushedInv(proc[p], branch)
                 /\ proc[p].step = "apply" /\ proc[p].op \in ProfileOps
          BY <2>4, ProfileApplies DEF CommandInv
        <5>4. CompiledFrom(branch.tree[n], proc[p].new)
          BY <4>2, <5>1, <5>2, <5>3 DEF PushedInv
        <5>. QED  BY <3>0, <5>1, <5>4 DEF CompiledFrom
      <4>. QED  BY <4>1, <4>2
    <3>. QED  BY <2>4, <3>1, <3>2, ProfileApplies
  <2>5. ASSUME NEW p \in Procs, ApplyCreateCluster(p) \/ ApplyUpdateCluster(p)
        PROVE  settled'[n] = settled[n] /\ UNCHANGED <<profiles, branch>>
    <3>1. proc[p].on # n
      BY <1>3, <2>5, ClusterApplies
    <3>2. \/ UNCHANGED settled
          \/ settled' = [settled EXCEPT ![proc[p].on] = proc[p].alone]
      BY <2>5, ClusterApplies
    <3>. QED  BY <2>1, <2>5, <3>1, <3>2, ClusterApplies, StateTypes
  <2>6. ASSUME NEW p \in Procs, Push(p), FastForward(p)
        PROVE  CompiledFrom(branch'.tree[n], profiles'[n])
    BY <1>2, <1>4, <2>1, <2>2, <2>6
  <2>. QED
    BY <1>1, <2>2, <2>3, <2>4, <2>5, <2>6, StepCases DEF DeleteCluster
<1>5. ASSUME NEW c \in Clusters, settled'[c], apps'[c] # None
      PROVE  branch'.tree[c].profile = apps'[c].profile
  <2>1. c \in Dirs
    BY DEF Dirs
  <2>2. CASE /\ settled'[c] = settled[c] /\ apps'[c] = apps[c]
             /\ branch'.tree[c] = branch.tree[c]
    BY <1>0, <1>5, <2>2 DEF SettledAgrees
  <2>3. ASSUME NEW k \in Clusters, DeleteCluster(k)
        PROVE  apps'[c] = apps[c] /\ UNCHANGED <<settled, branch>>
    BY <1>5, <2>3, StateTypes DEF DeleteCluster
  <2>4. ASSUME NEW p \in Procs, ApplyCreateCluster(p) \/ ApplyUpdateCluster(p)
        PROVE  branch'.tree[c].profile = apps'[c].profile
    <3>0. UNCHANGED branch /\ proc[p].on \in Clusters
      BY <2>4, ClusterApplies
    <3>1. CASE UNCHANGED <<apps, settled>>
      BY <2>2, <3>0, <3>1
    <3>2. ASSUME NEW uid \in Nat,
                 apps' = [apps EXCEPT
                     ![proc[p].on] = [proc[p].new EXCEPT !.uid = uid]],
                 settled' = [settled EXCEPT ![proc[p].on] = proc[p].alone]
          PROVE  branch'.tree[c].profile = apps'[c].profile
      <4>1. CASE c # proc[p].on
        <5>1. apps'[c] = apps[c]
          BY <2>4, <3>2, <4>1, WrittenApp
        <5>2. settled'[c] = settled[c]
          BY <2>1, <3>2, <4>1, StateTypes
        <5>. QED  BY <2>2, <3>0, <5>1, <5>2
      <4>2. CASE c = proc[p].on
        <5>1. apps'[c].profile = proc[p].new.profile
          BY <2>4, <3>2, <4>2, WrittenApp
        <5>2. proc[p].alone
          BY <1>5, <2>1, <3>2, <4>2, StateTypes
        <5>3. PushedInv(proc[p], branch)
                 /\ proc[p].step = "apply" /\ proc[p].op \in ClusterOps
          BY <2>4, ClusterApplies DEF CommandInv
        <5>. QED  BY <3>0, <4>2, <5>1, <5>2, <5>3 DEF PushedInv
      <4>. QED  BY <4>1, <4>2
    <3>. QED  BY <2>4, <3>1, <3>2, ClusterApplies
  <2>5. ASSUME NEW p \in Procs, ApplyCreateProfile(p) \/ ApplyUpdateProfile(p)
        PROVE  settled'[c] = settled[c] /\ UNCHANGED <<apps, branch>>
    <3>1. proc[p].on # c
      BY <1>3, <2>5, ProfileApplies
    <3>2. \/ UNCHANGED settled
          \/ settled' = [settled EXCEPT ![proc[p].on] = proc[p].alone]
      BY <2>5, ProfileApplies
    <3>. QED  BY <2>1, <2>5, <3>1, <3>2, ProfileApplies, StateTypes
  <2>6. ASSUME NEW p \in Procs, Push(p), FastForward(p)
        PROVE  branch'.tree[c].profile = apps'[c].profile
    BY <1>2, <1>5, <2>1, <2>2, <2>6
  <2>. QED
    BY <1>1, <2>2, <2>3, <2>4, <2>5, <2>6, StepCases DEF DeleteProfile
<1>. QED  BY <1>4, <1>5 DEF SettledAgrees, Compiled

----------------------------------------------------------------------------
(* The theorems *)

\* The inductive invariant holds initially.
LEMMA InvInit == Init => IndInv
<1>. SUFFICES ASSUME Init PROVE IndInv
  OBVIOUS
<1>1. TypeOK
  <2>1. branch \in Branch
    BY DEF Init, Branch
  <2>2. acked \in [Profiles -> Given]
    BY NothingGivenType DEF Init
  <2>3. commands \in 0..MaxCommands
    BY ConstantsAssumption DEF Init
  <2>. QED  BY <2>1, <2>2, <2>3, ConstantsAssumption DEF Init, TypeOK
<1>2. CommandsInv /\ AloneInv /\ VersionsInv
  BY DEF Init, CommandsInv, AloneInv, VersionsInv
<1>3. /\ \A n \in Profiles : profiles[n] = None
      /\ \A c \in Clusters : apps[c] = None /\ branch.tree[c] = None
  BY DEF Init, Dirs
<1>4. NothingDangles /\ NoLostUpdate /\ SettledAgrees
  BY <1>3 DEF NothingDangles, ResourceHasTree, ReferencesResolve, NoLostUpdate,
              SettledAgrees
<1>. QED  BY <1>1, <1>2, <1>4 DEF IndInv

\* The inductive invariant holds in every behaviour, for any number of
\* commands at the same time.
THEOREM Invariance == Spec => []IndInv
<1>1. IndInv /\ [Next]_vars => IndInv'
  BY TypeNext, CommandsNext, AloneNext, VersionsNext, ResourceHasTreeNext,
     ReferencesResolveNext, NoLostUpdateNext, SettledAgreesNext
     DEF IndInv, NothingDangles
<1>. QED  BY <1>1, InvInit, PTL DEF Spec

\* Every variable keeps its type.
THEOREM TypeCorrect == Spec => []TypeOK
<1>1. IndInv => TypeOK
  BY DEF IndInv
<1>. QED  BY <1>1, Invariance, PTL

\* No resource is without its directory in git and no directory refers to one
\* that is not there, however commands overlap and fail.
THEOREM NoneDangles == Spec => []NothingDangles
<1>1. IndInv => NothingDangles
  BY DEF IndInv
<1>. QED  BY <1>1, Invariance, PTL

\* No update of a profile that succeeded is lost.
THEOREM UpdatesKept == Spec => []NoLostUpdate
<1>1. IndInv => NoLostUpdate
  BY DEF IndInv
<1>. QED  BY <1>1, Invariance, PTL

\* After a command that ran alone and succeeded git and the resource agree.
THEOREM SettledIsInAgreement == Spec => []SettledAgrees
<1>1. IndInv => SettledAgrees
  BY DEF IndInv
<1>. QED  BY <1>1, Invariance, PTL

\* A push changes only the directory of its own command.
THEOREM PushesKeepOthers == Spec => OthersKept
<1>1. ASSUME IndInv, [Next]_vars, NEW d \in Dirs,
             branch'.tree[d] # branch.tree[d]
      PROVE  \E p \in Procs : proc[p] # Idle /\ proc[p].step = "push"
                              /\ proc[p].on = d
  <2>1. PICK p \in Procs : Push(p) /\ FastForward(p)
    BY <1>1, BranchCases
  <2>2. proc[p] # Idle /\ proc[p].step = "push"
    BY <2>1 DEF Push
  <2>3. proc[p].on = d
    BY <1>1, <2>1, PushFacts
  <2>. QED  BY <2>2, <2>3
<1>2. IndInv /\ [Next]_vars =>
         [\A d \in Dirs : branch'.tree[d] # branch.tree[d] =>
             \E p \in Procs : proc[p] # Idle /\ proc[p].step = "push"
                              /\ proc[p].on = d]_vars
  BY <1>1
<1>. QED  BY <1>2, Invariance, PTL DEF Spec, OthersKept
=============================================================================
