--------------------------- MODULE ClusterCommands ---------------------------
(***************************************************************************)
(* The commands on one cluster name that go to Argo CD directly: create,   *)
(* delete and ngupdate of a cluster made from a template (gen2), manage    *)
(* and unmanage of a cluster that others registered (external).  The       *)
(* cluster consists of the applications <name>-arlon, <name> and, one per  *)
(* profile attached, <name>-profile-<profile>; an override adds a          *)
(* directory in git.  An external cluster has a label and two annotations  *)
(* on its Argo CD secret, and a profile app.                               *)
(*                                                                         *)
(* A command makes these changes one by one, with no lock and, manage      *)
(* excepted, no compensation; Argo CD takes its time to delete.            *)
(***************************************************************************)
EXTENDS Naturals

CONSTANTS
    Procs,          \* commands that may run at the same time
    Profiles,       \* dynamic profiles; commands refuse static ones
    None,
    MaxCommands     \* bound: commands started

VARIABLES
    apps,       \* state of each application in Argo CD
    overridden, \* the cluster app's annotation: it points to the override
    dir,        \* the override directory is in git
    secret,     \* the Argo CD secret of the cluster
    proc,       \* the commands in progress
    done,       \* history: the last command, while nothing has started since,
                \* if it succeeded and no other command ran beside it
    disturbed,  \* history: see below
    commands    \* commands started so far

vars == <<apps, overridden, dir, secret, proc, done, disturbed, commands>>

\* disturbed records that, some time, one of these happened: a command ended
\* with an error, or was interrupted, after it had changed something; two
\* commands overlapped; an application was "created" while Argo CD was still
\* deleting it; a cluster was created under the name of a managed external one;
\* a profile was attached to a cluster that Argo CD was deleting.

ASSUME ConstantsAssumption ==
    /\ None \notin Profiles
    /\ {"arlon", "cluster"} \cap Profiles = {}
    /\ MaxCommands \in Nat

----------------------------------------------------------------------------
(* Data *)

\* A profile stands for the profile app of that name.
Apps == {"arlon", "cluster"} \cup Profiles

AppStates == {"absent", "live", "terminating"}

\* profile: the label and the two annotations that manage sets, or None;
\* bare: the secret has no other annotation.
Secret == [profile: Profiles \cup {None}, bare: BOOLEAN]
IsExternal == secret.profile # None

Idle == [op |-> "idle"]
Command ==
    [op: {"create", "delete", "ngupdate", "ngdelete", "manage", "unmanage"},
     profile: Profiles \cup {None},
     override: BOOLEAN,         \* create: with --overrides-path
     step: {"dir", "check", "arlon", "cluster", "profile", "list", "delete",
            "patch", "undo"},   \* the call it makes next
     todo: SUBSET Apps,         \* applications it has listed for deletion
     cleanup: BOOLEAN,          \* delete: the directory comes before the app
     begun: BOOLEAN,            \* it has changed something
     adopted: BOOLEAN,          \* history: its app was being deleted
     alone: BOOLEAN]            \* history: no other command beside it

TypeOK ==
    /\ apps \in [Apps -> AppStates]
    /\ overridden \in BOOLEAN
    /\ dir \in BOOLEAN
    /\ secret \in Secret
    /\ proc \in [Procs -> Command \cup {Idle}]
    /\ \A p \in Procs :
          /\ proc[p] # Idle
          /\ \/ proc[p].op \in {"ngupdate", "manage", "unmanage"}
             \/ proc[p].step = "profile"
          => proc[p].profile \in Profiles
    /\ done = None \/ done \in [op: {"create", "delete", "ngupdate", "ngdelete",
                                     "manage", "unmanage"},
                                profile: Profiles \cup {None},
                                adopted: BOOLEAN]
    /\ disturbed \in BOOLEAN
    /\ commands \in 0..MaxCommands

Init ==
    /\ apps = [a \in Apps |-> "absent"]
    /\ overridden = FALSE
    /\ dir = FALSE
    /\ secret \in [profile: {None}, bare: BOOLEAN]
    /\ proc = [p \in Procs |-> Idle]
    /\ done = None
    /\ disturbed = FALSE
    /\ commands = 0

\* cluster.List: a cluster app, also one being deleted, or a labelled secret.
Listed == apps["cluster"] # "absent" \/ IsExternal

\* cluster.Get looks at the secrets first, then for the cluster app.
GetFindsClusterApp == ~IsExternal /\ apps["cluster"] # "absent"

Live == {a \in Apps : apps[a] = "live"}

\* Argo CD's Create returns the existing application when it is the same,
\* also one that is being deleted.
Created(a) == [apps EXCEPT ![a] = IF @ = "absent" THEN "live" ELSE @]
Terminating(a) == apps[a] = "terminating"

\* Argo CD's Delete, of an application that exists.
Deleted(a) == [apps EXCEPT ![a] = "terminating"]

----------------------------------------------------------------------------
(* How a command starts and ends *)

Start(p, op, n, override, step, clash) ==
    LET others == {q \in Procs : proc[q] # Idle}
    IN /\ commands < MaxCommands
       /\ commands' = commands + 1
       /\ proc[p] = Idle
       /\ proc' = [q \in Procs |->
              IF q = p
              THEN [op |-> op, profile |-> n, override |-> override,
                    step |-> step, todo |-> {}, cleanup |-> FALSE,
                    begun |-> FALSE, adopted |-> FALSE,
                    alone |-> others = {}]
              ELSE IF q \in others THEN [proc[q] EXCEPT !.alone = FALSE]
              ELSE proc[q]]
       /\ done' = None
       /\ disturbed' = (disturbed \/ others # {} \/ clash)
       /\ UNCHANGED <<apps, overridden, dir, secret>>

At(p, ops, step) ==
    proc[p] # Idle /\ proc[p].op \in ops /\ proc[p].step = step

Goes(p, step) == proc' = [proc EXCEPT ![p].step = step, ![p].begun = TRUE]

Succeeds(p, adopted) ==
    /\ proc' = [proc EXCEPT ![p] = Idle]
    /\ done' = IF proc[p].alone
               THEN [op |-> proc[p].op, profile |-> proc[p].profile,
                     adopted |-> adopted]
               ELSE None

\* With an error, before or after a change.
Ends(p) ==
    /\ proc' = [proc EXCEPT ![p] = Idle]
    /\ disturbed' = (disturbed \/ proc[p].begun)
    /\ UNCHANGED done

----------------------------------------------------------------------------
(* create *)

\* With an override the command first asks whether the cluster exists.
Create(p, n, override) ==
    /\ override => apps["cluster"] = "absent"
    /\ Start(p, "create", n, override, IF override THEN "dir" ELSE "check",
             IsExternal)

CreatePatchDir(p) ==
    /\ At(p, {"create"}, "dir")
    /\ dir' = TRUE
    /\ Goes(p, "check")
    /\ UNCHANGED <<apps, overridden, secret, done, disturbed, commands>>

\* The template and the profile are in order, and there is no cluster app.
CheckCluster(p) ==
    /\ At(p, {"create"}, "check")
    /\ IF apps["cluster"] = "absent"
       THEN /\ proc' = [proc EXCEPT ![p].step = "arlon"]
            /\ UNCHANGED <<done, disturbed>>
       ELSE Ends(p)
    /\ UNCHANGED <<apps, overridden, dir, secret, commands>>

CreateArlonApp(p) ==
    /\ At(p, {"create"}, "arlon")
    /\ apps' = Created("arlon")
    /\ disturbed' = (disturbed \/ Terminating("arlon"))
    /\ Goes(p, "cluster")
    /\ UNCHANGED <<overridden, dir, secret, done, commands>>

\* Refused when there is one with another path.
CreateClusterApp(p) ==
    /\ At(p, {"create"}, "cluster")
    /\ IF apps["cluster"] # "absent" /\ overridden # proc[p].override
       THEN Ends(p) /\ UNCHANGED <<apps, overridden>>
       ELSE /\ apps' = Created("cluster")
            /\ overridden' = proc[p].override
            /\ disturbed' = (disturbed \/ Terminating("cluster"))
            /\ IF proc[p].profile = None THEN Succeeds(p, FALSE)
               ELSE Goes(p, "profile") /\ UNCHANGED done
    /\ UNCHANGED <<dir, secret, commands>>

\* The last step of create and of ngupdate.
CreateProfileApp(p) ==
    /\ At(p, {"create", "ngupdate"}, "profile")
    /\ apps' = Created(proc[p].profile)
    /\ disturbed' = (disturbed \/ Terminating(proc[p].profile))
    /\ Succeeds(p, Terminating(proc[p].profile))
    /\ UNCHANGED <<overridden, dir, secret, commands>>

----------------------------------------------------------------------------
(* delete and ngupdate *)

Delete(p) ==
    /\ GetFindsClusterApp
    /\ Start(p, "delete", None, FALSE, "list", FALSE)

NgUpdate(p, n) ==
    /\ apps["cluster"] # "absent"
    /\ Start(p, "ngupdate", n, FALSE, "list", Terminating("cluster"))

\* ngupdate --delete-profile
NgDelete(p) ==
    /\ apps["cluster"] # "absent"
    /\ Start(p, "ngdelete", None, FALSE, "list", FALSE)

BadRelatedNotArlon(op) ==
    {a \in IF op = "delete" THEN Apps \ {"arlon"} ELSE Profiles :
        apps[a] # "absent"}

\* The applications selected by label.
Related(op) ==
    {a \in IF op = "delete" THEN Apps ELSE Profiles : apps[a] # "absent"}

\* What follows once there is nothing left to delete.
AfterDeletes(p, changed) ==
    IF proc[p].op = "ngupdate"
    THEN /\ proc' = [proc EXCEPT ![p].step = "profile", ![p].begun = changed]
         /\ UNCHANGED done
    ELSE Succeeds(p, FALSE)

ListApps(p) ==
    LET todo == Related(proc[p].op)
    IN /\ At(p, {"delete", "ngupdate", "ngdelete"}, "list")
       /\ IF todo = {} THEN AfterDeletes(p, FALSE)
          ELSE /\ proc' = [proc EXCEPT
                      ![p].step = "delete", ![p].todo = todo,
                      ![p].cleanup = "cluster" \in todo /\ overridden]
               /\ UNCHANGED done
       /\ UNCHANGED <<apps, overridden, dir, secret, disturbed, commands>>

\* The directory of an override goes before its cluster app; a directory that
\* is not there is an error.
DeleteOverridesDir(p) ==
    /\ At(p, {"delete"}, "delete")
    /\ proc[p].cleanup
    /\ IF dir
       THEN /\ dir' = FALSE
            /\ proc' = [proc EXCEPT ![p].cleanup = FALSE, ![p].begun = TRUE]
            /\ UNCHANGED <<done, disturbed>>
       ELSE Ends(p) /\ UNCHANGED dir
    /\ UNCHANGED <<apps, overridden, secret, commands>>

BadDeleteAppFirstOnly(p, a) ==
    /\ At(p, {"delete", "ngupdate", "ngdelete"}, "delete")
    /\ a \in proc[p].todo
    /\ a = "cluster" => ~proc[p].cleanup
    /\ IF apps[a] = "absent"
       THEN Ends(p) /\ UNCHANGED apps
       ELSE /\ apps' = Deleted(a)
            /\ AfterDeletes(p, TRUE)
            /\ UNCHANGED disturbed
    /\ UNCHANGED <<overridden, dir, secret, commands>>

\* An application that has disappeared since the list is an error.
DeleteApp(p, a) ==
    /\ At(p, {"delete", "ngupdate", "ngdelete"}, "delete")
    /\ a \in proc[p].todo
    /\ a = "cluster" => ~proc[p].cleanup
    /\ IF apps[a] = "absent"
       THEN Ends(p) /\ UNCHANGED apps
       ELSE /\ apps' = Deleted(a)
            /\ IF proc[p].todo = {a} THEN AfterDeletes(p, TRUE)
               ELSE /\ proc' = [proc EXCEPT ![p].todo = @ \ {a},
                                            ![p].begun = TRUE]
                    /\ UNCHANGED done
            /\ UNCHANGED disturbed
    /\ UNCHANGED <<overridden, dir, secret, commands>>

----------------------------------------------------------------------------
(* manage and unmanage *)

\* ManageExternal, up to the first change: neither a cluster of arlon's nor
\* managed already.
Manage(p, n) ==
    /\ ~Listed
    /\ Start(p, "manage", n, FALSE, "profile", FALSE)

\* On a secret without annotations the assignment that follows panics.
ManageCreatesApp(p) ==
    LET n == proc[p].profile
    IN /\ At(p, {"manage"}, "profile")
       /\ apps' = Created(n)
       /\ IF secret.bare
          THEN /\ proc' = [proc EXCEPT ![p] = Idle]
               /\ disturbed' = TRUE
          ELSE /\ proc' = [proc EXCEPT ![p].step = "patch", ![p].begun = TRUE,
                                       ![p].adopted = Terminating(n)]
               /\ disturbed' = (disturbed \/ Terminating(n))
       /\ UNCHANGED <<overridden, dir, secret, done, commands>>

\* A merge patch: it applies to whatever the secret has become.
ManagePatches(p) ==
    /\ At(p, {"manage"}, "patch")
    /\ secret' = [secret EXCEPT !.profile = proc[p].profile]
    /\ Succeeds(p, proc[p].adopted)
    /\ UNCHANGED <<apps, overridden, dir, disturbed, commands>>

BadPatchFailsReturns(p) ==
    /\ At(p, {"manage"}, "patch")
    /\ proc' = [proc EXCEPT ![p] = Idle]
    /\ UNCHANGED <<apps, overridden, dir, secret, done, disturbed, commands>>

\* The patch fails, with or without effect, and the profile app must go.
PatchFails(p) ==
    /\ At(p, {"manage"}, "patch")
    /\ proc' = [proc EXCEPT ![p].step = "undo"]
    /\ \/ UNCHANGED <<secret, disturbed>>
       \/ /\ secret' = [secret EXCEPT !.profile = proc[p].profile]
          /\ disturbed' = TRUE
    /\ UNCHANGED <<apps, overridden, dir, done, commands>>

\* An application that is not there any more is only logged.
ManageUndoes(p) ==
    LET n == proc[p].profile
    IN /\ At(p, {"manage"}, "undo")
       /\ apps' = IF apps[n] = "absent" THEN apps ELSE Deleted(n)
       /\ proc' = [proc EXCEPT ![p] = Idle]
       /\ UNCHANGED <<overridden, dir, secret, done, disturbed, commands>>

BadUnmanageAny(p) ==
    Start(p, "unmanage", secret.profile, FALSE, "delete", FALSE)

\* UnmanageExternal, also when delete finds an external cluster.
Unmanage(p) ==
    /\ IsExternal
    /\ Start(p, "unmanage", secret.profile, FALSE, "delete", FALSE)

UnmanageDeletesApp(p) ==
    LET n == proc[p].profile
    IN /\ At(p, {"unmanage"}, "delete")
       /\ IF apps[n] = "absent"
          THEN Ends(p) /\ UNCHANGED apps
          ELSE /\ apps' = Deleted(n)
               /\ Goes(p, "patch")
               /\ UNCHANGED <<done, disturbed>>
       /\ UNCHANGED <<overridden, dir, secret, commands>>

BadUnmanagePatchesNothing(p) ==
    /\ At(p, {"unmanage"}, "patch")
    /\ Succeeds(p, FALSE)
    /\ UNCHANGED <<apps, overridden, dir, secret, disturbed, commands>>

UnmanagePatches(p) ==
    /\ At(p, {"unmanage"}, "patch")
    /\ secret' = [secret EXCEPT !.profile = None]
    /\ Succeeds(p, FALSE)
    /\ UNCHANGED <<apps, overridden, dir, disturbed, commands>>

----------------------------------------------------------------------------
(* Failures and Argo CD *)

\* A call fails, or the command is interrupted before it; nothing is undone.
Fail(p) ==
    /\ proc[p] # Idle
    /\ Ends(p)
    /\ UNCHANGED <<apps, overridden, dir, secret, commands>>

\* The cascading deletion ends.
ArgoDeletes(a) ==
    /\ apps[a] = "terminating"
    /\ apps' = [apps EXCEPT ![a] = "absent"]
    /\ UNCHANGED <<overridden, dir, secret, proc, done, disturbed, commands>>

Run(p) ==
    \/ \E n \in Profiles \cup {None}, o \in BOOLEAN : Create(p, n, o)
    \/ Delete(p)
    \/ \E n \in Profiles : NgUpdate(p, n)
    \/ NgDelete(p)
    \/ \E n \in Profiles : Manage(p, n)
    \/ Unmanage(p)

Step(p) ==
    \/ CreatePatchDir(p)
    \/ CheckCluster(p)
    \/ CreateArlonApp(p)
    \/ CreateClusterApp(p)
    \/ CreateProfileApp(p)
    \/ ListApps(p)
    \/ DeleteOverridesDir(p)
    \/ \E a \in Apps : DeleteApp(p, a)
    \/ ManageCreatesApp(p)
    \/ ManagePatches(p)
    \/ ManageUndoes(p)
    \/ UnmanageDeletesApp(p)
    \/ UnmanagePatches(p)

Next ==
    \/ \E p \in Procs : Run(p) \/ Step(p) \/ PatchFails(p) \/ Fail(p)
    \/ \E a \in Apps : ArgoDeletes(a)

Spec == Init /\ [][Next]_vars

----------------------------------------------------------------------------
(* Properties *)

\* Argo CD, git and the secret agree when no command is running: a managed
\* external cluster has exactly the profile app that its secret names; a
\* cluster of arlon's has its arlon app, at most one profile app and, with an
\* override, its directory; without a cluster nothing is left.  A manage whose
\* patch fails is made good by its compensation.  The only ways out of this are
\* the ones that disturbed records.
Consistent ==
    (~disturbed /\ \A p \in Procs : proc[p] = Idle) =>
        /\ IsExternal => Live = {secret.profile}
        /\ "cluster" \in Live =>
              "arlon" \in Live /\ \E n \in Profiles \cup {None} :
                                     Live \subseteq {"arlon", "cluster", n}
        /\ (~IsExternal /\ "cluster" \notin Live) => Live = {}
        /\ dir = ("cluster" \in Live /\ overridden)

\* A delete that succeeds, with no other command beside it, leaves no
\* application of the cluster, and no directory for the cluster app that Argo CD
\* is now deleting, whatever half-finished commands it found.
DeleteCleansUp ==
    (done # None /\ done.op = "delete") =>
        Live = {} /\ ~(Terminating("cluster") /\ overridden /\ dir)

\* After an ngupdate that succeeds, with no other command beside it, the new
\* profile is the only one attached, whatever was attached before; its profile
\* app stays, unless ngupdate found it being deleted.
NgUpdateReplaces ==
    (done # None /\ done.op \in {"ngupdate", "ngdelete"}) =>
        /\ Live \cap Profiles \subseteq {done.profile}
        /\ (done.op = "ngupdate" /\ ~done.adopted) => done.profile \in Live

\* A manage or unmanage that succeeds, with no other command beside it, leaves
\* the secret and the profile app as it should, whatever it found, unless
\* manage found the profile app being deleted.
ExternalSucceeds ==
    done # None =>
        /\ done.op = "manage" =>
              /\ secret.profile = done.profile
              /\ ~done.adopted => done.profile \in Live
        /\ done.op = "unmanage" =>
              ~IsExternal /\ done.profile \notin Live

----------------------------------------------------------------------------
(* The inductive invariant.  Its parts are about a command c and a state   *)
(* that is given by arguments: the applications, as, the annotation, over, *)
(* the directory, d, and the secret, s.                                    *)

LiveIn(as) == {a \in Apps : as[a] = "live"}

\* What Consistent says of Argo CD, git and the secret; besides, no cluster app
\* is left where others registered the cluster.
InOrder(as, over, d, s) ==
    /\ s.profile # None =>
          LiveIn(as) = {s.profile} /\ as["cluster"] = "absent"
    /\ "cluster" \in LiveIn(as) =>
          /\ "arlon" \in LiveIn(as)
          /\ \E n \in Profiles \cup {None} :
                LiveIn(as) \subseteq {"arlon", "cluster", n}
    /\ (s.profile = None /\ "cluster" \notin LiveIn(as)) => LiveIn(as) = {}
    /\ d = ("cluster" \in LiveIn(as) /\ over)

\* What a command with no other beside it has achieved at its step, whatever
\* state it found.
AloneInv(c, as, over, d) ==
    /\ (c.op = "delete" /\ c.step = "delete") =>
          /\ LiveIn(as) \subseteq c.todo
          /\ (as["cluster"] # "absent" /\ over /\ d) =>
                "cluster" \in c.todo /\ c.cleanup
    /\ (c.op \in {"ngupdate", "ngdelete"} /\ c.step = "delete") =>
          LiveIn(as) \cap Profiles \subseteq c.todo
    /\ (c.op = "ngupdate" /\ c.step = "profile") =>
          LiveIn(as) \cap Profiles = {}
    /\ (c.op = "manage" /\ c.step = "patch" /\ ~c.adopted) =>
          c.profile \in LiveIn(as)
    /\ (c.op = "unmanage" /\ c.step = "patch") => c.profile \notin LiveIn(as)

\* The state that a create has made at its step, if nothing disturbed it.
CreateInv(c, as, over, d, s) ==
    /\ s.profile = None
    /\ c.step = "dir" \/ (c.step = "check" /\ c.override) =>
          as["cluster"] = "absent" /\ LiveIn(as) = {}
    /\ c.step = "dir" => c.override
    /\ (c.step = "check" /\ c.override) => d
    /\ (c.step = "check" /\ ~c.override) => ~c.begun
    /\ c.step = "arlon" =>
          as["cluster"] = "absent" /\ LiveIn(as) = {} /\ d = c.override
    /\ c.step = "cluster" =>
          as["cluster"] = "absent" /\ LiveIn(as) = {"arlon"} /\ d = c.override
    /\ c.step = "profile" =>
          /\ LiveIn(as) = {"arlon", "cluster"}
          /\ over = c.override /\ d = c.override

\* The same of every command.  A command that has begun no change leaves
\* things in order, and so does ngupdate at any step.
UndisturbedInv(c, as, over, d, s) ==
    /\ ~c.begun \/ c.op \in {"ngupdate", "ngdelete"} =>
          InOrder(as, over, d, s)
    /\ c.op = "create" => CreateInv(c, as, over, d, s)
    /\ c.op \in {"delete", "ngupdate", "ngdelete"} => s.profile = None
    /\ (c.op \in {"ngupdate", "ngdelete"} /\ c.step = "delete") =>
          c.todo \subseteq Profiles
    /\ c.op = "delete" =>
          /\ c.step = "list" => ~c.begun
          /\ (c.step = "delete" /\ d) => "cluster" \in c.todo /\ c.cleanup
    /\ c.op = "ngupdate" => "cluster" \in LiveIn(as)
    /\ c.op = "manage" =>
          /\ s.profile = None /\ as["cluster"] = "absent" /\ ~d
          /\ c.step = "profile" => ~c.begun
          /\ c.step \in {"patch", "undo"} =>
                LiveIn(as) = {c.profile} /\ c.begun
    /\ c.op = "unmanage" =>
          /\ s.profile = c.profile /\ as["cluster"] = "absent" /\ ~d
          /\ c.step = "delete" => ~c.begun
          /\ c.step = "patch" => LiveIn(as) = {}

\* Only a command without another beside it is alone; as long as nothing was
\* disturbed every command is, and what it has left to do makes up for what it
\* has changed.
CommandsInv ==
    \A p \in Procs : proc[p] # Idle =>
        /\ proc[p].alone =>
              /\ \A q \in Procs : q # p => proc[q] = Idle
              /\ AloneInv(proc[p], apps, overridden, dir)
        /\ ~disturbed =>
              /\ proc[p].alone
              /\ UndisturbedInv(proc[p], apps, overridden, dir, secret)

IdleInv == ~disturbed /\ (\A p \in Procs : proc[p] = Idle) =>
               InOrder(apps, overridden, dir, secret)

DoneInv ==
    /\ done # None => \A p \in Procs : proc[p] = Idle
    /\ DeleteCleansUp
    /\ NgUpdateReplaces
    /\ ExternalSucceeds

\* The invariant that the proofs need.
IndInv == TypeOK /\ CommandsInv /\ IdleInv /\ DoneInv
=============================================================================
