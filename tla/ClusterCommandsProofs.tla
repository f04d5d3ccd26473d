------------------------ MODULE ClusterCommandsProofs ------------------------
(***************************************************************************)
(* Proofs about ClusterCommands: whatever commands run on a cluster name,  *)
(* in whatever order they fail or overlap, what they leave behind is in    *)
(* order unless something disturbed them, and a command that had no other  *)
(* beside it has done what it should.                                      *)
(***************************************************************************)
EXTENDS ClusterCommands, TLAPS

----------------------------------------------------------------------------
(* Applications *)

LEMMA AppNames ==
    /\ "arlon" \in Apps /\ "cluster" \in Apps /\ Profiles \subseteq Apps
    /\ "arlon" \notin Profiles /\ "cluster" \notin Profiles
    /\ \A x \in Apps : x = "arlon" \/ x = "cluster" \/ x \in Profiles
    /\ None \notin Profiles
BY ConstantsAssumption DEF Apps

\* The states of the applications after Argo CD's Create of x.
WithCreated(as, x) == [as EXCEPT ![x] = IF @ = "absent" THEN "live" ELSE @]

\* Create makes an application live unless Argo CD is deleting it.
LEMMA LiveCreated ==
    ASSUME NEW as \in [Apps -> AppStates], NEW x \in Apps
    PROVE  /\ WithCreated(as, x) \in [Apps -> AppStates]
           /\ as[x] # "terminating" => LiveIn(WithCreated(as, x)) = LiveIn(as) \cup {x}
           /\ as[x] = "terminating" => LiveIn(WithCreated(as, x)) = LiveIn(as)
           /\ \A y \in Apps : y # x => WithCreated(as, x)[y] = as[y]
BY DEF LiveIn, AppStates, WithCreated

\* Delete takes it away from the live ones.
LEMMA LiveDeleted ==
    ASSUME NEW as \in [Apps -> AppStates], NEW x \in Apps, NEW bs,
           bs = [as EXCEPT ![x] = "terminating"]
    PROVE  /\ bs \in [Apps -> AppStates]
           /\ LiveIn(bs) = LiveIn(as) \ {x}
           /\ \A y \in Apps : y # x => bs[y] = as[y]
BY DEF LiveIn, AppStates

LEMMA LiveIsLive == Live = LiveIn(apps)
BY DEF Live, LiveIn

----------------------------------------------------------------------------
(* Commands *)

LEMMA CommandIsNotIdle ==
    ASSUME NEW c \in Command
    PROVE  c # Idle
<1>1. c.op # "idle"
  BY DEF Command
<1>2. Idle.op = "idle"
  BY DEF Idle
<1>. QED  BY <1>1, <1>2

\* The fields of a command.
LEMMA CommandFields ==
    ASSUME NEW c \in Command
    PROVE  /\ c.op \in {"create", "delete", "ngupdate", "ngdelete", "manage",
                        "unmanage"}
           /\ c.profile \in Profiles \cup {None}
           /\ c.override \in BOOLEAN
           /\ c.step \in {"dir", "check", "arlon", "cluster", "profile",
                          "list", "delete", "patch", "undo"}
           /\ c.todo \in SUBSET Apps
           /\ c.cleanup \in BOOLEAN /\ c.begun \in BOOLEAN
           /\ c.adopted \in BOOLEAN /\ c.alone \in BOOLEAN
BY DEF Command

\* What the invariant says while a command is running.
LEMMA ActiveFacts ==
    ASSUME IndInv, NEW p \in Procs, proc[p] # Idle
    PROVE  /\ proc[p] \in Command
           /\ (\/ proc[p].op \in {"ngupdate", "manage", "unmanage"}
               \/ proc[p].step = "profile") => proc[p].profile \in Profiles
           /\ apps \in [Apps -> AppStates] /\ overridden \in BOOLEAN
           /\ dir \in BOOLEAN /\ secret \in Secret /\ disturbed \in BOOLEAN
           /\ done = None
           /\ proc[p].alone => AloneInv(proc[p], apps, overridden, dir)
           /\ ~disturbed =>
                 /\ proc[p].alone
                 /\ UndisturbedInv(proc[p], apps, overridden, dir, secret)
<1>1. proc[p] \in Command
  BY DEF IndInv, TypeOK
<1>2. /\ (\/ proc[p].op \in {"ngupdate", "manage", "unmanage"}
          \/ proc[p].step = "profile") => proc[p].profile \in Profiles
      /\ apps \in [Apps -> AppStates] /\ overridden \in BOOLEAN
      /\ dir \in BOOLEAN /\ secret \in Secret /\ disturbed \in BOOLEAN
  BY Zenon DEF IndInv, TypeOK
<1>3. done = None
  BY Zenon DEF IndInv, DoneInv
<1>4. /\ proc[p].alone => AloneInv(proc[p], apps, overridden, dir)
      /\ ~disturbed =>
            /\ proc[p].alone
            /\ UndisturbedInv(proc[p], apps, overridden, dir, secret)
  BY Zenon DEF IndInv, CommandsInv
<1>. QED  BY <1>1, <1>2, <1>3, <1>4, Zenon

\* While a command is running, no other is alone, and more than one means that
\* something was disturbed.
LEMMA OthersFacts ==
    ASSUME IndInv, NEW p \in Procs, proc[p] # Idle, NEW q \in Procs, q # p,
           proc[q] # Idle
    PROVE  ~proc[q].alone /\ ~proc[p].alone /\ disturbed
BY Zenon DEF IndInv, CommandsInv

\* A command goes on: the invariant holds again if it does of its new record.
LEMMA GoesOn ==
    ASSUME IndInv, NEW p \in Procs, proc[p] # Idle, NEW r \in Command,
           proc' = [proc EXCEPT ![p] = r],
           r.op = proc[p].op, r.profile = proc[p].profile,
           r.alone = proc[p].alone,
           r.step = "profile" => r.profile \in Profiles,
           apps' \in [Apps -> AppStates], overridden' \in BOOLEAN,
           dir' \in BOOLEAN, secret' \in Secret, disturbed' \in BOOLEAN,
           done' = done, commands' = commands,
           ~disturbed' => ~disturbed,
           r.alone => AloneInv(r, apps', overridden', dir'),
           ~disturbed' => UndisturbedInv(r, apps', overridden', dir', secret')
    PROVE  IndInv'
<1>1. proc \in [Procs -> Command \cup {Idle}] /\ done' = None
  BY ActiveFacts, Zenon DEF IndInv, TypeOK
<1>2. proc'[p] = r /\ \A q \in Procs : q # p => proc'[q] = proc[q]
  BY <1>1
<1>3. r # Idle
  BY CommandIsNotIdle
<1>4. TypeOK'
  <2>1. proc' \in [Procs -> Command \cup {Idle}]
    BY <1>1
  <2>2. \A q \in Procs :
            /\ proc'[q] # Idle
            /\ \/ proc'[q].op \in {"ngupdate", "manage", "unmanage"}
               \/ proc'[q].step = "profile"
            => proc'[q].profile \in Profiles
    BY <1>2, Zenon DEF IndInv, TypeOK
  <2>3. commands' \in 0..MaxCommands
    BY Zenon DEF IndInv, TypeOK
  <2>. QED  BY <1>1, <2>1, <2>2, <2>3, Zenon DEF TypeOK
<1>5. CommandsInv'
  <2>. SUFFICES ASSUME NEW q \in Procs, proc'[q] # Idle
                PROVE  /\ proc'[q].alone =>
                             /\ \A o \in Procs : o # q => proc'[o] = Idle
                             /\ AloneInv(proc'[q], apps', overridden', dir')
                       /\ ~disturbed' =>
                             /\ proc'[q].alone
                             /\ UndisturbedInv(proc'[q], apps', overridden',
                                               dir', secret')
    BY Zenon DEF CommandsInv
  <2>1. CASE q = p
    <3>1. r.alone => \A o \in Procs : o # p => proc'[o] = Idle
      BY <1>2, OthersFacts, Zenon
    <3>2. ~disturbed' => r.alone
      BY ActiveFacts, Zenon
    <3>. QED  BY <1>2, <2>1, <3>1, <3>2, Zenon
  <2>2. CASE q # p
    BY <1>2, <2>2, OthersFacts, Zenon
  <2>. QED  BY <2>1, <2>2
<1>6. IdleInv'
  BY <1>2, <1>3, Zenon DEF IdleInv
<1>7. DoneInv'
  BY <1>1, Zenon DEF DoneInv, DeleteCleansUp, NgUpdateReplaces,
     ExternalSucceeds
<1>. QED  BY <1>4, <1>5, <1>6, <1>7, Zenon DEF IndInv

\* A command ends without success.
LEMMA EndsKeeps ==
    ASSUME IndInv, NEW p \in Procs, proc[p] # Idle,
           proc' = [proc EXCEPT ![p] = Idle],
           apps' \in [Apps -> AppStates], overridden' \in BOOLEAN,
           dir' \in BOOLEAN, secret' \in Secret, disturbed' \in BOOLEAN,
           done' = done, commands' = commands,
           ~disturbed' => ~disturbed,
           ~disturbed' => InOrder(apps', overridden', dir', secret')
    PROVE  IndInv'
<1>1. proc \in [Procs -> Command \cup {Idle}] /\ done' = None
  BY ActiveFacts, Zenon DEF IndInv, TypeOK
<1>2. proc'[p] = Idle /\ \A q \in Procs : q # p => proc'[q] = proc[q]
  BY <1>1
<1>3. TypeOK'
  <2>1. proc' \in [Procs -> Command \cup {Idle}]
    BY <1>1
  <2>3. \A q \in Procs :
            /\ proc'[q] # Idle
            /\ \/ proc'[q].op \in {"ngupdate", "manage", "unmanage"}
               \/ proc'[q].step = "profile"
            => proc'[q].profile \in Profiles
    BY <1>2, Zenon DEF IndInv, TypeOK
  <2>4. commands' \in 0..MaxCommands
    BY Zenon DEF IndInv, TypeOK
  <2>. QED  BY <1>1, <2>1, <2>3, <2>4, Zenon DEF TypeOK
<1>4. CommandsInv'
  BY <1>2, OthersFacts, Zenon DEF CommandsInv
<1>5. IdleInv'
  BY Zenon DEF IdleInv
<1>6. DoneInv'
  BY <1>1, Zenon DEF DoneInv, DeleteCleansUp, NgUpdateReplaces,
     ExternalSucceeds
<1>. QED  BY <1>3, <1>4, <1>5, <1>6, Zenon DEF IndInv

\* A command succeeds: it has to have done what it should if it was alone.
LEMMA SucceedsKeeps ==
    ASSUME IndInv, NEW p \in Procs, proc[p] # Idle, NEW adopted \in BOOLEAN,
           Succeeds(p, adopted),
           apps' \in [Apps -> AppStates], overridden' \in BOOLEAN,
           dir' \in BOOLEAN, secret' \in Secret, disturbed' \in BOOLEAN,
           commands' = commands,
           ~disturbed' => ~disturbed,
           ~disturbed' => InOrder(apps', overridden', dir', secret'),
           proc[p].alone /\ proc[p].op = "delete" =>
               /\ LiveIn(apps') = {}
               /\ ~(apps'["cluster"] = "terminating" /\ overridden' /\ dir'),
           proc[p].alone /\ proc[p].op \in {"ngupdate", "ngdelete"} =>
               /\ LiveIn(apps') \cap Profiles \subseteq {proc[p].profile}
               /\ (proc[p].op = "ngupdate" /\ ~adopted) =>
                     proc[p].profile \in LiveIn(apps'),
           proc[p].alone /\ proc[p].op = "manage" =>
               /\ secret'.profile = proc[p].profile
               /\ ~adopted => proc[p].profile \in LiveIn(apps'),
           proc[p].alone /\ proc[p].op = "unmanage" =>
               secret'.profile = None /\ proc[p].profile \notin LiveIn(apps')
    PROVE  IndInv'
<1>. DEFINE r == [op |-> proc[p].op, profile |-> proc[p].profile,
                  adopted |-> adopted]
<1>1. /\ proc \in [Procs -> Command \cup {Idle}]
      /\ proc' = [proc EXCEPT ![p] = Idle]
      /\ done' = IF proc[p].alone THEN r ELSE None
  BY Zenon DEF IndInv, TypeOK, Succeeds
<1>2. proc'[p] = Idle /\ \A q \in Procs : q # p => proc'[q] = proc[q]
  BY <1>1
<1>3. /\ r.op = proc[p].op /\ r.profile = proc[p].profile
      /\ r.adopted = adopted
  OBVIOUS
<1>4. r \in [op: {"create", "delete", "ngupdate", "ngdelete", "manage",
                  "unmanage"},
             profile: Profiles \cup {None}, adopted: BOOLEAN]
  BY ActiveFacts, CommandFields
<1>. HIDE DEF r
<1>5. TypeOK'
  <2>1. proc' \in [Procs -> Command \cup {Idle}]
    BY <1>1
  <2>3. \A q \in Procs :
            /\ proc'[q] # Idle
            /\ \/ proc'[q].op \in {"ngupdate", "manage", "unmanage"}
               \/ proc'[q].step = "profile"
            => proc'[q].profile \in Profiles
    BY <1>2, Zenon DEF IndInv, TypeOK
  <2>4. commands' \in 0..MaxCommands
    BY Zenon DEF IndInv, TypeOK
  <2>. QED  BY <1>1, <1>4, <2>1, <2>3, <2>4, Zenon DEF TypeOK
<1>6. CommandsInv'
  BY <1>2, OthersFacts, Zenon DEF CommandsInv
<1>7. IdleInv'
  BY Zenon DEF IdleInv
<1>8. done' # None => done' = r /\ proc[p].alone
  BY <1>1, Zenon
<1>9. done' # None => \A q \in Procs : proc'[q] = Idle
  <2>. SUFFICES ASSUME done' # None, NEW q \in Procs, q # p
                PROVE  proc[q] = Idle
    BY <1>2, Zenon
  <2>1. proc[p].alone
    BY <1>8, Zenon
  <2>. QED  BY <2>1, OthersFacts
<1>10. Live' = LiveIn(apps')
  BY DEF Live, LiveIn
<1>11. DeleteCleansUp'
  BY <1>3, <1>8, <1>10, Zenon DEF DeleteCleansUp, Terminating
<1>12. NgUpdateReplaces'
  BY <1>3, <1>8, <1>10 DEF NgUpdateReplaces
<1>13. ExternalSucceeds'
  BY <1>3, <1>8, <1>10, Zenon DEF ExternalSucceeds, IsExternal
<1>. QED  BY <1>5, <1>6, <1>7, <1>9, <1>11, <1>12, <1>13, Zenon
             DEF IndInv, DoneInv

----------------------------------------------------------------------------
(* How commands start *)

\* A command that starts is alone if no other is running; everything is in
\* order then unless something was disturbed before.
LEMMA StartKeeps ==
    ASSUME IndInv, NEW p \in Procs,
           NEW op \in {"create", "delete", "ngupdate", "ngdelete", "manage",
                       "unmanage"},
           NEW n \in Profiles \cup {None}, NEW override \in BOOLEAN,
           NEW step \in {"dir", "check", "list", "profile", "delete"},
           NEW clash \in BOOLEAN,
           Start(p, op, n, override, step, clash),
           op \in {"ngupdate", "manage", "unmanage"} \/ step = "profile" =>
               n \in Profiles,
           \A c \in Command :
               /\ c.op = op /\ c.step = step /\ c.profile = n
               /\ c.override = override /\ ~c.begun
               => /\ AloneInv(c, apps, overridden, dir)
                  /\ ~clash /\ InOrder(apps, overridden, dir, secret) =>
                        UndisturbedInv(c, apps, overridden, dir, secret)
    PROVE  IndInv'
<1>. DEFINE others == {q \in Procs : proc[q] # Idle}
            r == [op |-> op, profile |-> n, override |-> override,
                  step |-> step, todo |-> {}, cleanup |-> FALSE,
                  begun |-> FALSE, adopted |-> FALSE, alone |-> others = {}]
<1>1. /\ commands < MaxCommands /\ commands' = commands + 1
      /\ proc[p] = Idle /\ done' = None
      /\ disturbed' = (disturbed \/ others # {} \/ clash)
      /\ apps' = apps /\ overridden' = overridden /\ dir' = dir
      /\ secret' = secret
  BY DEF Start
<1>2. proc' = [q \in Procs |-> IF q = p THEN r
                               ELSE IF q \in others
                                    THEN [proc[q] EXCEPT !.alone = FALSE]
                                    ELSE proc[q]]
  BY DEF Start
<1>3. /\ r \in Command /\ r.op = op /\ r.profile = n
      /\ r.override = override /\ r.step = step /\ ~r.begun
      /\ r.alone = (others = {})
  BY DEF Command
<1>. HIDE DEF r
<1>4. /\ apps \in [Apps -> AppStates] /\ overridden \in BOOLEAN
      /\ dir \in BOOLEAN /\ secret \in Secret /\ disturbed \in BOOLEAN
      /\ proc \in [Procs -> Command \cup {Idle}]
      /\ \A q \in Procs :
            /\ proc[q] # Idle
            /\ \/ proc[q].op \in {"ngupdate", "manage", "unmanage"}
               \/ proc[q].step = "profile"
            => proc[q].profile \in Profiles
  BY Zenon DEF IndInv, TypeOK
<1>5. ASSUME NEW q \in others
      PROVE  /\ [proc[q] EXCEPT !.alone = FALSE] \in Command
             /\ [proc[q] EXCEPT !.alone = FALSE].op = proc[q].op
             /\ [proc[q] EXCEPT !.alone = FALSE].profile = proc[q].profile
             /\ [proc[q] EXCEPT !.alone = FALSE].step = proc[q].step
             /\ ~[proc[q] EXCEPT !.alone = FALSE].alone
  <2>1. proc[q] \in Command
    BY <1>4
  <2>. QED  BY <2>1 DEF Command
<1>6. proc'[p] = r
  BY <1>2
<1>7. ASSUME NEW q \in Procs, q # p
      PROVE  /\ proc'[q] \in Command \cup {Idle}
             /\ proc[q] # Idle =>
                   /\ proc'[q].op = proc[q].op
                   /\ proc'[q].profile = proc[q].profile
                   /\ proc'[q].step = proc[q].step
             /\ proc[q] = Idle => proc'[q] = Idle
             /\ proc[q] # Idle => ~proc'[q].alone /\ others # {}
  <2>1. CASE q \in others
    <3>1. proc'[q] = [proc[q] EXCEPT !.alone = FALSE]
      BY <1>2, <1>7, <2>1
    <3>. QED  BY <3>1, <1>5, <2>1
  <2>2. CASE q \notin others
    <3>1. proc'[q] = proc[q]
      BY <1>2, <1>7, <2>2
    <3>. QED  BY <3>1, <2>2, <1>4
  <2>. QED  BY <2>1, <2>2
<1>8. TypeOK'
  <2>1. proc' \in [Procs -> Command \cup {Idle}]
    <3>1. \A q \in Procs : proc'[q] \in Command \cup {Idle}
      BY <1>3, <1>6, <1>7
    <3>. QED  BY <3>1, <1>2
  <2>2. ASSUME NEW q \in Procs, proc'[q] # Idle
        PROVE  (\/ proc'[q].op \in {"ngupdate", "manage", "unmanage"}
                \/ proc'[q].step = "profile") => proc'[q].profile \in Profiles
    <3>1. CASE q = p
      BY <3>1, <1>3, <1>6
    <3>2. CASE q # p
      <4>1. proc[q] # Idle
        BY <2>2, <3>2, <1>7
      <4>. QED  BY <4>1, <3>2, <1>4, <1>7
    <3>. QED  BY <3>1, <3>2
  <2>3. commands' \in 0..MaxCommands
    <3>1. commands \in 0..MaxCommands
      BY Zenon DEF IndInv, TypeOK
    <3>. QED  BY <3>1, <1>1, ConstantsAssumption
  <2>4. disturbed' \in BOOLEAN
    BY <1>1
  <2>. QED  BY <1>1, <1>4, <2>1, <2>2, <2>3, <2>4, Zenon DEF TypeOK
<1>9. CommandsInv'
  <2>. SUFFICES ASSUME NEW q \in Procs, proc'[q] # Idle
                PROVE  /\ proc'[q].alone =>
                             /\ \A o \in Procs : o # q => proc'[o] = Idle
                             /\ AloneInv(proc'[q], apps', overridden', dir')
                       /\ ~disturbed' =>
                             /\ proc'[q].alone
                             /\ UndisturbedInv(proc'[q], apps', overridden',
                                               dir', secret')
    BY Zenon DEF CommandsInv
  <2>1. CASE q = p
    <3>1. r.alone => \A o \in Procs : o # p => proc'[o] = Idle
      BY <1>3, <1>7
    <3>2. AloneInv(r, apps, overridden, dir)
      BY <1>3, Zenon
    <3>3. ~disturbed' => r.alone /\ ~clash /\ ~disturbed
      BY <1>1, <1>3
    <3>4. ~disturbed' => InOrder(apps, overridden, dir, secret)
      <4>1. ~disturbed' => ~disturbed /\ \A o \in Procs : proc[o] = Idle
        BY <1>1
      <4>. QED  BY <4>1, Zenon DEF IndInv, IdleInv
    <3>5. ~disturbed' => UndisturbedInv(r, apps, overridden, dir, secret)
      BY <1>3, <3>3, <3>4, Zenon
    <3>. QED  BY <1>1, <1>6, <2>1, <3>1, <3>2, <3>3, <3>5, Zenon
  <2>2. CASE q # p
    <3>1. proc[q] # Idle
      BY <1>7, <2>2
    <3>2. ~proc'[q].alone /\ disturbed'
      BY <1>1, <1>7, <2>2, <3>1
    <3>. QED  BY <3>2, Zenon
  <2>. QED  BY <2>1, <2>2
<1>10. IdleInv'
  <2>1. proc'[p] # Idle
    BY <1>3, <1>6, CommandIsNotIdle
  <2>. QED  BY <2>1, Zenon DEF IdleInv
<1>11. DoneInv'
  BY <1>1, Zenon DEF DoneInv, DeleteCleansUp, NgUpdateReplaces,
     ExternalSucceeds
<1>. QED  BY <1>8, <1>9, <1>10, <1>11, Zenon DEF IndInv

\* The conditions under which the commands start.
LEMMA RunKeeps ==
    ASSUME IndInv, NEW p \in Procs, Run(p)
    PROVE  IndInv'
<1>1. ASSUME NEW n \in Profiles \cup {None}, NEW o \in BOOLEAN, Create(p, n, o)
      PROVE  IndInv'
  <2>. DEFINE step == IF o THEN "dir" ELSE "check"
  <2>1. /\ o => apps["cluster"] = "absent"
        /\ Start(p, "create", n, o, step, IsExternal)
    BY <1>1 DEF Create
  <2>2. step \in {"dir", "check"} /\ (step = "dir" <=> o)
    OBVIOUS
  <2>. HIDE DEF step
  <2>3. IsExternal \in BOOLEAN /\ (IsExternal <=> secret.profile # None)
    BY DEF IsExternal
  <2>4. ASSUME NEW c \in Command, c.op = "create", c.step = step,
               c.override = o, ~c.begun
        PROVE  /\ AloneInv(c, apps, overridden, dir)
               /\ ~IsExternal /\ InOrder(apps, overridden, dir, secret) =>
                     UndisturbedInv(c, apps, overridden, dir, secret)
    <3>1. AloneInv(c, apps, overridden, dir)
      BY <2>4 DEF AloneInv
    <3>2. ASSUME ~IsExternal, InOrder(apps, overridden, dir, secret)
          PROVE  CreateInv(c, apps, overridden, dir, secret)
      <4>1. o => "cluster" \notin LiveIn(apps) /\ LiveIn(apps) = {}
        BY <2>1, <2>3, <3>2 DEF InOrder, LiveIn
      <4>. QED  BY <2>1, <2>2, <2>3, <2>4, <3>2, <4>1 DEF CreateInv
    <3>3. ASSUME ~IsExternal, InOrder(apps, overridden, dir, secret)
          PROVE  UndisturbedInv(c, apps, overridden, dir, secret)
      BY <2>4, <3>2, <3>3 DEF UndisturbedInv
    <3>. QED  BY <3>1, <3>3
  <2>5. /\ "create" \in {"create", "delete", "ngupdate", "ngdelete", "manage",
              "unmanage"}
        /\ step \in {"dir", "check", "list", "profile", "delete"}
        /\ "create" \notin {"ngupdate", "manage", "unmanage"}
        /\ step # "profile"
    BY <2>1, <2>2
  <2>. QED  BY <2>1, <2>2, <2>3, <2>4, <2>5, StartKeeps
<1>2. CASE Delete(p)
  <2>. DEFINE off == FALSE
  <2>1. /\ secret.profile = None
        /\ Start(p, "delete", None, off, "list", off)
    BY <1>2 DEF Delete, GetFindsClusterApp, IsExternal
  <2>0. off \in BOOLEAN /\ ~off
    OBVIOUS
  <2>. HIDE DEF off
  <2>2. ASSUME NEW c \in Command, c.op = "delete", c.step = "list", ~c.begun
        PROVE  /\ AloneInv(c, apps, overridden, dir)
               /\ InOrder(apps, overridden, dir, secret) =>
                     UndisturbedInv(c, apps, overridden, dir, secret)
    BY <2>1, <2>2 DEF AloneInv, UndisturbedInv
  <2>5. /\ "delete" \in {"create", "delete", "ngupdate", "ngdelete", "manage",
              "unmanage"}
        /\ "list" \in {"dir", "check", "list", "profile", "delete"}
        /\ "delete" \notin {"ngupdate", "manage", "unmanage"}
        /\ "list" # "profile"
    BY <2>1
  <2>. QED  BY <2>1, <2>2, <2>5, <2>0, StartKeeps
<1>3. ASSUME NEW n \in Profiles, NgUpdate(p, n)
      PROVE  IndInv'
  <2>. DEFINE off == FALSE
  <2>1. /\ apps["cluster"] # "absent"
        /\ Start(p, "ngupdate", n, off, "list", Terminating("cluster"))
    BY <1>3 DEF NgUpdate
  <2>0. off \in BOOLEAN /\ ~off
    OBVIOUS
  <2>. HIDE DEF off
  <2>2. Terminating("cluster") \in BOOLEAN
    BY DEF Terminating
  <2>3. ~Terminating("cluster") => "cluster" \in LiveIn(apps)
    BY <2>1, AppNames DEF IndInv, TypeOK, AppStates, LiveIn, Terminating
  <2>4. ASSUME NEW c \in Command, c.op = "ngupdate", c.step = "list", ~c.begun
        PROVE  /\ AloneInv(c, apps, overridden, dir)
               /\ ~Terminating("cluster")
                  /\ InOrder(apps, overridden, dir, secret) =>
                     UndisturbedInv(c, apps, overridden, dir, secret)
    BY <2>1, <2>3, <2>4 DEF InOrder, AloneInv, UndisturbedInv
  <2>5. /\ "ngupdate" \in {"create", "delete", "ngupdate", "ngdelete", "manage",
              "unmanage"}
        /\ "list" \in {"dir", "check", "list", "profile", "delete"}
    BY <2>1
  <2>. QED  BY <2>1, <2>2, <2>4, <2>5, <2>0, StartKeeps
<1>4. CASE NgDelete(p)
  <2>. DEFINE off == FALSE
  <2>1. /\ apps["cluster"] # "absent"
        /\ Start(p, "ngdelete", None, off, "list", off)
    BY <1>4 DEF NgDelete
  <2>0. off \in BOOLEAN /\ ~off
    OBVIOUS
  <2>. HIDE DEF off
  <2>2. ASSUME NEW c \in Command, c.op = "ngdelete", c.step = "list", ~c.begun
        PROVE  /\ AloneInv(c, apps, overridden, dir)
               /\ InOrder(apps, overridden, dir, secret) =>
                     UndisturbedInv(c, apps, overridden, dir, secret)
    BY <2>1, <2>2 DEF InOrder, AloneInv, UndisturbedInv
  <2>5. /\ "ngdelete" \in {"create", "delete", "ngupdate", "ngdelete", "manage",
              "unmanage"}
        /\ "list" \in {"dir", "check", "list", "profile", "delete"}
        /\ "ngdelete" \notin {"ngupdate", "manage", "unmanage"}
        /\ "list" # "profile"
    BY <2>1
  <2>. QED  BY <2>1, <2>2, <2>5, <2>0, StartKeeps
<1>5. ASSUME NEW n \in Profiles, Manage(p, n)
      PROVE  IndInv'
  <2>. DEFINE off == FALSE
  <2>1. /\ apps["cluster"] = "absent" /\ secret.profile = None
        /\ Start(p, "manage", n, off, "profile", off)
    BY <1>5 DEF Manage, Listed, IsExternal
  <2>0. off \in BOOLEAN /\ ~off
    OBVIOUS
  <2>. HIDE DEF off
  <2>2. InOrder(apps, overridden, dir, secret) => ~dir
    BY <2>1 DEF InOrder, LiveIn
  <2>3. ASSUME NEW c \in Command, c.op = "manage", c.step = "profile", ~c.begun
        PROVE  /\ AloneInv(c, apps, overridden, dir)
               /\ InOrder(apps, overridden, dir, secret) =>
                     UndisturbedInv(c, apps, overridden, dir, secret)
    BY <2>1, <2>2, <2>3 DEF AloneInv, UndisturbedInv
  <2>5. /\ "manage" \in {"create", "delete", "ngupdate", "ngdelete", "manage",
              "unmanage"}
        /\ "profile" \in {"dir", "check", "list", "profile", "delete"}
    BY <2>1
  <2>. QED  BY <2>1, <2>3, <2>5, <2>0, StartKeeps
<1>6. CASE Unmanage(p)
  <2>. DEFINE off == FALSE
  <2>1. /\ secret.profile \in Profiles
        /\ Start(p, "unmanage", secret.profile, off, "delete", off)
    BY <1>6 DEF Unmanage, IsExternal, IndInv, TypeOK, Secret
  <2>0. off \in BOOLEAN /\ ~off
    OBVIOUS
  <2>. HIDE DEF off
  <2>2. secret.profile # None
    BY <2>1, AppNames
  <2>3. InOrder(apps, overridden, dir, secret) =>
            ~dir /\ apps["cluster"] = "absent"
    BY <2>2 DEF InOrder, LiveIn
  <2>4. ASSUME NEW c \in Command, c.op = "unmanage", c.step = "delete",
               c.profile = secret.profile, ~c.begun
        PROVE  /\ AloneInv(c, apps, overridden, dir)
               /\ InOrder(apps, overridden, dir, secret) =>
                     UndisturbedInv(c, apps, overridden, dir, secret)
    BY <2>3, <2>4 DEF AloneInv, UndisturbedInv
  <2>5. /\ "unmanage" \in {"create", "delete", "ngupdate", "ngdelete", "manage",
              "unmanage"}
        /\ "delete" \in {"dir", "check", "list", "profile", "delete"}
    BY <2>1
  <2>6. /\ secret.profile \in Profiles \cup {None}
        /\ \A c \in Command :
              /\ c.op = "unmanage" /\ c.step = "delete"
              /\ c.profile = secret.profile /\ c.override = off /\ ~c.begun
              => /\ AloneInv(c, apps, overridden, dir)
                 /\ ~off /\ InOrder(apps, overridden, dir, secret) =>
                       UndisturbedInv(c, apps, overridden, dir, secret)
    BY <2>1, <2>4
  <2>. QED  BY <2>1, <2>5, <2>6, <2>0, StartKeeps
<1>. QED  BY <1>1, <1>2, <1>3, <1>4, <1>5, <1>6, Zenon DEF Run

----------------------------------------------------------------------------
(* create *)

LEMMA CreatePatchDirKeeps ==
    ASSUME IndInv, NEW p \in Procs, CreatePatchDir(p)
    PROVE  IndInv'
<1>. DEFINE r == [proc[p] EXCEPT !.step = "check", !.begun = TRUE]
<1>1. /\ proc[p] # Idle /\ proc[p].op = "create" /\ proc[p].step = "dir"
      /\ proc' = [proc EXCEPT ![p] = r] /\ dir' = TRUE
      /\ UNCHANGED <<apps, overridden, secret, done, disturbed, commands>>
  BY DEF CreatePatchDir, At, Goes
<1>2. /\ r \in Command /\ r.op = proc[p].op /\ r.profile = proc[p].profile
      /\ r.alone = proc[p].alone /\ r.step = "check" /\ r.begun
      /\ r.override = proc[p].override
  <2>1. proc[p] \in Command
    BY <1>1, ActiveFacts
  <2>. QED  BY <2>1 DEF Command
<1>. HIDE DEF r
<1>3. AloneInv(r, apps', overridden', dir')
  BY <1>1, <1>2 DEF AloneInv
<1>4. ~disturbed' => UndisturbedInv(r, apps', overridden', dir', secret')
  <2>. SUFFICES ASSUME ~disturbed
                PROVE  UndisturbedInv(r, apps, overridden, TRUE, secret)
    BY <1>1, Zenon
  <2>1. UndisturbedInv(proc[p], apps, overridden, dir, secret)
    BY <1>1, ActiveFacts
  <2>. QED  BY <1>1, <1>2, <2>1 DEF UndisturbedInv, CreateInv
<1>5. /\ apps' \in [Apps -> AppStates] /\ overridden' \in BOOLEAN
      /\ dir' \in BOOLEAN /\ secret' \in Secret /\ disturbed' \in BOOLEAN
  BY <1>1, ActiveFacts
<1>. QED  BY <1>1, <1>2, <1>3, <1>4, <1>5, GoesOn

LEMMA CheckClusterKeeps ==
    ASSUME IndInv, NEW p \in Procs, CheckCluster(p)
    PROVE  IndInv'
<1>. DEFINE r == [proc[p] EXCEPT !.step = "arlon"]
<1>1. /\ proc[p] # Idle /\ proc[p].op = "create" /\ proc[p].step = "check"
      /\ UNCHANGED <<apps, overridden, dir, secret, commands, done>>
  BY DEF CheckCluster, At, Ends
<1>2. /\ apps' \in [Apps -> AppStates] /\ overridden' \in BOOLEAN
      /\ dir' \in BOOLEAN /\ secret' \in Secret /\ disturbed \in BOOLEAN
  BY <1>1, ActiveFacts
<1>3. ~disturbed => UndisturbedInv(proc[p], apps, overridden, dir, secret)
  BY <1>1, ActiveFacts
<1>4. CASE apps["cluster"] = "absent"
  <2>1. disturbed' = disturbed /\ proc' = [proc EXCEPT ![p] = r]
    BY <1>4 DEF CheckCluster
  <2>2. /\ r \in Command /\ r.op = proc[p].op /\ r.profile = proc[p].profile
        /\ r.alone = proc[p].alone /\ r.step = "arlon"
        /\ r.begun = proc[p].begun /\ r.override = proc[p].override
    BY <1>1, ActiveFacts DEF Command
  <2>. HIDE DEF r
  <2>3. AloneInv(r, apps', overridden', dir')
    BY <1>1, <2>2 DEF AloneInv
  <2>4. ~disturbed' => UndisturbedInv(r, apps', overridden', dir', secret')
    <3>. SUFFICES ASSUME ~disturbed
                  PROVE  UndisturbedInv(r, apps, overridden, dir, secret)
      BY <1>1, <2>1, Zenon
    <3>1. CreateInv(proc[p], apps, overridden, dir, secret)
      BY <1>1, <1>3 DEF UndisturbedInv
    <3>2. ~proc[p].begun => InOrder(apps, overridden, dir, secret)
      BY <1>3 DEF UndisturbedInv
    <3>3. CASE proc[p].override
      BY <1>1, <1>4, <2>2, <3>1, <3>2, <3>3, ActiveFacts
         DEF UndisturbedInv, CreateInv
    <3>4. CASE ~proc[p].override
      <4>1. InOrder(apps, overridden, dir, secret) /\ secret.profile = None
        BY <1>1, <3>1, <3>2, <3>4 DEF CreateInv
      <4>2. LiveIn(apps) = {} /\ ~dir
        BY <1>4, <4>1 DEF InOrder, LiveIn
      <4>3. dir = r.override
        <5>1. dir \in BOOLEAN /\ proc[p].override \in BOOLEAN
          BY <1>1, ActiveFacts, CommandFields
        <5>. QED  BY <2>2, <3>4, <4>2, <5>1
      <4>4. CreateInv(r, apps, overridden, dir, secret)
        BY <1>4, <2>2, <4>1, <4>2, <4>3 DEF CreateInv
      <4>. QED  BY <1>1, <2>2, <4>1, <4>4 DEF UndisturbedInv
    <3>. QED  BY <3>3, <3>4
  <2>. QED  BY <1>1, <1>2, <2>1, <2>2, <2>3, <2>4, GoesOn
<1>5. CASE apps["cluster"] # "absent"
  <2>1. /\ proc' = [proc EXCEPT ![p] = Idle]
        /\ disturbed' = (disturbed \/ proc[p].begun)
    BY <1>5 DEF CheckCluster, Ends
  <2>2. ~disturbed' => InOrder(apps', overridden', dir', secret')
    BY <1>1, <1>3, <2>1 DEF UndisturbedInv
  <2>3. disturbed' \in BOOLEAN /\ (~disturbed' => ~disturbed)
    BY <1>2, <2>1
  <2>. QED  BY <1>1, <1>2, <2>1, <2>2, <2>3, EndsKeeps
<1>. QED  BY <1>4, <1>5

LEMMA CreateArlonAppKeeps ==
    ASSUME IndInv, NEW p \in Procs, CreateArlonApp(p)
    PROVE  IndInv'
<1>. DEFINE r == [proc[p] EXCEPT !.step = "cluster", !.begun = TRUE]
<1>1. /\ proc[p] # Idle /\ proc[p].op = "create" /\ proc[p].step = "arlon"
      /\ proc' = [proc EXCEPT ![p] = r]
      /\ apps' = [apps EXCEPT !["arlon"] = IF @ = "absent" THEN "live" ELSE @]
      /\ disturbed' = (disturbed \/ apps["arlon"] = "terminating")
      /\ UNCHANGED <<overridden, dir, secret, done, commands>>
  BY DEF CreateArlonApp, At, Goes, Created, Terminating
<1>2. /\ r \in Command /\ r.op = proc[p].op /\ r.profile = proc[p].profile
      /\ r.alone = proc[p].alone /\ r.step = "cluster" /\ r.begun
      /\ r.override = proc[p].override
  <2>1. proc[p] \in Command
    BY <1>1, ActiveFacts
  <2>. QED  BY <2>1 DEF Command
<1>. HIDE DEF r
<1>3. AloneInv(r, apps', overridden', dir')
  BY <1>1, <1>2 DEF AloneInv
<1>4. /\ apps' \in [Apps -> AppStates]
      /\ apps["arlon"] # "terminating" =>
            LiveIn(apps') = LiveIn(apps) \cup {"arlon"}
      /\ apps'["cluster"] = apps["cluster"]
  <2>. DEFINE x == "arlon"
  <2>1. /\ apps \in [Apps -> AppStates] /\ x \in Apps
        /\ apps' = WithCreated(apps, x)
    BY <1>1, ActiveFacts, AppNames DEF WithCreated
  <2>. HIDE DEF x
  <2>2. /\ apps' \in [Apps -> AppStates]
        /\ apps[x] # "terminating" => LiveIn(apps') = LiveIn(apps) \cup {x}
        /\ \A y \in Apps : y # x => apps'[y] = apps[y]
    BY <2>1, LiveCreated
  <2>. QED  BY <2>2, AppNames DEF x
<1>5. ~disturbed' => UndisturbedInv(r, apps', overridden', dir', secret')
  <2>. SUFFICES ASSUME ~disturbed, apps["arlon"] # "terminating"
                PROVE  UndisturbedInv(r, apps', overridden, dir, secret)
    BY <1>1, Zenon
  <2>1. CreateInv(proc[p], apps, overridden, dir, secret)
    BY <1>1, ActiveFacts DEF UndisturbedInv
  <2>2. CreateInv(r, apps', overridden, dir, secret)
    BY <1>1, <1>2, <1>4, <2>1 DEF CreateInv
  <2>. QED  BY <1>1, <1>2, <2>2 DEF UndisturbedInv
<1>6. /\ overridden' \in BOOLEAN /\ dir' \in BOOLEAN /\ secret' \in Secret
      /\ disturbed' \in BOOLEAN /\ (~disturbed' => ~disturbed)
  BY <1>1, ActiveFacts
<1>. QED  BY <1>1, <1>2, <1>3, <1>4, <1>5, <1>6, GoesOn

LEMMA CreateClusterAppKeeps ==
    ASSUME IndInv, NEW p \in Procs, CreateClusterApp(p)
    PROVE  IndInv'
<1>1. /\ proc[p] # Idle /\ proc[p].op = "create" /\ proc[p].step = "cluster"
      /\ UNCHANGED <<dir, secret, commands>>
  BY DEF CreateClusterApp, At
<1>2. /\ dir' \in BOOLEAN /\ secret' \in Secret /\ disturbed \in BOOLEAN
      /\ proc[p] \in Command /\ proc[p].override \in BOOLEAN
  BY <1>1, ActiveFacts, CommandFields
<1>3. ~disturbed =>
          /\ ~proc[p].begun => InOrder(apps, overridden, dir, secret)
          /\ CreateInv(proc[p], apps, overridden, dir, secret)
  BY <1>1, ActiveFacts DEF UndisturbedInv
<1>4. CASE Ends(p) /\ UNCHANGED <<apps, overridden>>
  <2>1. /\ proc' = [proc EXCEPT ![p] = Idle] /\ done' = done
        /\ disturbed' = (disturbed \/ proc[p].begun)
        /\ apps' = apps /\ overridden' = overridden
    BY <1>4 DEF Ends
  <2>2. ~disturbed' => InOrder(apps', overridden', dir', secret')
    BY <1>1, <1>3, <2>1
  <2>3. /\ disturbed' \in BOOLEAN /\ (~disturbed' => ~disturbed)
        /\ apps' \in [Apps -> AppStates] /\ overridden' \in BOOLEAN
    BY <1>1, <1>2, <2>1, ActiveFacts
  <2>. QED  BY <1>1, <1>2, <2>1, <2>2, <2>3, EndsKeeps
<1>5. CASE /\ apps' = Created("cluster")
           /\ overridden' = proc[p].override
           /\ disturbed' = (disturbed \/ Terminating("cluster"))
           /\ IF proc[p].profile = None THEN Succeeds(p, FALSE)
              ELSE Goes(p, "profile") /\ UNCHANGED done
  <2>1. /\ apps' \in [Apps -> AppStates]
        /\ apps["cluster"] # "terminating" =>
              LiveIn(apps') = LiveIn(apps) \cup {"cluster"}
    <3>. DEFINE x == "cluster"
    <3>1. /\ apps \in [Apps -> AppStates] /\ x \in Apps
          /\ apps' = WithCreated(apps, x)
      BY <1>1, <1>5, ActiveFacts, AppNames DEF Created, WithCreated
    <3>. HIDE DEF x
    <3>2. /\ apps' \in [Apps -> AppStates]
          /\ apps[x] # "terminating" => LiveIn(apps') = LiveIn(apps) \cup {x}
      BY <3>1, LiveCreated
    <3>. QED  BY <3>2 DEF x
  <2>2. ~disturbed' => ~disturbed /\ apps["cluster"] # "terminating"
    BY <1>5 DEF Terminating
  <2>3. ~disturbed' => /\ LiveIn(apps') = {"arlon", "cluster"}
                       /\ secret.profile = None
                       /\ overridden' = proc[p].override
                       /\ dir = proc[p].override
    BY <1>1, <1>3, <1>5, <2>1, <2>2 DEF CreateInv
  <2>4. disturbed' \in BOOLEAN /\ overridden' \in BOOLEAN
    BY <1>2, <1>5
  <2>5. CASE proc[p].profile = None
    <3>. DEFINE off == FALSE
    <3>1. Succeeds(p, off)
      BY <1>5, <2>5
    <3>2. off \in BOOLEAN
      OBVIOUS
    <3>. HIDE DEF off
    <3>3. ~disturbed' => InOrder(apps', overridden', dir', secret')
      BY <1>1, <1>2, <2>3 DEF InOrder
    <3>4. proc[p].op \notin {"delete", "ngupdate", "ngdelete", "manage",
                             "unmanage"}
      BY <1>1
    <3>. QED  BY <1>1, <1>2, <2>1, <2>2, <2>4, <3>1, <3>2, <3>3, <3>4,
                 SucceedsKeeps
  <2>6. CASE proc[p].profile # None
    <3>. DEFINE r == [proc[p] EXCEPT !.step = "profile", !.begun = TRUE]
    <3>1. proc' = [proc EXCEPT ![p] = r] /\ done' = done
      BY <1>5, <2>6 DEF Goes
    <3>2. /\ r \in Command /\ r.op = proc[p].op
          /\ r.profile = proc[p].profile /\ r.alone = proc[p].alone
          /\ r.step = "profile" /\ r.begun /\ r.override = proc[p].override
          /\ r.profile \in Profiles
      BY <1>2, <2>6 DEF Command
    <3>. HIDE DEF r
    <3>3. AloneInv(r, apps', overridden', dir')
      BY <1>1, <3>2 DEF AloneInv
    <3>4. ~disturbed' => UndisturbedInv(r, apps', overridden', dir', secret')
      BY <1>1, <2>3, <3>2 DEF UndisturbedInv, CreateInv
    <3>. QED  BY <1>1, <1>2, <2>1, <2>2, <2>4, <3>1, <3>2, <3>3, <3>4, GoesOn
  <2>. QED  BY <2>5, <2>6
<1>. QED  BY <1>4, <1>5 DEF CreateClusterApp

\* The profile app is the last step of create and of ngupdate.
LEMMA CreateProfileAppKeeps ==
    ASSUME IndInv, NEW p \in Procs, CreateProfileApp(p)
    PROVE  IndInv'
<1>. DEFINE n == proc[p].profile
            gone == apps[n] = "terminating"
<1>1. /\ proc[p] # Idle /\ proc[p].op \in {"create", "ngupdate"}
      /\ proc[p].step = "profile"
      /\ apps' = [apps EXCEPT ![n] = IF @ = "absent" THEN "live" ELSE @]
      /\ disturbed' = (disturbed \/ gone)
      /\ Succeeds(p, gone)
      /\ UNCHANGED <<overridden, dir, secret, commands>>
  BY DEF CreateProfileApp, At, Created, Terminating
<1>2. gone \in BOOLEAN /\ (gone <=> apps[n] = "terminating")
  OBVIOUS
<1>. HIDE DEF n, gone
<1>3. /\ overridden' \in BOOLEAN
      /\ dir' \in BOOLEAN /\ secret' \in Secret /\ disturbed' \in BOOLEAN
      /\ (~disturbed' => ~disturbed)
  BY <1>1, <1>2, ActiveFacts
<1>4. n \in Profiles /\ n \in Apps
  BY <1>1, ActiveFacts, AppNames DEF n
<1>5. /\ apps' \in [Apps -> AppStates]
      /\ ~gone => LiveIn(apps') = LiveIn(apps) \cup {n}
      /\ gone => LiveIn(apps') = LiveIn(apps)
  <2>1. apps \in [Apps -> AppStates] /\ apps' = WithCreated(apps, n)
    BY <1>1, ActiveFacts DEF WithCreated
  <2>2. /\ apps' \in [Apps -> AppStates]
        /\ apps[n] # "terminating" => LiveIn(apps') = LiveIn(apps) \cup {n}
        /\ apps[n] = "terminating" => LiveIn(apps') = LiveIn(apps)
    BY <1>4, <2>1, LiveCreated
  <2>. QED  BY <1>2, <2>2, Zenon
<1>6. proc[p].alone /\ proc[p].op = "ngupdate" => LiveIn(apps) \cap Profiles = {}
  BY <1>1, ActiveFacts DEF AloneInv
<1>7. ~disturbed' => InOrder(apps', overridden', dir', secret')
  <2>. SUFFICES ASSUME ~disturbed, ~gone
                PROVE  InOrder(apps', overridden, dir, secret)
    BY <1>1, Zenon
  <2>1. proc[p].alone /\ UndisturbedInv(proc[p], apps, overridden, dir, secret)
    BY <1>1, ActiveFacts
  <2>2. CASE proc[p].op = "create"
    <3>1. /\ LiveIn(apps) = {"arlon", "cluster"} /\ secret.profile = None
          /\ overridden = proc[p].override /\ dir = proc[p].override
      BY <1>1, <2>1, <2>2 DEF UndisturbedInv, CreateInv
    <3>2. LiveIn(apps') = {"arlon", "cluster", n}
      BY <1>5, <3>1
    <3>3. dir \in BOOLEAN /\ overridden \in BOOLEAN
      BY <1>1, ActiveFacts
    <3>. QED  BY <1>4, <3>1, <3>2, <3>3 DEF InOrder
  <2>3. CASE proc[p].op = "ngupdate"
    <3>1. /\ InOrder(apps, overridden, dir, secret)
          /\ "cluster" \in LiveIn(apps) /\ LiveIn(apps) \cap Profiles = {}
      BY <1>6, <2>1, <2>3 DEF UndisturbedInv
    <3>2. LiveIn(apps) = {"arlon", "cluster"} /\ secret.profile = None
      <4>1. "arlon" \in LiveIn(apps) /\ LiveIn(apps) \subseteq Apps
        BY <3>1 DEF InOrder, LiveIn
      <4>2. LiveIn(apps) \subseteq {"arlon", "cluster"}
        BY <3>1, <4>1, AppNames
      <4>3. apps["cluster"] # "absent"
        BY <3>1 DEF LiveIn
      <4>. QED  BY <3>1, <4>1, <4>2, <4>3 DEF InOrder
    <3>3. LiveIn(apps') = {"arlon", "cluster", n}
      BY <1>5, <3>2
    <3>. QED  BY <1>4, <3>1, <3>2, <3>3 DEF InOrder
  <2>. QED  BY <1>1, <2>2, <2>3
<1>8. proc[p].alone /\ proc[p].op \in {"ngupdate", "ngdelete"} =>
          /\ LiveIn(apps') \cap Profiles \subseteq {proc[p].profile}
          /\ (proc[p].op = "ngupdate" /\ ~gone) =>
                proc[p].profile \in LiveIn(apps')
  BY <1>1, <1>5, <1>6 DEF n
<1>9. proc[p].op \notin {"delete", "manage", "unmanage"}
  BY <1>1
<1>. QED  BY <1>1, <1>2, <1>3, <1>5, <1>7, <1>8, <1>9, SucceedsKeeps

----------------------------------------------------------------------------
(* delete and ngupdate *)

\* There is nothing left to delete: what was to be deleted is not live.
LEMMA AfterDeletesKeeps ==
    ASSUME IndInv, NEW p \in Procs, NEW changed \in BOOLEAN, proc[p] # Idle,
           proc[p].op \in {"delete", "ngupdate", "ngdelete"},
           AfterDeletes(p, changed),
           apps' \in [Apps -> AppStates],
           UNCHANGED <<overridden, dir, secret, disturbed, commands>>,
           proc[p].alone /\ proc[p].op = "delete" =>
               /\ LiveIn(apps') = {}
               /\ ~(apps'["cluster"] # "absent" /\ overridden /\ dir),
           proc[p].alone /\ proc[p].op # "delete" =>
               LiveIn(apps') \cap Profiles = {},
           ~disturbed => InOrder(apps', overridden, dir, secret),
           ~disturbed /\ proc[p].op = "ngupdate" => "cluster" \in LiveIn(apps')
    PROVE  IndInv'
<1>1. /\ overridden' \in BOOLEAN /\ dir' \in BOOLEAN /\ secret' \in Secret
      /\ disturbed' \in BOOLEAN
      /\ proc[p] \in Command
      /\ proc[p].op = "ngupdate" => proc[p].profile \in Profiles
      /\ ~disturbed => InOrder(apps', overridden', dir', secret')
  BY ActiveFacts
<1>2. CASE proc[p].op = "ngupdate"
  <2>. DEFINE r == [proc[p] EXCEPT !.step = "profile", !.begun = changed]
  <2>1. proc' = [proc EXCEPT ![p] = r] /\ done' = done
    BY <1>2 DEF AfterDeletes
  <2>2. /\ r \in Command /\ r.op = "ngupdate"
        /\ r.profile = proc[p].profile /\ r.alone = proc[p].alone
        /\ r.step = "profile"
    BY <1>1, <1>2 DEF Command
  <2>. HIDE DEF r
  <2>3. r.alone => AloneInv(r, apps', overridden', dir')
    BY <1>2, <2>2 DEF AloneInv
  <2>4. ~disturbed => secret.profile = None
    BY <1>2, ActiveFacts DEF UndisturbedInv
  <2>5. ~disturbed' => UndisturbedInv(r, apps', overridden', dir', secret')
    BY <1>1, <1>2, <2>2, <2>4 DEF UndisturbedInv
  <2>. QED  BY <1>1, <1>2, <2>1, <2>2, <2>3, <2>5, GoesOn
<1>3. CASE proc[p].op # "ngupdate"
  <2>. DEFINE off == FALSE
  <2>1. Succeeds(p, off)
    BY <1>3 DEF AfterDeletes
  <2>2. off \in BOOLEAN
    OBVIOUS
  <2>. HIDE DEF off
  <2>3. proc[p].alone /\ proc[p].op = "delete" =>
            /\ LiveIn(apps') = {}
            /\ ~(apps'["cluster"] = "terminating" /\ overridden' /\ dir')
    OBVIOUS
  <2>4. proc[p].alone /\ proc[p].op \in {"ngupdate", "ngdelete"} =>
            /\ LiveIn(apps') \cap Profiles \subseteq {proc[p].profile}
            /\ (proc[p].op = "ngupdate" /\ ~off) =>
                  proc[p].profile \in LiveIn(apps')
    BY <1>3
  <2>5. proc[p].op \notin {"manage", "unmanage"}
    OBVIOUS
  <2>. QED  BY <1>1, <2>1, <2>2, <2>3, <2>4, <2>5, SucceedsKeeps
<1>. QED  BY <1>2, <1>3

LEMMA ListAppsKeeps ==
    ASSUME IndInv, NEW p \in Procs, ListApps(p)
    PROVE  IndInv'
<1>. DEFINE todo == Related(proc[p].op)
            clean == "cluster" \in todo /\ overridden
            r == [proc[p] EXCEPT !.step = "delete", !.todo = todo,
                                 !.cleanup = clean]
<1>1. /\ proc[p] # Idle /\ proc[p].step = "list"
      /\ proc[p].op \in {"delete", "ngupdate", "ngdelete"}
      /\ UNCHANGED <<apps, overridden, dir, secret, disturbed, commands>>
  BY DEF ListApps, At
<1>2. /\ apps' \in [Apps -> AppStates] /\ overridden' \in BOOLEAN
      /\ dir' \in BOOLEAN /\ secret' \in Secret /\ disturbed' \in BOOLEAN
      /\ proc[p] \in Command
  BY <1>1, ActiveFacts
<1>3. /\ todo \in SUBSET Apps
      /\ proc[p].op = "delete" =>
            /\ LiveIn(apps) \subseteq todo
            /\ apps["cluster"] # "absent" => "cluster" \in todo
      /\ proc[p].op # "delete" =>
            todo \subseteq Profiles /\ LiveIn(apps) \cap Profiles \subseteq todo
  BY AppNames DEF Related, LiveIn
<1>4. ~disturbed =>
          /\ InOrder(apps, overridden, dir, secret)
          /\ ~proc[p].begun \/ proc[p].op # "delete"
          /\ secret.profile = None
          /\ proc[p].op = "ngupdate" => "cluster" \in LiveIn(apps)
  BY <1>1, ActiveFacts DEF UndisturbedInv
<1>5. CASE todo = {}
  <2>. DEFINE off == FALSE
  <2>1. AfterDeletes(p, off)
    BY <1>5 DEF ListApps
  <2>2. off \in BOOLEAN
    OBVIOUS
  <2>. HIDE DEF off, todo
  <2>3. proc[p].op = "delete" => /\ LiveIn(apps') = {}
                                 /\ apps'["cluster"] = "absent"
    BY <1>1, <1>3, <1>5
  <2>4. proc[p].op # "delete" => LiveIn(apps') \cap Profiles = {}
    BY <1>1, <1>3, <1>5
  <2>5. /\ ~disturbed => InOrder(apps', overridden, dir, secret)
        /\ ~disturbed /\ proc[p].op = "ngupdate" => "cluster" \in LiveIn(apps')
    BY <1>1, <1>4
  <2>. QED  BY <1>1, <1>2, <2>1, <2>2, <2>3, <2>4, <2>5, AfterDeletesKeeps
<1>6. CASE todo # {}
  <2>1. proc' = [proc EXCEPT ![p] = r] /\ done' = done
    BY <1>6 DEF ListApps
  <2>2. clean \in BOOLEAN /\ (clean <=> "cluster" \in todo /\ overridden)
    OBVIOUS
  <2>. HIDE DEF todo, clean
  <2>3. /\ r \in Command /\ r.op = proc[p].op
        /\ r.profile = proc[p].profile /\ r.alone = proc[p].alone
        /\ r.step = "delete" /\ r.todo = todo /\ r.cleanup = clean
        /\ r.begun = proc[p].begun
    BY <1>2, <1>3, <2>2 DEF Command
  <2>. HIDE DEF r
  <2>4. AloneInv(r, apps', overridden', dir')
    BY <1>1, <1>3, <2>2, <2>3 DEF AloneInv
  <2>5. ~disturbed' => UndisturbedInv(r, apps', overridden', dir', secret')
    <3>. SUFFICES ASSUME ~disturbed
                  PROVE  UndisturbedInv(r, apps, overridden, dir, secret)
      BY <1>1, Zenon
    <3>1. InOrder(apps, overridden, dir, secret)
      BY <1>4
    <3>2. proc[p].op = "delete" /\ dir => "cluster" \in todo /\ clean
      BY <1>3, <2>2, <3>1 DEF InOrder
    <3>. QED  BY <1>1, <1>3, <1>4, <2>3, <3>1, <3>2 DEF UndisturbedInv
  <2>. QED  BY <1>1, <1>2, <2>1, <2>3, <2>4, <2>5, GoesOn
<1>. QED  BY <1>5, <1>6

\* The directory goes, or the command ends because it is not there.
LEMMA DeleteOverridesDirKeeps ==
    ASSUME IndInv, NEW p \in Procs, DeleteOverridesDir(p)
    PROVE  IndInv'
<1>. DEFINE r == [proc[p] EXCEPT !.cleanup = FALSE, !.begun = TRUE]
<1>1. /\ proc[p] # Idle /\ proc[p].step = "delete" /\ proc[p].op = "delete"
      /\ UNCHANGED <<apps, overridden, secret, commands>> /\ done' = done
  BY DEF DeleteOverridesDir, At, Ends
<1>2. /\ apps' \in [Apps -> AppStates] /\ overridden' \in BOOLEAN
      /\ dir \in BOOLEAN /\ secret' \in Secret /\ disturbed \in BOOLEAN
      /\ proc[p] \in Command
  BY <1>1, ActiveFacts
<1>3. proc[p].alone => AloneInv(proc[p], apps, overridden, dir)
  BY <1>1, ActiveFacts
<1>4. ~disturbed =>
          /\ ~proc[p].begun => InOrder(apps, overridden, dir, secret)
          /\ secret.profile = None
  BY <1>1, ActiveFacts DEF UndisturbedInv
<1>5. CASE dir
  <2>1. /\ dir' = FALSE /\ disturbed' = disturbed
        /\ proc' = [proc EXCEPT ![p] = r]
    BY <1>5 DEF DeleteOverridesDir
  <2>2. /\ r \in Command /\ r.op = "delete"
        /\ r.profile = proc[p].profile /\ r.alone = proc[p].alone
        /\ r.step = "delete" /\ r.todo = proc[p].todo /\ r.begun
    BY <1>1, <1>2 DEF Command
  <2>. HIDE DEF r
  <2>3. r.alone => AloneInv(r, apps', overridden', dir')
    BY <1>1, <1>3, <2>1, <2>2 DEF AloneInv
  <2>4. ~disturbed' => UndisturbedInv(r, apps', overridden', dir', secret')
    BY <1>1, <1>4, <2>1, <2>2 DEF UndisturbedInv
  <2>. QED  BY <1>1, <1>2, <2>1, <2>2, <2>3, <2>4, GoesOn
<1>6. CASE ~dir
  <2>1. /\ dir' = dir /\ proc' = [proc EXCEPT ![p] = Idle]
        /\ disturbed' = (disturbed \/ proc[p].begun)
    BY <1>6 DEF DeleteOverridesDir, Ends
  <2>2. ~disturbed' => InOrder(apps', overridden', dir', secret')
    BY <1>1, <1>4, <2>1
  <2>3. dir' \in BOOLEAN /\ disturbed' \in BOOLEAN
        /\ (~disturbed' => ~disturbed)
    BY <1>2, <2>1, CommandFields
  <2>. QED  BY <1>1, <1>2, <2>1, <2>2, <2>3, EndsKeeps
<1>. QED  BY <1>5, <1>6

\* An application goes: of the cluster's, the cluster app only after its
\* directory.
LEMMA DeleteAppKeeps ==
    ASSUME IndInv, NEW p \in Procs, NEW a \in Apps, DeleteApp(p, a)
    PROVE  IndInv'
<1>1. /\ proc[p] # Idle /\ proc[p].step = "delete"
      /\ proc[p].op \in {"delete", "ngupdate", "ngdelete"}
      /\ a \in proc[p].todo /\ (a = "cluster" => ~proc[p].cleanup)
      /\ UNCHANGED <<overridden, dir, secret, commands>>
  BY DEF DeleteApp, At
<1>2. /\ apps \in [Apps -> AppStates] /\ overridden' \in BOOLEAN
      /\ dir' \in BOOLEAN /\ secret' \in Secret /\ disturbed \in BOOLEAN
      /\ proc[p] \in Command /\ proc[p].todo \in SUBSET Apps
  BY <1>1, ActiveFacts, CommandFields
<1>3. proc[p].alone => AloneInv(proc[p], apps, overridden, dir)
  BY <1>1, ActiveFacts
<1>4. ~disturbed => /\ proc[p].alone
                    /\ UndisturbedInv(proc[p], apps, overridden, dir, secret)
  BY <1>1, ActiveFacts
<1>5. CASE apps[a] = "absent"
  <2>1. /\ proc' = [proc EXCEPT ![p] = Idle] /\ done' = done /\ apps' = apps
        /\ disturbed' = (disturbed \/ proc[p].begun)
    BY <1>5 DEF DeleteApp, Ends
  <2>2. ~disturbed' => InOrder(apps', overridden', dir', secret')
    BY <1>1, <1>4, <2>1 DEF UndisturbedInv
  <2>3. disturbed' \in BOOLEAN /\ (~disturbed' => ~disturbed)
    BY <1>2, <2>1, CommandFields
  <2>. QED  BY <1>1, <1>2, <2>1, <2>2, <2>3, EndsKeeps
<1>6. CASE apps[a] # "absent"
  <2>1. apps' = [apps EXCEPT ![a] = "terminating"] /\ disturbed' = disturbed
    BY <1>6 DEF DeleteApp, Deleted
  <2>2. /\ apps' \in [Apps -> AppStates]
        /\ LiveIn(apps') = LiveIn(apps) \ {a}
        /\ \A y \in Apps : y # a => apps'[y] = apps[y]
    BY <1>2, <2>1, LiveDeleted, Zenon
  <2>3. proc[p].alone /\ proc[p].op = "delete" =>
            /\ LiveIn(apps') \subseteq proc[p].todo \ {a}
            /\ (apps'["cluster"] # "absent" /\ overridden /\ dir) =>
                  "cluster" \in proc[p].todo \ {a} /\ proc[p].cleanup
    BY <1>1, <1>3, <1>6, <2>2, AppNames DEF AloneInv
  <2>4. proc[p].alone /\ proc[p].op # "delete" =>
            LiveIn(apps') \cap Profiles \subseteq proc[p].todo \ {a}
    BY <1>1, <1>3, <2>2 DEF AloneInv
  <2>5. /\ disturbed' \in BOOLEAN
        /\ disturbed' = disturbed
    BY <1>2, <2>1
  <2>6. ~disturbed /\ proc[p].op # "delete" =>
            InOrder(apps', overridden, dir, secret)
    <3>. SUFFICES ASSUME ~disturbed, proc[p].op # "delete"
                  PROVE  InOrder(apps', overridden, dir, secret)
      OBVIOUS
    <3>1. /\ InOrder(apps, overridden, dir, secret) /\ secret.profile = None
          /\ a \in Profiles
      BY <1>1, <1>4 DEF UndisturbedInv
    <3>. QED  BY <2>2, <3>1, AppNames DEF InOrder
  <2>7. ~disturbed /\ proc[p].op = "ngupdate" => "cluster" \in LiveIn(apps')
    BY <1>1, <1>4, <2>2, AppNames DEF UndisturbedInv
  <2>8. ~disturbed /\ proc[p].op = "delete" =>
            /\ secret.profile = None
            /\ dir => "cluster" \in proc[p].todo \ {a} /\ proc[p].cleanup
    BY <1>1, <1>4 DEF UndisturbedInv
  <2>9. CASE proc[p].todo = {a}
    <3>. DEFINE on == TRUE
    <3>1. AfterDeletes(p, on)
      BY <1>6, <2>9 DEF DeleteApp
    <3>2. on \in BOOLEAN
      OBVIOUS
    <3>. HIDE DEF on
    <3>3. proc[p].alone /\ proc[p].op = "delete" =>
              /\ LiveIn(apps') = {}
              /\ ~(apps'["cluster"] # "absent" /\ overridden /\ dir)
      BY <2>3, <2>9
    <3>4. proc[p].alone /\ proc[p].op # "delete" =>
              LiveIn(apps') \cap Profiles = {}
      BY <2>4, <2>9
    <3>5. ~disturbed /\ proc[p].op = "delete" =>
              InOrder(apps', overridden, dir, secret)
      <4>. SUFFICES ASSUME ~disturbed, proc[p].op = "delete"
                    PROVE  InOrder(apps', overridden, dir, secret)
        OBVIOUS
      <4>1. LiveIn(apps') = {} /\ secret.profile = None /\ dir = FALSE
        <5>1. dir \in BOOLEAN /\ proc[p].alone
          BY <1>1, <1>4, ActiveFacts
        <5>. QED  BY <2>8, <2>9, <3>3, <5>1
      <4>. QED  BY <4>1 DEF InOrder
    <3>6. ~disturbed => InOrder(apps', overridden, dir, secret)
      BY <2>6, <3>5
    <3>. QED  BY <1>1, <2>2, <2>5, <2>7, <3>1, <3>2, <3>3, <3>4, <3>6,
                 AfterDeletesKeeps
  <2>10. CASE proc[p].todo # {a}
    <3>. DEFINE rest == proc[p].todo \ {a}
                r == [proc[p] EXCEPT !.todo = rest, !.begun = TRUE]
    <3>1. proc' = [proc EXCEPT ![p] = r] /\ done' = done
      BY <1>6, <2>10 DEF DeleteApp
    <3>2. /\ r \in Command /\ r.op = proc[p].op
          /\ r.profile = proc[p].profile /\ r.alone = proc[p].alone
          /\ r.step = "delete" /\ r.todo = rest
          /\ r.cleanup = proc[p].cleanup /\ r.begun
      BY <1>1, <1>2 DEF Command
    <3>. HIDE DEF r
    <3>3. r.alone => AloneInv(r, apps', overridden', dir')
      BY <1>1, <2>3, <2>4, <3>2 DEF AloneInv
    <3>4. ~disturbed' => UndisturbedInv(r, apps', overridden', dir', secret')
      <4>. SUFFICES ASSUME ~disturbed
                    PROVE  UndisturbedInv(r, apps', overridden, dir, secret)
        BY <1>1, <2>5, Zenon
      <4>1. proc[p].op # "delete" =>
                secret.profile = None /\ rest \subseteq Profiles
        BY <1>1, <1>4 DEF UndisturbedInv
      <4>. QED  BY <1>1, <2>6, <2>7, <2>8, <3>2, <4>1 DEF UndisturbedInv
    <3>. QED  BY <1>1, <1>2, <2>2, <2>5, <3>1, <3>2, <3>3, <3>4, GoesOn
  <2>. QED  BY <2>9, <2>10
<1>. QED  BY <1>5, <1>6

----------------------------------------------------------------------------
(* manage and unmanage *)

\* A new value of the label is all that changes in a secret.
LEMMA SecretPatched ==
    ASSUME NEW s \in Secret, NEW n \in Profiles \cup {None}, NEW t,
           t = [s EXCEPT !.profile = n]
    PROVE  t \in Secret /\ t.profile = n
BY DEF Secret

LEMMA ManageCreatesAppKeeps ==
    ASSUME IndInv, NEW p \in Procs, ManageCreatesApp(p)
    PROVE  IndInv'
<1>. DEFINE n == proc[p].profile
            gone == apps[n] = "terminating"
            r == [proc[p] EXCEPT !.step = "patch", !.begun = TRUE,
                                 !.adopted = gone]
<1>1. /\ proc[p] # Idle /\ proc[p].op = "manage" /\ proc[p].step = "profile"
      /\ apps' = [apps EXCEPT ![n] = IF @ = "absent" THEN "live" ELSE @]
      /\ UNCHANGED <<overridden, dir, secret, done, commands>>
  BY DEF ManageCreatesApp, At, Created
<1>2. n \in Profiles /\ n \in Apps /\ proc[p] \in Command
  BY <1>1, ActiveFacts, AppNames
<1>3. gone \in BOOLEAN /\ (gone <=> apps[n] = "terminating")
  OBVIOUS
<1>4. /\ secret.bare =>
            proc' = [proc EXCEPT ![p] = Idle] /\ disturbed' = TRUE
      /\ ~secret.bare =>
            proc' = [proc EXCEPT ![p] = r] /\ disturbed' = (disturbed \/ gone)
  BY DEF ManageCreatesApp, Terminating
<1>5. /\ r \in Command /\ r.op = "manage" /\ r.profile = n
      /\ r.alone = proc[p].alone /\ r.step = "patch" /\ r.begun
      /\ r.adopted = gone
  BY <1>1, <1>2, <1>3 DEF Command
<1>. HIDE DEF n, gone, r
<1>6. n = proc[p].profile
  BY DEF n
<1>7. /\ overridden' \in BOOLEAN /\ dir' \in BOOLEAN /\ secret' \in Secret
      /\ disturbed' \in BOOLEAN
  BY <1>1, <1>3, <1>4, ActiveFacts
<1>8. /\ apps' \in [Apps -> AppStates]
      /\ ~gone => LiveIn(apps') = LiveIn(apps) \cup {n}
      /\ apps'["cluster"] = apps["cluster"]
  <2>1. apps \in [Apps -> AppStates] /\ apps' = WithCreated(apps, n)
    BY <1>1, ActiveFacts DEF WithCreated
  <2>2. /\ apps' \in [Apps -> AppStates]
        /\ apps[n] # "terminating" => LiveIn(apps') = LiveIn(apps) \cup {n}
        /\ \A y \in Apps : y # n => apps'[y] = apps[y]
    BY <1>2, <2>1, LiveCreated
  <2>. QED  BY <1>2, <1>3, <2>2, AppNames
<1>9. CASE secret.bare
  BY <1>1, <1>4, <1>7, <1>8, <1>9, EndsKeeps
<1>10. CASE ~secret.bare
  <2>1. AloneInv(r, apps', overridden', dir')
    BY <1>5, <1>8 DEF AloneInv
  <2>2. ~disturbed' => UndisturbedInv(r, apps', overridden', dir', secret')
    <3>. SUFFICES ASSUME ~disturbed, ~gone
                  PROVE  UndisturbedInv(r, apps', overridden, dir, secret)
      BY <1>1, <1>4, <1>10, Zenon
    <3>1. /\ secret.profile = None /\ apps["cluster"] = "absent" /\ ~dir
          /\ InOrder(apps, overridden, dir, secret)
      BY <1>1, ActiveFacts DEF UndisturbedInv
    <3>2. LiveIn(apps) = {}
      BY <3>1 DEF InOrder, LiveIn
    <3>3. LiveIn(apps') = {n}
      BY <1>8, <3>2
    <3>. QED  BY <1>5, <1>8, <3>1, <3>3 DEF UndisturbedInv
  <2>3. ~disturbed' => ~disturbed
    BY <1>4, <1>10
  <2>4. /\ proc' = [proc EXCEPT ![p] = r] /\ r.op = proc[p].op
        /\ r.profile = proc[p].profile /\ r.step # "profile"
        /\ done' = done /\ commands' = commands
    BY <1>1, <1>4, <1>5, <1>6, <1>10
  <2>. QED  BY <1>1, <1>5, <1>7, <1>8, <2>1, <2>2, <2>3, <2>4, GoesOn
<1>. QED  BY <1>9, <1>10

LEMMA ManagePatchesKeeps ==
    ASSUME IndInv, NEW p \in Procs, ManagePatches(p)
    PROVE  IndInv'
<1>. DEFINE n == proc[p].profile
            gone == proc[p].adopted
<1>1. /\ proc[p] # Idle /\ proc[p].op = "manage" /\ proc[p].step = "patch"
      /\ secret' = [secret EXCEPT !.profile = n]
      /\ Succeeds(p, gone)
      /\ UNCHANGED <<apps, overridden, dir, disturbed, commands>>
  BY DEF ManagePatches, At
<1>2. n \in Profiles /\ n \in Apps /\ proc[p] \in Command /\ gone \in BOOLEAN
  BY <1>1, ActiveFacts, AppNames, CommandFields
<1>. HIDE DEF n, gone
<1>3. secret' \in Secret /\ secret'.profile = n
  <2>1. secret \in Secret
    BY <1>1, ActiveFacts
  <2>. QED  BY <1>1, <1>2, <2>1, SecretPatched
<1>4. /\ apps' \in [Apps -> AppStates] /\ overridden' \in BOOLEAN
      /\ dir' \in BOOLEAN /\ disturbed' \in BOOLEAN
  BY <1>1, ActiveFacts
<1>5. ~disturbed' => InOrder(apps', overridden', dir', secret')
  <2>. SUFFICES ASSUME ~disturbed
                PROVE  InOrder(apps, overridden, dir, secret')
    BY <1>1, Zenon
  <2>1. /\ apps["cluster"] = "absent" /\ ~dir
        /\ LiveIn(apps) = {n}
    BY <1>1, ActiveFacts DEF UndisturbedInv, n
  <2>2. "cluster" \notin LiveIn(apps) /\ dir = FALSE
    BY <1>1, <2>1, ActiveFacts DEF LiveIn
  <2>3. n # None
    BY <1>2, AppNames
  <2>. QED  BY <1>3, <2>1, <2>2, <2>3 DEF InOrder
<1>6. proc[p].alone /\ ~gone => n \in LiveIn(apps')
  BY <1>1, ActiveFacts DEF AloneInv, n, gone
<1>7. /\ proc[p].op \notin {"delete", "ngupdate", "ngdelete", "unmanage"}
      /\ n = proc[p].profile
  BY <1>1 DEF n
<1>. QED  BY <1>1, <1>2, <1>3, <1>4, <1>5, <1>6, <1>7, SucceedsKeeps

LEMMA PatchFailsKeeps ==
    ASSUME IndInv, NEW p \in Procs, PatchFails(p)
    PROVE  IndInv'
<1>. DEFINE r == [proc[p] EXCEPT !.step = "undo"]
<1>1. /\ proc[p] # Idle /\ proc[p].op = "manage" /\ proc[p].step = "patch"
      /\ proc' = [proc EXCEPT ![p] = r]
      /\ UNCHANGED <<apps, overridden, dir, done, commands>>
  BY DEF PatchFails, At
<1>2. /\ r \in Command /\ r.op = "manage" /\ r.profile = proc[p].profile
      /\ r.alone = proc[p].alone /\ r.step = "undo"
      /\ r.begun = proc[p].begun
  BY <1>1, ActiveFacts DEF Command
<1>. HIDE DEF r
<1>3. /\ apps' \in [Apps -> AppStates] /\ overridden' \in BOOLEAN
      /\ dir' \in BOOLEAN /\ secret \in Secret /\ disturbed \in BOOLEAN
      /\ proc[p].profile \in Profiles
  BY <1>1, ActiveFacts
<1>4. /\ secret' \in Secret /\ disturbed' \in BOOLEAN
      /\ ~disturbed' => ~disturbed /\ secret' = secret
  <2>1. CASE UNCHANGED <<secret, disturbed>>
    BY <1>3, <2>1
  <2>2. CASE /\ secret' = [secret EXCEPT !.profile = proc[p].profile]
             /\ disturbed' = TRUE
    BY <1>3, <2>2, SecretPatched
  <2>. QED  BY <2>1, <2>2 DEF PatchFails
<1>5. AloneInv(r, apps', overridden', dir')
  BY <1>2 DEF AloneInv
<1>6. ~disturbed' => UndisturbedInv(r, apps', overridden', dir', secret')
  <2>. SUFFICES ASSUME ~disturbed
                PROVE  UndisturbedInv(r, apps, overridden, dir, secret)
    BY <1>1, <1>4, Zenon
  <2>. QED  BY <1>1, <1>2, ActiveFacts DEF UndisturbedInv
<1>. QED  BY <1>1, <1>2, <1>3, <1>4, <1>5, <1>6, GoesOn

\* The compensation: without the profile app nothing is left.
LEMMA ManageUndoesKeeps ==
    ASSUME IndInv, NEW p \in Procs, ManageUndoes(p)
    PROVE  IndInv'
<1>. DEFINE n == proc[p].profile
<1>1. /\ proc[p] # Idle /\ proc[p].op = "manage" /\ proc[p].step = "undo"
      /\ apps' = IF apps[n] = "absent" THEN apps
                 ELSE [apps EXCEPT ![n] = "terminating"]
      /\ proc' = [proc EXCEPT ![p] = Idle]
      /\ UNCHANGED <<overridden, dir, secret, done, disturbed, commands>>
  BY DEF ManageUndoes, At, Deleted
<1>2. /\ n \in Profiles /\ n \in Apps /\ apps \in [Apps -> AppStates]
      /\ overridden' \in BOOLEAN /\ dir' \in BOOLEAN /\ secret' \in Secret
      /\ disturbed' \in BOOLEAN
  BY <1>1, ActiveFacts, AppNames
<1>3. ~disturbed => /\ secret.profile = None /\ ~dir /\ dir = FALSE
                    /\ LiveIn(apps) = {n}
  BY <1>1, ActiveFacts DEF UndisturbedInv
<1>. HIDE DEF n
<1>4. /\ apps' \in [Apps -> AppStates]
      /\ LiveIn(apps') = LiveIn(apps) \ {n}
  <2>1. CASE apps[n] = "absent"
    BY <1>1, <1>2, <2>1 DEF LiveIn
  <2>2. CASE apps[n] # "absent"
    BY <1>1, <1>2, <2>2, LiveDeleted, Zenon
  <2>. QED  BY <2>1, <2>2
<1>5. ~disturbed' => InOrder(apps', overridden', dir', secret')
  <2>1. ~disturbed' => LiveIn(apps') = {}
    BY <1>1, <1>3, <1>4
  <2>. QED  BY <1>1, <1>3, <2>1 DEF InOrder
<1>. QED  BY <1>1, <1>2, <1>4, <1>5, EndsKeeps

LEMMA UnmanageDeletesAppKeeps ==
    ASSUME IndInv, NEW p \in Procs, UnmanageDeletesApp(p)
    PROVE  IndInv'
<1>. DEFINE n == proc[p].profile
            r == [proc[p] EXCEPT !.step = "patch", !.begun = TRUE]
<1>1. /\ proc[p] # Idle /\ proc[p].op = "unmanage" /\ proc[p].step = "delete"
      /\ UNCHANGED <<overridden, dir, secret, done, commands>>
  BY DEF UnmanageDeletesApp, At, Ends
<1>2. /\ n \in Profiles /\ n \in Apps /\ apps \in [Apps -> AppStates]
      /\ overridden' \in BOOLEAN /\ dir' \in BOOLEAN /\ secret' \in Secret
      /\ disturbed \in BOOLEAN /\ proc[p] \in Command
      /\ proc[p].begun \in BOOLEAN
  BY <1>1, ActiveFacts, AppNames, CommandFields
<1>3. ~disturbed =>
          /\ secret.profile = n /\ apps["cluster"] = "absent" /\ ~dir
          /\ ~proc[p].begun /\ InOrder(apps, overridden, dir, secret)
  BY <1>1, ActiveFacts DEF UndisturbedInv
<1>4. CASE apps[n] = "absent"
  <2>1. /\ apps' = apps /\ proc' = [proc EXCEPT ![p] = Idle]
        /\ disturbed' = (disturbed \/ proc[p].begun)
    BY <1>4 DEF UnmanageDeletesApp, Ends
  <2>2. /\ disturbed' \in BOOLEAN /\ (~disturbed' => ~disturbed)
        /\ ~disturbed' => InOrder(apps', overridden', dir', secret')
    BY <1>1, <1>2, <1>3, <2>1
  <2>. QED  BY <1>1, <1>2, <2>1, <2>2, EndsKeeps
<1>5. CASE apps[n] # "absent"
  <2>1. /\ apps' = [apps EXCEPT ![n] = "terminating"]
        /\ proc' = [proc EXCEPT ![p] = r] /\ disturbed' = disturbed
    BY <1>5 DEF UnmanageDeletesApp, Deleted, Goes
  <2>2. /\ r \in Command /\ r.op = "unmanage" /\ r.profile = n
        /\ r.alone = proc[p].alone /\ r.step = "patch" /\ r.begun
    BY <1>1, <1>2 DEF Command
  <2>3. n = proc[p].profile
    OBVIOUS
  <2>. HIDE DEF n, r
  <2>4. /\ apps' \in [Apps -> AppStates]
        /\ LiveIn(apps') = LiveIn(apps) \ {n}
        /\ \A y \in Apps : y # n => apps'[y] = apps[y]
    BY <1>2, <2>1, LiveDeleted, Zenon
  <2>5. AloneInv(r, apps', overridden', dir')
    BY <2>2, <2>4 DEF AloneInv
  <2>6. ~disturbed' => UndisturbedInv(r, apps', overridden', dir', secret')
    <3>. SUFFICES ASSUME ~disturbed
                  PROVE  UndisturbedInv(r, apps', overridden, dir, secret)
      BY <1>1, <2>1, Zenon
    <3>1. n # None /\ n # "cluster"
      BY <1>2, AppNames
    <3>2. LiveIn(apps) = {n}
      BY <1>3, <3>1 DEF InOrder
    <3>3. LiveIn(apps') = {} /\ apps'["cluster"] = "absent"
      BY <1>3, <2>4, <3>1, <3>2, AppNames
    <3>. QED  BY <1>3, <2>2, <3>3 DEF UndisturbedInv
  <2>. QED  BY <1>1, <1>2, <2>1, <2>2, <2>3, <2>4, <2>5, <2>6, GoesOn
<1>. QED  BY <1>4, <1>5

LEMMA UnmanagePatchesKeeps ==
    ASSUME IndInv, NEW p \in Procs, UnmanagePatches(p)
    PROVE  IndInv'
<1>. DEFINE off == FALSE
<1>1. /\ proc[p] # Idle /\ proc[p].op = "unmanage" /\ proc[p].step = "patch"
      /\ secret' = [secret EXCEPT !.profile = None]
      /\ Succeeds(p, off)
      /\ UNCHANGED <<apps, overridden, dir, disturbed, commands>>
  BY DEF UnmanagePatches, At
<1>2. off \in BOOLEAN
  OBVIOUS
<1>. HIDE DEF off
<1>3. secret' \in Secret /\ secret'.profile = None
  <2>1. secret \in Secret
    BY <1>1, ActiveFacts
  <2>. QED  BY <1>1, <2>1, SecretPatched
<1>4. /\ apps' \in [Apps -> AppStates] /\ overridden' \in BOOLEAN
      /\ dir' \in BOOLEAN /\ disturbed' \in BOOLEAN
  BY <1>1, ActiveFacts
<1>5. ~disturbed' => InOrder(apps', overridden', dir', secret')
  <2>1. ~disturbed => LiveIn(apps) = {} /\ dir = FALSE
    BY <1>1, ActiveFacts DEF UndisturbedInv
  <2>. QED  BY <1>1, <1>3, <2>1 DEF InOrder
<1>6. proc[p].alone => proc[p].profile \notin LiveIn(apps')
  BY <1>1, ActiveFacts DEF AloneInv
<1>7. proc[p].op \notin {"delete", "ngupdate", "ngdelete", "manage"}
  BY <1>1
<1>. QED  BY <1>1, <1>2, <1>3, <1>4, <1>5, <1>6, <1>7, SucceedsKeeps

----------------------------------------------------------------------------
(* Failures and Argo CD *)

LEMMA FailKeeps ==
    ASSUME IndInv, NEW p \in Procs, Fail(p)
    PROVE  IndInv'
<1>1. /\ proc[p] # Idle /\ proc' = [proc EXCEPT ![p] = Idle]
      /\ disturbed' = (disturbed \/ proc[p].begun)
      /\ UNCHANGED <<apps, overridden, dir, secret, done, commands>>
  BY DEF Fail, Ends
<1>2. /\ apps' \in [Apps -> AppStates] /\ overridden' \in BOOLEAN
      /\ dir' \in BOOLEAN /\ secret' \in Secret
      /\ disturbed' \in BOOLEAN /\ (~disturbed' => ~disturbed)
  BY <1>1, ActiveFacts, CommandFields
<1>3. ~disturbed' => InOrder(apps', overridden', dir', secret')
  BY <1>1, ActiveFacts DEF UndisturbedInv
<1>. QED  BY <1>1, <1>2, <1>3, EndsKeeps

\* The end of a deletion by Argo CD is not seen by what the invariant says of
\* the live applications; what was absent remains so.
LEMMA ArgoDeletesKeeps ==
    ASSUME IndInv, NEW a \in Apps, ArgoDeletes(a)
    PROVE  IndInv'
<1>1. /\ apps[a] = "terminating" /\ apps' = [apps EXCEPT ![a] = "absent"]
      /\ UNCHANGED <<overridden, dir, secret, proc, done, disturbed, commands>>
      /\ apps \in [Apps -> AppStates]
  BY DEF ArgoDeletes, IndInv, TypeOK
<1>2. /\ apps' \in [Apps -> AppStates]
      /\ LiveIn(apps') = LiveIn(apps)
      /\ apps["cluster"] = "absent" => apps'["cluster"] = "absent"
      /\ apps'["cluster"] # "absent" => apps'["cluster"] = apps["cluster"]
  <2>1. /\ apps' \in [Apps -> AppStates]
        /\ LiveIn(apps') = LiveIn(apps)
        /\ \A y \in Apps : apps[y] = "absent" => apps'[y] = "absent"
        /\ \A y \in Apps : apps'[y] # "absent" => apps'[y] = apps[y]
    BY <1>1 DEF LiveIn, AppStates
  <2>. QED  BY <2>1, AppNames
<1>3. InOrder(apps, overridden, dir, secret) =>
          InOrder(apps', overridden, dir, secret)
  BY <1>2 DEF InOrder
<1>4. TypeOK'
  BY <1>1, <1>2, Zenon DEF IndInv, TypeOK
<1>5. CommandsInv'
  <2>. SUFFICES ASSUME NEW p \in Procs, proc[p] # Idle
                PROVE  /\ proc[p].alone =>
                             /\ \A q \in Procs : q # p => proc[q] = Idle
                             /\ AloneInv(proc[p], apps', overridden, dir)
                       /\ ~disturbed =>
                             /\ proc[p].alone
                             /\ UndisturbedInv(proc[p], apps', overridden, dir,
                                               secret)
    BY <1>1, Zenon DEF CommandsInv
  <2>1. /\ proc[p].alone =>
              /\ \A q \in Procs : q # p => proc[q] = Idle
              /\ AloneInv(proc[p], apps, overridden, dir)
        /\ ~disturbed =>
              /\ proc[p].alone
              /\ UndisturbedInv(proc[p], apps, overridden, dir, secret)
    BY Zenon DEF IndInv, CommandsInv
  <2>2. AloneInv(proc[p], apps, overridden, dir) =>
            AloneInv(proc[p], apps', overridden, dir)
    BY <1>2 DEF AloneInv
  <2>3. UndisturbedInv(proc[p], apps, overridden, dir, secret) =>
            UndisturbedInv(proc[p], apps', overridden, dir, secret)
    <3>1. CreateInv(proc[p], apps, overridden, dir, secret) =>
              CreateInv(proc[p], apps', overridden, dir, secret)
      BY <1>2 DEF CreateInv
    <3>. QED  BY <1>2, <1>3, <3>1 DEF UndisturbedInv
  <2>. QED  BY <2>1, <2>2, <2>3, Zenon
<1>6. IdleInv'
  BY <1>1, <1>3, Zenon DEF IndInv, IdleInv
<1>7. DoneInv'
  <2>1. Live' = LiveIn(apps') /\ Live = LiveIn(apps)
    BY DEF Live, LiveIn
  <2>2. Live' = Live /\ (Terminating("cluster")' => Terminating("cluster"))
    BY <1>2, <2>1 DEF Terminating
  <2>. QED  BY <1>1, <2>2, Zenon
            DEF IndInv, DoneInv, DeleteCleansUp, NgUpdateReplaces,
                ExternalSucceeds, IsExternal
<1>. QED  BY <1>4, <1>5, <1>6, <1>7, Zenon DEF IndInv

----------------------------------------------------------------------------
(* The invariant *)

LEMMA InitImpliesIndInv == Init => IndInv
<1>. SUFFICES ASSUME Init
              PROVE  IndInv
  OBVIOUS
<1>1. /\ apps \in [Apps -> AppStates] /\ LiveIn(apps) = {}
      /\ apps["cluster"] = "absent"
  BY AppNames DEF Init, AppStates, LiveIn
<1>2. secret \in Secret /\ secret.profile = None
  BY DEF Init, Secret
<1>3. /\ proc \in [Procs -> Command \cup {Idle}]
      /\ \A p \in Procs : proc[p] = Idle
  BY DEF Init
<1>4. commands \in 0..MaxCommands
  BY ConstantsAssumption DEF Init
<1>5. TypeOK
  BY <1>1, <1>2, <1>3, <1>4 DEF Init, TypeOK
<1>6. CommandsInv
  BY <1>3, Zenon DEF CommandsInv
<1>7. InOrder(apps, overridden, dir, secret)
  BY <1>1, <1>2 DEF Init, InOrder
<1>8. IdleInv
  BY <1>7, Zenon DEF IdleInv
<1>9. DoneInv
  BY <1>3, Zenon DEF Init, DoneInv, DeleteCleansUp, NgUpdateReplaces,
     ExternalSucceeds
<1>. QED  BY <1>5, <1>6, <1>8, <1>9 DEF IndInv

LEMMA StepPreserves == IndInv /\ [Next]_vars => IndInv'
<1>1. ASSUME IndInv, NEW p \in Procs, Run(p) PROVE IndInv'
  BY <1>1, RunKeeps
<1>2. ASSUME IndInv, NEW p \in Procs, Step(p) PROVE IndInv'
  <2>1. CASE CreatePatchDir(p)
    BY <1>2, <2>1, CreatePatchDirKeeps
  <2>2. CASE CheckCluster(p)
    BY <1>2, <2>2, CheckClusterKeeps
  <2>3. CASE CreateArlonApp(p)
    BY <1>2, <2>3, CreateArlonAppKeeps
  <2>4. CASE CreateClusterApp(p)
    BY <1>2, <2>4, CreateClusterAppKeeps
  <2>5. CASE CreateProfileApp(p)
    BY <1>2, <2>5, CreateProfileAppKeeps
  <2>6. CASE ListApps(p)
    BY <1>2, <2>6, ListAppsKeeps
  <2>7. CASE DeleteOverridesDir(p)
    BY <1>2, <2>7, DeleteOverridesDirKeeps
  <2>8. ASSUME NEW a \in Apps, DeleteApp(p, a) PROVE IndInv'
    BY <1>2, <2>8, DeleteAppKeeps
  <2>9. CASE ManageCreatesApp(p)
    BY <1>2, <2>9, ManageCreatesAppKeeps
  <2>10. CASE ManagePatches(p)
    BY <1>2, <2>10, ManagePatchesKeeps
  <2>11. CASE ManageUndoes(p)
    BY <1>2, <2>11, ManageUndoesKeeps
  <2>12. CASE UnmanageDeletesApp(p)
    BY <1>2, <2>12, UnmanageDeletesAppKeeps
  <2>13. CASE UnmanagePatches(p)
    BY <1>2, <2>13, UnmanagePatchesKeeps
  <2>. QED  BY <1>2, <2>1, <2>2, <2>3, <2>4, <2>5, <2>6, <2>7, <2>8, <2>9,
               <2>10, <2>11, <2>12, <2>13, Zenon DEF Step
<1>3. ASSUME IndInv, NEW p \in Procs, PatchFails(p) PROVE IndInv'
  BY <1>3, PatchFailsKeeps
<1>4. ASSUME IndInv, NEW p \in Procs, Fail(p) PROVE IndInv'
  BY <1>4, FailKeeps
<1>5. ASSUME IndInv, NEW a \in Apps, ArgoDeletes(a) PROVE IndInv'
  BY <1>5, ArgoDeletesKeeps
<1>6. ASSUME IndInv, UNCHANGED vars PROVE IndInv'
  BY <1>6 DEF vars, IndInv, TypeOK, CommandsInv, IdleInv, DoneInv,
     DeleteCleansUp, NgUpdateReplaces, ExternalSucceeds, Live, Terminating,
     IsExternal
<1>. QED  BY <1>1, <1>2, <1>3, <1>4, <1>5, <1>6, Zenon DEF Next

----------------------------------------------------------------------------
(* Theorems *)

\* The inductive invariant holds of every run of the commands.
THEOREM Invariance == Spec => []IndInv
<1>1. Init => IndInv
  BY InitImpliesIndInv
<1>2. IndInv /\ [Next]_vars => IndInv'
  BY StepPreserves
<1>. QED  BY <1>1, <1>2, PTL DEF Spec

\* Applications, secret and commands keep their shape; what ngupdate, manage
\* and unmanage work on is always a profile.
THEOREM TypeCorrect == Spec => []TypeOK
<1>1. IndInv => TypeOK
  BY DEF IndInv
<1>. QED  BY <1>1, Invariance, PTL

\* Unless something was disturbed, no sequence of commands leaves Argo CD, git
\* and the secret in disagreement.
THEOREM ConsistentUnlessDisturbed == Spec => []Consistent
<1>1. IndInv => Consistent
  <2>. SUFFICES ASSUME IndInv, ~disturbed, \A p \in Procs : proc[p] = Idle
                PROVE  /\ IsExternal => Live = {secret.profile}
                       /\ "cluster" \in Live =>
                             /\ "arlon" \in Live
                             /\ \E n \in Profiles \cup {None} :
                                   Live \subseteq {"arlon", "cluster", n}
                       /\ (~IsExternal /\ "cluster" \notin Live) => Live = {}
                       /\ dir = ("cluster" \in Live /\ overridden)
    BY Zenon DEF Consistent
  <2>1. InOrder(apps, overridden, dir, secret)
    BY Zenon DEF IndInv, IdleInv
  <2>. QED  BY <2>1, LiveIsLive, Zenon DEF InOrder, IsExternal
<1>. QED  BY <1>1, Invariance, PTL

\* A delete that succeeds alone has left nothing of the cluster, whatever
\* half-finished commands came before it.
THEOREM DeleteIsComplete == Spec => []DeleteCleansUp
<1>1. IndInv => DeleteCleansUp
  BY DEF IndInv, DoneInv
<1>. QED  BY <1>1, Invariance, PTL

\* After an ngupdate that succeeds alone, the new profile is the only one.
THEOREM NgUpdateReplacesAll == Spec => []NgUpdateReplaces
<1>1. IndInv => NgUpdateReplaces
  BY DEF IndInv, DoneInv
<1>. QED  BY <1>1, Invariance, PTL

\* A manage or an unmanage that succeeds alone leaves secret and profile app as
\* it was asked to.
THEOREM ExternalAsAsked == Spec => []ExternalSucceeds
<1>1. IndInv => ExternalSucceeds
  BY DEF IndInv, DoneInv
<1>. QED  BY <1>1, Invariance, PTL
=============================================================================
