---------------------- MODULE ClusterControllerProofs ----------------------
(* Proofs about ClusterController, for every value of its constants. *)
EXTENDS ClusterController, TLAPS

----------------------------------------------------------------------------
(* Facts about the data *)

\* The cached and the current version are objects.
LEMMA EndsType ==
    ASSUME TypeOK
    PROVE  /\ Cached \in ClusterObject
           /\ Current \in ClusterObject
           /\ Len(log) \in DOMAIN log
           /\ 1 \in DOMAIN log
           /\ DOMAIN log = 1..Len(log)
           /\ Len(log) \in Nat
           /\ Len(log) >= 1
BY ConstantsAssumption DEF TypeOK, Cached, Current

\* The absent object and the cluster apps that are built have their types.
LEMMA ConstType ==
    /\ Gone \in ClusterObject
    /\ NoClusterApp \in ClusterApp
    /\ NewClusterApp \in ClusterApp
    /\ \A ann \in UserAnns : ann \in Anns
BY ConstantsAssumption
   DEF Gone, ClusterObject, States, Messages, Anns, NoClusterApp,
       NewClusterApp, ClusterApp, Phases

\* Changing fields of an object within their types keeps its type.
LEMMA ObjectType ==
    ASSUME NEW obj \in ClusterObject
    PROVE  /\ obj.exists \in BOOLEAN
           /\ obj.ann \in Anns
           /\ \A s \in States, m \in Messages :
                [obj EXCEPT !.state = s, !.msg = m] \in ClusterObject
           /\ \A b \in BOOLEAN :
                /\ [obj EXCEPT !.inner = b] \in ClusterObject
                /\ [obj EXCEPT !.ovrOk = b] \in ClusterObject
                /\ [obj EXCEPT !.finalizer = b] \in ClusterObject
                /\ [obj EXCEPT !.deleting = b] \in ClusterObject
           /\ \A a \in Anns : [obj EXCEPT !.ann = a] \in ClusterObject
           /\ \A a \in Anns, b \in BOOLEAN :
                [obj EXCEPT !.exists = TRUE, !.ann = a, !.override = b]
                    \in ClusterObject
BY DEF ClusterObject

\* Annotating an object changes nothing else.
LEMMA AnnotatedType ==
    ASSUME NEW obj \in ClusterObject, NEW ann \in Anns
    PROVE  /\ [obj EXCEPT !.ann = ann] \in ClusterObject
           /\ SameMeta([obj EXCEPT !.ann = ann], obj)
BY DEF ClusterObject, SameMeta

\* What a change of the finalizer, or of the deletion mark, leaves.
LEMMA FieldUpdates ==
    ASSUME NEW obj \in ClusterObject, NEW b
    PROVE  /\ [obj EXCEPT !.finalizer = b].finalizer = b
           /\ [obj EXCEPT !.finalizer = b].exists = obj.exists
           /\ [obj EXCEPT !.finalizer = b].deleting = obj.deleting
           /\ [obj EXCEPT !.deleting = b].deleting = b
           /\ [obj EXCEPT !.deleting = b].exists = obj.exists
           /\ [obj EXCEPT !.deleting = b].finalizer = obj.finalizer
BY DEF ClusterObject

\* A log of one version.
LEMMA SingletonLog ==
    ASSUME NEW obj \in ClusterObject
    PROVE  /\ <<obj>> \in Seq(ClusterObject)
           /\ Len(<<obj>>) = 1
           /\ DOMAIN <<obj>> = {1}
           /\ <<obj>>[1] = obj
OBVIOUS

\* What an informer delivery does to the log.
LEMMA TailLog ==
    ASSUME NEW s \in Seq(ClusterObject), Len(s) > 1
    PROVE  /\ Tail(s) \in Seq(ClusterObject)
           /\ Len(Tail(s)) = Len(s) - 1
           /\ DOMAIN Tail(s) = 1..(Len(s) - 1)
           /\ \A i \in 1..(Len(s) - 1) : Tail(s)[i] = s[i + 1]
OBVIOUS

\* What a write does to the log.
LEMMA AppendLog ==
    ASSUME NEW s \in Seq(ClusterObject), NEW obj \in ClusterObject
    PROVE  /\ Append(s, obj) \in Seq(ClusterObject)
           /\ Len(Append(s, obj)) = Len(s) + 1
           /\ DOMAIN Append(s, obj) = 1..(Len(s) + 1)
           /\ \A i \in 1..Len(s) : Append(s, obj)[i] = s[i]
           /\ Append(s, obj)[Len(s) + 1] = obj
OBVIOUS

----------------------------------------------------------------------------
(* Type correctness *)

\* The part of the type invariant the reconciler's helpers are about.
LogTypeOK ==
    /\ log \in Seq(ClusterObject)
    /\ Len(log) \in 1..(MaxLag + 1)

CtlTypeOK ==
    /\ queued \in BOOLEAN
    /\ timer \in BOOLEAN
    /\ pc \in PCs
    /\ local \in ClusterObject
    /\ fresh \in BOOLEAN
    /\ result \in Results

EnvTypeOK ==
    /\ arlonApp \in Phases
    /\ clusterApp \in ClusterApp
    /\ dir \in BOOLEAN

BudgetTypeOK ==
    /\ faults \in 0..MaxFaults
    /\ edits \in 0..MaxEdits
    /\ removals \in 0..MaxRemovals

\* The type invariant by parts.
LEMMA TypeParts ==
    LogTypeOK' /\ CtlTypeOK' /\ EnvTypeOK' /\ BudgetTypeOK' => TypeOK'
BY DEF TypeOK, LogTypeOK, CtlTypeOK, EnvTypeOK, BudgetTypeOK

\* A write appends a version or changes nothing.
LEMMA WriteType ==
    ASSUME TypeOK, NEW obj \in ClusterObject, Write(obj)
    PROVE  LogTypeOK'
BY ConstantsAssumption, AppendLog DEF TypeOK, LogTypeOK, Write

\* An UpdateState keeps the types of what it changes.
LEMMA UpdateStateType ==
    ASSUME TypeOK, NEW obj \in ClusterObject, NEW s \in States,
           NEW m \in Messages, NEW r \in Results, UpdateState(obj, s, m, r)
    PROVE  LogTypeOK' /\ CtlTypeOK'
<1>1. [obj EXCEPT !.state = s, !.msg = m] \in ClusterObject
  BY ObjectType
<1>. QED
  BY <1>1 DEF UpdateState, PCs, TypeOK, LogTypeOK, CtlTypeOK

\* The error paths of the reconciler keep the types.
LEMMA RetryType ==
    ASSUME TypeOK, NEW s \in States, Retry(s)
    PROVE  LogTypeOK' /\ CtlTypeOK'
<1>1. local \in ClusterObject /\ pc \in Messages /\ "requeueAfter" \in Results
  BY DEF TypeOK, Messages, Results
<1>. QED  BY <1>1, UpdateStateType DEF Retry

\* Returning from a reconcile keeps the types of what it changes.
LEMMA ReturnType ==
    ASSUME TypeOK, NEW b \in BOOLEAN, Return(b)
    PROVE  CtlTypeOK'
BY ConstType DEF TypeOK, CtlTypeOK, Return, PCs, Results

\* Going to another step keeps the types.
LEMMA GotoType ==
    ASSUME TypeOK, NEW step \in PCs, Goto(step)
    PROVE  LogTypeOK' /\ CtlTypeOK'
BY DEF TypeOK, LogTypeOK, CtlTypeOK, Goto

\* A call's outcome keeps the budgets.
LEMMA FaultType ==
    ASSUME TypeOK, Ok \/ Fault, UNCHANGED budget
    PROVE  BudgetTypeOK'
BY ConstantsAssumption DEF TypeOK, BudgetTypeOK, Ok, Fault, budget

\* A step that leaves the applications and git alone keeps their types.
LEMMA EnvType ==
    ASSUME TypeOK, UNCHANGED external
    PROVE  EnvTypeOK'
BY DEF TypeOK, EnvTypeOK, external

\* The initial state has its types.
LEMMA TypeInit == Init => TypeOK
<1>. SUFFICES ASSUME Init PROVE TypeOK
  OBVIOUS
<1>1. LogTypeOK
  BY SingletonLog, ConstType, ConstantsAssumption DEF Init, LogTypeOK
<1>2. CtlTypeOK
  BY ConstType DEF Init, CtlTypeOK, PCs, Results
<1>3. EnvTypeOK
  BY ConstType DEF Init, EnvTypeOK, Phases
<1>4. BudgetTypeOK
  BY ConstantsAssumption DEF Init, BudgetTypeOK
<1>. QED
  BY <1>1, <1>2, <1>3, <1>4
     DEF TypeOK, LogTypeOK, CtlTypeOK, EnvTypeOK, BudgetTypeOK

\* Every step of the specification keeps the types.
LEMMA TypeNext == TypeOK /\ [Next]_vars => TypeOK'
<1>. SUFFICES ASSUME TypeOK, [Next]_vars PROVE TypeOK'
  OBVIOUS
<1>. USE EndsType, ConstType
<1>1. CASE Reconcile
  <2>1. LogTypeOK' /\ CtlTypeOK'
    BY <1>1 DEF Reconcile, TypeOK, LogTypeOK, CtlTypeOK, PCs
  <2>. QED
    BY <1>1, <2>1, FaultType, EnvType, TypeParts DEF Reconcile, external, budget
<1>2. CASE NewApplicationClient
  <2>0. FirstStep(local) \in PCs
    BY DEF FirstStep, PCs
  <2>1. LogTypeOK' /\ CtlTypeOK'
    BY <1>2, <2>0, GotoType, RetryType DEF NewApplicationClient, States
  <2>. QED
    BY <1>2, <2>1, FaultType, EnvType, TypeParts DEF NewApplicationClient, external, budget
<1>3. CASE AddFinalizer
  <2>0. [Current EXCEPT !.finalizer = TRUE] \in ClusterObject
    BY ObjectType
  <2>1. LogTypeOK' /\ CtlTypeOK'
    <3>1. LogTypeOK'
      BY <1>3, <2>0, WriteType DEF AddFinalizer, TypeOK, LogTypeOK
    <3>2. \E b \in BOOLEAN : Return(b)
      BY <1>3 DEF AddFinalizer
    <3>. QED  BY <3>1, <3>2, ReturnType
  <2>. QED
    BY <1>3, <2>1, FaultType, EnvType, TypeParts DEF AddFinalizer, external, budget
<1>4. CASE ValidateGitDir
  <2>0. [local EXCEPT !.inner = TRUE] \in ClusterObject
    BY ObjectType DEF TypeOK
  <2>1. LogTypeOK' /\ CtlTypeOK'
    BY <1>4, <2>0, UpdateStateType, RetryType
       DEF ValidateGitDir, States, Messages, Results
  <2>. QED
    BY <1>4, <2>1, FaultType, EnvType, TypeParts DEF ValidateGitDir, external, budget
<1>5. CASE CreatePatchDir
  <2>0. [local EXCEPT !.ovrOk = TRUE] \in ClusterObject
    BY ObjectType DEF TypeOK
  <2>1. LogTypeOK' /\ CtlTypeOK'
    BY <1>5, <2>0, UpdateStateType, RetryType
       DEF CreatePatchDir, States, Messages, Results
  <2>2. EnvTypeOK'
    BY <1>5, ObjectType DEF CreatePatchDir, TypeOK, EnvTypeOK, Phases, ClusterApp
  <2>. QED
    BY <1>5, <2>1, <2>2, FaultType, TypeParts DEF CreatePatchDir
<1>6. CASE GetArlonApp
  <2>0. \/ \E step \in PCs : Goto(step)
        \/ \E s \in States : Retry(s)
        \/ \E s \in States, m \in Messages, r \in Results :
              UpdateState(local, s, m, r)
        \/ \E b \in BOOLEAN : Return(b) /\ UNCHANGED log
    BY <1>6 DEF GetArlonApp, PCs, States, Messages, Results
  <2>1. LogTypeOK' /\ CtlTypeOK'
    <3>1. local \in ClusterObject
      BY DEF TypeOK
    <3>2. UNCHANGED log => LogTypeOK'
      BY DEF TypeOK, LogTypeOK
    <3>. QED
      BY <2>0, <3>1, <3>2, GotoType, RetryType, UpdateStateType, ReturnType
  <2>. QED
    BY <1>6, <2>1, FaultType, EnvType, TypeParts DEF GetArlonApp, external, budget
<1>7. CASE CreateArlonApp
  <2>0. \/ \E step \in PCs : Goto(step)
        \/ \E s \in States : Retry(s)
        \/ \E s \in States, m \in Messages, r \in Results :
              UpdateState(local, s, m, r)
        \/ \E b \in BOOLEAN : Return(b) /\ UNCHANGED log
    BY <1>7 DEF CreateArlonApp, PCs, States, Messages, Results
  <2>1. LogTypeOK' /\ CtlTypeOK'
    <3>1. local \in ClusterObject
      BY DEF TypeOK
    <3>2. UNCHANGED log => LogTypeOK'
      BY DEF TypeOK, LogTypeOK
    <3>. QED
      BY <2>0, <3>1, <3>2, GotoType, RetryType, UpdateStateType, ReturnType
  <2>2. EnvTypeOK'
    BY <1>7, ObjectType DEF CreateArlonApp, TypeOK, EnvTypeOK, Phases, ClusterApp
  <2>. QED
    BY <1>7, <2>1, <2>2, FaultType, TypeParts DEF CreateArlonApp
<1>8. CASE GetClusterApp
  <2>0. \/ \E step \in PCs : Goto(step)
        \/ \E s \in States : Retry(s)
        \/ \E s \in States, m \in Messages, r \in Results :
              UpdateState(local, s, m, r)
        \/ \E b \in BOOLEAN : Return(b) /\ UNCHANGED log
    BY <1>8 DEF GetClusterApp, PCs, States, Messages, Results
  <2>1. LogTypeOK' /\ CtlTypeOK'
    <3>1. local \in ClusterObject
      BY DEF TypeOK
    <3>2. UNCHANGED log => LogTypeOK'
      BY DEF TypeOK, LogTypeOK
    <3>. QED
      BY <2>0, <3>1, <3>2, GotoType, RetryType, UpdateStateType, ReturnType
  <2>. QED
    BY <1>8, <2>1, FaultType, EnvType, TypeParts DEF GetClusterApp, external, budget
<1>9. CASE CreateClusterApp
  <2>0. \/ \E step \in PCs : Goto(step)
        \/ \E s \in States : Retry(s)
        \/ \E s \in States, m \in Messages, r \in Results :
              UpdateState(local, s, m, r)
        \/ \E b \in BOOLEAN : Return(b) /\ UNCHANGED log
    BY <1>9 DEF CreateClusterApp, PCs, States, Messages, Results
  <2>1. LogTypeOK' /\ CtlTypeOK'
    <3>1. local \in ClusterObject
      BY DEF TypeOK
    <3>2. UNCHANGED log => LogTypeOK'
      BY DEF TypeOK, LogTypeOK
    <3>. QED
      BY <2>0, <3>1, <3>2, GotoType, RetryType, UpdateStateType, ReturnType
  <2>2. EnvTypeOK'
    BY <1>9, ObjectType DEF CreateClusterApp, TypeOK, EnvTypeOK, Phases, ClusterApp
  <2>. QED
    BY <1>9, <2>1, <2>2, FaultType, TypeParts DEF CreateClusterApp
<1>10. CASE UpdateClusterApp
  <2>0. \/ \E step \in PCs : Goto(step)
        \/ \E s \in States : Retry(s)
        \/ \E s \in States, m \in Messages, r \in Results :
              UpdateState(local, s, m, r)
        \/ \E b \in BOOLEAN : Return(b) /\ UNCHANGED log
    BY <1>10 DEF UpdateClusterApp, PCs, States, Messages, Results
  <2>1. LogTypeOK' /\ CtlTypeOK'
    <3>1. local \in ClusterObject
      BY DEF TypeOK
    <3>2. UNCHANGED log => LogTypeOK'
      BY DEF TypeOK, LogTypeOK
    <3>. QED
      BY <2>0, <3>1, <3>2, GotoType, RetryType, UpdateStateType, ReturnType
  <2>2. EnvTypeOK'
    <3>1. clusterApp \in ClusterApp /\ local.ann \in Anns
      BY ObjectType DEF TypeOK
    <3>2. Synced(clusterApp) \in ClusterApp
      BY <3>1 DEF Synced, ClusterApp
    <3>3. clusterApp' = clusterApp \/ clusterApp' = Synced(clusterApp)
      BY <1>10, Zenon DEF UpdateClusterApp
    <3>4. UNCHANGED <<arlonApp, dir>>
      BY <1>10, Zenon DEF UpdateClusterApp
    <3>. QED  BY <3>1, <3>2, <3>3, <3>4 DEF TypeOK, EnvTypeOK
  <2>. QED
    BY <1>10, <2>1, <2>2, FaultType, TypeParts DEF UpdateClusterApp
<1>11. CASE UpdateStatus
  <2>0. local \in ClusterObject
    BY DEF TypeOK
  <2>1. LogTypeOK' /\ CtlTypeOK'
    <3>1. LogTypeOK'
      BY <1>11, <2>0, WriteType DEF UpdateStatus, TypeOK, LogTypeOK
    <3>2. \E b \in BOOLEAN : Return(b)
      BY <1>11 DEF UpdateStatus
    <3>. QED  BY <3>1, <3>2, ReturnType
  <2>. QED
    BY <1>11, <2>1, FaultType, EnvType, TypeParts DEF UpdateStatus, external, budget
<1>12. CASE GetClusterAppDel
  <2>0. \/ \E step \in PCs : Goto(step)
        \/ \E s \in States : Retry(s)
        \/ \E s \in States, m \in Messages, r \in Results :
              UpdateState(local, s, m, r)
        \/ \E b \in BOOLEAN : Return(b) /\ UNCHANGED log
    BY <1>12 DEF GetClusterAppDel, PCs, States, Messages, Results
  <2>1. LogTypeOK' /\ CtlTypeOK'
    <3>1. local \in ClusterObject
      BY DEF TypeOK
    <3>2. UNCHANGED log => LogTypeOK'
      BY DEF TypeOK, LogTypeOK
    <3>. QED
      BY <2>0, <3>1, <3>2, GotoType, RetryType, UpdateStateType, ReturnType
  <2>. QED
    BY <1>12, <2>1, FaultType, EnvType, TypeParts DEF GetClusterAppDel, external, budget
<1>13. CASE DeleteOverridesDir
  <2>0. [local EXCEPT !.ovrOk = FALSE] \in ClusterObject
    BY ObjectType DEF TypeOK
  <2>1. LogTypeOK' /\ CtlTypeOK'
    BY <1>13, <2>0, UpdateStateType, RetryType
       DEF DeleteOverridesDir, States, Messages, Results
  <2>2. EnvTypeOK'
    BY <1>13, ObjectType DEF DeleteOverridesDir, TypeOK, EnvTypeOK, Phases, ClusterApp
  <2>. QED
    BY <1>13, <2>1, <2>2, FaultType, TypeParts DEF DeleteOverridesDir
<1>14. CASE DeleteClusterApp
  <2>0. \/ \E step \in PCs : Goto(step)
        \/ \E s \in States : Retry(s)
        \/ \E s \in States, m \in Messages, r \in Results :
              UpdateState(local, s, m, r)
        \/ \E b \in BOOLEAN : Return(b) /\ UNCHANGED log
    BY <1>14 DEF DeleteClusterApp, PCs, States, Messages, Results
  <2>1. LogTypeOK' /\ CtlTypeOK'
    <3>1. local \in ClusterObject
      BY DEF TypeOK
    <3>2. UNCHANGED log => LogTypeOK'
      BY DEF TypeOK, LogTypeOK
    <3>. QED
      BY <2>0, <3>1, <3>2, GotoType, RetryType, UpdateStateType, ReturnType
  <2>2. EnvTypeOK'
    BY <1>14, ObjectType DEF DeleteClusterApp, TypeOK, EnvTypeOK, Phases, ClusterApp
  <2>. QED
    BY <1>14, <2>1, <2>2, FaultType, TypeParts DEF DeleteClusterApp
<1>15. CASE GetArlonAppDel
  <2>0. \/ \E step \in PCs : Goto(step)
        \/ \E s \in States : Retry(s)
        \/ \E s \in States, m \in Messages, r \in Results :
              UpdateState(local, s, m, r)
        \/ \E b \in BOOLEAN : Return(b) /\ UNCHANGED log
    BY <1>15 DEF GetArlonAppDel, PCs, States, Messages, Results
  <2>1. LogTypeOK' /\ CtlTypeOK'
    <3>1. local \in ClusterObject
      BY DEF TypeOK
    <3>2. UNCHANGED log => LogTypeOK'
      BY DEF TypeOK, LogTypeOK
    <3>. QED
      BY <2>0, <3>1, <3>2, GotoType, RetryType, UpdateStateType, ReturnType
  <2>. QED
    BY <1>15, <2>1, FaultType, EnvType, TypeParts DEF GetArlonAppDel, external, budget
<1>16. CASE DeleteArlonApp
  <2>0. \/ \E step \in PCs : Goto(step)
        \/ \E s \in States : Retry(s)
        \/ \E s \in States, m \in Messages, r \in Results :
              UpdateState(local, s, m, r)
        \/ \E b \in BOOLEAN : Return(b) /\ UNCHANGED log
    BY <1>16 DEF DeleteArlonApp, PCs, States, Messages, Results
  <2>1. LogTypeOK' /\ CtlTypeOK'
    <3>1. local \in ClusterObject
      BY DEF TypeOK
    <3>2. UNCHANGED log => LogTypeOK'
      BY DEF TypeOK, LogTypeOK
    <3>. QED
      BY <2>0, <3>1, <3>2, GotoType, RetryType, UpdateStateType, ReturnType
  <2>2. EnvTypeOK'
    BY <1>16, ObjectType DEF DeleteArlonApp, TypeOK, EnvTypeOK, Phases, ClusterApp
  <2>. QED
    BY <1>16, <2>1, <2>2, FaultType, TypeParts DEF DeleteArlonApp
<1>17. CASE RemoveFinalizer
  <2>0. WithoutFinalizer(Current) \in ClusterObject
    BY ObjectType DEF WithoutFinalizer
  <2>1. LogTypeOK' /\ CtlTypeOK'
    <3>1. LogTypeOK'
      BY <1>17, <2>0, WriteType DEF RemoveFinalizer, TypeOK, LogTypeOK
    <3>2. \E b \in BOOLEAN : Return(b)
      BY <1>17 DEF RemoveFinalizer
    <3>. QED  BY <3>1, <3>2, ReturnType
  <2>. QED
    BY <1>17, <2>1, FaultType, EnvType, TypeParts DEF RemoveFinalizer, external, budget
<1>18. CASE Deliver
  <2>1. Tail(log) \in Seq(ClusterObject) /\ Len(Tail(log)) = Len(log) - 1
    BY <1>18, TailLog DEF Deliver, TypeOK
  <2>2. LogTypeOK'
    BY <1>18, <2>1, ConstantsAssumption DEF Deliver, TypeOK, LogTypeOK
  <2>3. CtlTypeOK' /\ EnvTypeOK' /\ BudgetTypeOK'
    BY <1>18 DEF Deliver, TypeOK, CtlTypeOK, EnvTypeOK, BudgetTypeOK,
                  external, budget
  <2>. QED  BY <2>2, <2>3, TypeParts
<1>19. CASE TimerFires
  BY <1>19 DEF TimerFires, TypeOK, external, budget
<1>20. CASE Resync
  BY <1>20 DEF Resync, TypeOK, external, budget
<1>21. CASE Crash
  <2>1. LogTypeOK'
    BY <1>21, SingletonLog, ConstantsAssumption DEF Crash, LogTypeOK
  <2>2. CtlTypeOK'
    BY <1>21, ObjectType DEF Crash, CtlTypeOK, PCs, Results
  <2>. QED
    BY <1>21, <2>1, <2>2, FaultType, EnvType, TypeParts DEF Crash
<1>22. CASE ArgoDeletes
  BY <1>22, ConstantsAssumption DEF ArgoDeletes, TypeOK, Phases, ClusterApp, ctlVars, budget
<1>23. CASE User
  <2>1. PICK obj \in ClusterObject : Edit(obj)
    BY <1>23, ObjectType, ConstantsAssumption
       DEF User, UserCreates, UserAnnotates, UserDeletes
  <2>2. LogTypeOK'
    BY <2>1, WriteType DEF Edit
  <2>. QED
    BY <2>1, <2>2, ConstantsAssumption
       DEF Edit, KeepsFresh, TypeOK, LogTypeOK, external
<1>24. CASE OthersDeleteApp
  <2>1. clusterApp \in ClusterApp /\ clusterApp' \in ClusterApp
    BY <1>24 DEF OthersDeleteApp, TypeOK, Phases, ClusterApp
  <2>2. arlonApp' \in Phases
    BY <1>24 DEF OthersDeleteApp, TypeOK, Phases
  <2>3. removals' \in 0..MaxRemovals
    BY <1>24, ConstantsAssumption DEF OthersDeleteApp, TypeOK
  <2>. QED  BY <1>24, <2>1, <2>2, <2>3 DEF OthersDeleteApp, TypeOK, ctlVars
<1>25. CASE UNCHANGED vars
  BY <1>25 DEF vars, TypeOK
<1>. QED
  BY <1>1, <1>2, <1>3, <1>4, <1>5, <1>6, <1>7, <1>8, <1>9, <1>10, <1>11,
     <1>12, <1>13, <1>14, <1>15, <1>16, <1>17, <1>18, <1>19, <1>20,
     <1>21, <1>22, <1>23, <1>24, <1>25
     DEF Next, ControllerStep, CreateStep, DeleteStep

\* Every variable keeps its type in every behaviour of the controller.
THEOREM TypeCorrect == Spec => []TypeOK
BY TypeInit, TypeNext, PTL DEF Spec

----------------------------------------------------------------------------
(* Versions that may follow the current one *)

\* Appending obj keeps LogInv.
Follows(obj) ==
    /\ ~Claimed(obj) => \A i \in DOMAIN log : ~Live(log[i])
    /\ Live(obj) => \A i \in DOMAIN log : ~log[i].deleting
    /\ Claimed(obj) =>
          \A i, j \in DOMAIN log :
              i < j /\ log[i].deleting => Claimed(log[j])
    /\ ~Claimed(obj) /\ ~log[1].deleting =>
          \A i \in DOMAIN log : ~log[i].deleting

\* Appending obj keeps what LocalInv says of the copy in use.
LocalFollows(obj) ==
    /\ Live(local) => Claimed(obj)
    /\ local.deleting => ~Live(obj)
    /\ local.deleting /\ ~log[1].deleting => ~obj.deleting
    /\ local.exists /\ ~local.finalizer /\ ~Claimed(obj) =>
          \A i \in DOMAIN log : ~log[i].deleting

\* The current version may be repeated.
LEMMA CurrentFollows ==
    ASSUME TypeOK, LogInv
    PROVE  Follows(Current) /\ (LocalInv => LocalFollows(Current))
<1>. USE EndsType
<1>1. \A i \in DOMAIN log : i < Len(log) \/ i = Len(log)
  OBVIOUS
<1>2. WellFormed(Current)
  BY DEF LogInv, Current
<1>3. Follows(Current)
  BY <1>1, <1>2 DEF LogInv, Follows, WellFormed, Claimed, Live, Current
<1>4. ASSUME LocalInv PROVE LocalFollows(Current)
  BY <1>1, <1>2, <1>4
     DEF LogInv, LocalInv, LocalFollows, WellFormed, Claimed, Live, Current
<1>. QED  BY <1>3, <1>4

\* So may any change that keeps the object's existence, its deletion mark
\* and its finalizer.
LEMMA SameMetaFollows ==
    ASSUME TypeOK, LogInv, NEW obj, SameMeta(obj, Current)
    PROVE  Follows(obj) /\ (LocalInv => LocalFollows(obj))
BY CurrentFollows DEF SameMeta, Follows, LocalFollows, Claimed, Live

\* An unclaimed object may become another unclaimed one, or go away.
LEMMA UnclaimedFollows ==
    ASSUME TypeOK, LogInv, NEW obj, WellFormed(obj), ~Claimed(obj),
           ~Claimed(Current)
    PROVE  Follows(obj) /\ (LocalInv => LocalFollows(obj))
<1>. USE CurrentFollows
<1>1. ~obj.deleting /\ ~Live(obj)
  BY DEF WellFormed, Live
<1>. QED  BY <1>1 DEF Follows, LocalFollows, Claimed, Live

\* A live object may be marked for deletion.
LEMMA DyingFollows ==
    ASSUME TypeOK, LogInv, NEW obj, Claimed(obj), obj.deleting, Live(Current)
    PROVE  Follows(obj) /\ (LocalInv => LocalFollows(obj))
<1>. USE CurrentFollows
<1>1. Claimed(Current) /\ ~Live(obj)
  BY DEF Live
<1>2. ASSUME LocalInv PROVE ~local.deleting
  BY <1>2, EndsType DEF LocalInv, Current
<1>. QED  BY <1>1, <1>2 DEF Follows, LocalFollows

\* The shape of the log after an append.
LEMMA AppendShape ==
    ASSUME TypeOK, NEW obj \in ClusterObject, log' = Append(log, obj)
    PROVE  /\ Len(log') = Len(log) + 1
           /\ \A i \in DOMAIN log : log'[i] = log[i]
           /\ log'[Len(log')] = obj
           /\ log'[1] = log[1]
           /\ \A i \in DOMAIN log' : i \in DOMAIN log \/ log'[i] = obj
           /\ \A i, j \in DOMAIN log' : i < j => i \in DOMAIN log
           /\ log' # log
<1>1. /\ Len(log') = Len(log) + 1
      /\ DOMAIN log' = 1..(Len(log) + 1)
      /\ \A i \in DOMAIN log : log'[i] = log[i]
      /\ log'[Len(log) + 1] = obj
      /\ log'[1] = log[1]
  BY AppendLog, EndsType DEF TypeOK
<1>2. \A i \in DOMAIN log' : i \in DOMAIN log \/ i = Len(log) + 1
  BY <1>1, EndsType
<1>3. \A i, j \in DOMAIN log' : i < j => i \in DOMAIN log
  BY <1>1, EndsType
<1>4. log' # log
  <2>1. Len(log) \in Nat
    BY EndsType
  <2>2. Len(log) + 1 # Len(log)
    BY <2>1
  <2>3. Len(log') # Len(log)
    BY <1>1, <2>2
  <2>. QED  BY <2>3, Zenon
<1>. QED  BY <1>1, <1>2, <1>3, <1>4

\* The log after a write of a version that may follow.
LEMMA WriteLogInv ==
    ASSUME TypeOK, LogInv, NEW obj \in ClusterObject, WellFormed(obj),
           Follows(obj), Write(obj)
    PROVE  LogInv' /\ Current' = obj
<1>1. CASE obj = Current
  BY <1>1 DEF Write, LogInv, Current
<1>2. CASE obj # Current
  <2>0. log' = Append(log, obj)
    BY <1>2 DEF Write
  <2>1. /\ \A i \in DOMAIN log : log'[i] = log[i]
        /\ log'[1] = log[1]
        /\ \A i \in DOMAIN log' : i \in DOMAIN log \/ log'[i] = obj
        /\ \A i, j \in DOMAIN log' : i < j => i \in DOMAIN log
        /\ log'[Len(log')] = obj
    BY <2>0, AppendShape
  <2>5. \A i \in DOMAIN log' : WellFormed(log'[i])
    BY <2>1 DEF LogInv
  <2>6. \A i, j \in DOMAIN log' :
           i < j /\ Live(log'[i]) => Claimed(log'[j])
    BY <2>1 DEF LogInv, Follows
  <2>7. \A i, j \in DOMAIN log' :
           i < j /\ log'[i].deleting => ~Live(log'[j])
    BY <2>1 DEF LogInv, Follows
  <2>8. \A i, j, k \in DOMAIN log' :
           i < j /\ j < k /\ log'[i].deleting /\ ~Claimed(log'[j])
              => ~Claimed(log'[k])
    BY <2>1 DEF LogInv, Follows
  <2>9. ~log'[1].deleting =>
           \A i, j \in DOMAIN log' :
              i < j /\ log'[i].deleting => Claimed(log'[j])
    BY <2>1 DEF LogInv, Follows
  <2>10. Current' = obj
    BY <2>1 DEF Current
  <2>. QED
    BY <2>5, <2>6, <2>7, <2>8, <2>9, <2>10 DEF LogInv, WellFormed, Claimed, Live
<1>. QED  BY <1>1, <1>2

----------------------------------------------------------------------------
(* The log *)

\* The steps of the controller that write nothing.
QuietStep ==
    \/ Reconcile \/ NewApplicationClient \/ ValidateGitDir \/ CreatePatchDir
    \/ GetArlonApp \/ CreateArlonApp \/ GetClusterApp \/ CreateClusterApp
    \/ UpdateClusterApp \/ GetClusterAppDel \/ DeleteOverridesDir
    \/ DeleteClusterApp \/ GetArlonAppDel \/ DeleteArlonApp

\* They leave the log alone.
LEMMA QuietLog == QuietStep => UNCHANGED log
BY DEF QuietStep, Reconcile, NewApplicationClient, ValidateGitDir,
       CreatePatchDir, GetArlonApp, CreateArlonApp, GetClusterApp,
       CreateClusterApp, UpdateClusterApp, GetClusterAppDel,
       DeleteOverridesDir, DeleteClusterApp, GetArlonAppDel, DeleteArlonApp,
       Goto, Retry, UpdateState

\* What the three writing steps of the controller write.
LEMMA WriterFollows ==
    ASSUME IndInv
    PROVE  /\ pc = "AddFinalizer" /\ Current.exists =>
                LET obj == [Current EXCEPT !.finalizer = TRUE] IN
                obj \in ClusterObject /\ WellFormed(obj) /\ Follows(obj)
                    /\ Claimed(obj)
           /\ pc = "UpdateStatus" /\ fresh =>
                /\ local \in ClusterObject /\ WellFormed(local)
                /\ Follows(local) /\ (Claimed(local) <=> Claimed(Current))
           /\ pc = "RemoveFinalizer" /\ Current.exists =>
                LET obj == WithoutFinalizer(Current) IN
                obj \in ClusterObject /\ WellFormed(obj) /\ Follows(obj)
<1>. USE EndsType DEF IndInv
<1>0. WellFormed(Current) /\ Current \in ClusterObject
  BY DEF LogInv, Current
<1>1. ASSUME pc = "AddFinalizer", Current.exists
      PROVE  LET obj == [Current EXCEPT !.finalizer = TRUE] IN
             obj \in ClusterObject /\ WellFormed(obj) /\ Follows(obj)
                /\ Claimed(obj)
  <2>. DEFINE obj == [Current EXCEPT !.finalizer = TRUE]
  <2>1. /\ obj \in ClusterObject
        /\ obj.exists = Current.exists /\ obj.deleting = Current.deleting
        /\ obj.finalizer = TRUE
    BY <1>0, ObjectType, FieldUpdates
  <2>2. WellFormed(obj) /\ Claimed(obj)
    BY <1>1, <2>1 DEF WellFormed, Claimed
  <2>3. CASE Current.finalizer
    <3>1. SameMeta(obj, Current)
      BY <2>1, <2>3 DEF SameMeta, ClusterObject
    <3>. QED  BY <2>1, <2>2, <3>1, SameMetaFollows
  <2>4. CASE ~Current.finalizer
    <3>1. ~Claimed(Current)
      BY <2>4 DEF Claimed
    <3>2. local.exists /\ ~local.finalizer
      BY <1>1 DEF LocalInv
    <3>3. \A i, j \in DOMAIN log : i < j /\ log[i].deleting => Claimed(log[j])
      BY <3>2 DEF LocalInv
    <3>4. \A i \in DOMAIN log : i < Len(log) \/ i = Len(log)
      OBVIOUS
    <3>5. \A i \in DOMAIN log : ~log[i].deleting
      BY <1>0, <3>1, <3>3, <3>4 DEF WellFormed, Current
    <3>. QED  BY <2>1, <2>2, <3>3, <3>5 DEF Follows
  <2>. QED  BY <2>3, <2>4
<1>2. ASSUME pc = "UpdateStatus", fresh
      PROVE  /\ local \in ClusterObject /\ WellFormed(local)
             /\ Follows(local) /\ (Claimed(local) <=> Claimed(Current))
  <2>1. SameMeta(local, Current) /\ WellFormed(local)
    BY <1>2 DEF LocalInv
  <2>. QED
    BY <2>1, SameMetaFollows DEF SameMeta, Claimed, TypeOK
<1>3. ASSUME pc = "RemoveFinalizer", Current.exists
      PROVE  LET obj == WithoutFinalizer(Current) IN
             obj \in ClusterObject /\ WellFormed(obj) /\ Follows(obj)
  <2>1. local.deleting
    BY <1>3 DEF LocalInv, DeleteSteps
  <2>2. CASE Current.deleting
    <3>1. WithoutFinalizer(Current) = Gone
      BY <2>2 DEF WithoutFinalizer
    <3>2. Gone \in ClusterObject /\ WellFormed(Gone) /\ ~Claimed(Gone)
             /\ ~Live(Gone)
      BY ConstType DEF WellFormed, Claimed, Live, Gone
    <3>. QED  BY <2>1, <3>1, <3>2 DEF Follows, LocalInv
  <2>3. CASE ~Current.deleting
    <3>. DEFINE obj == [Current EXCEPT !.finalizer = FALSE]
    <3>1. ~Current.finalizer
      BY <1>3, <2>1, <2>3 DEF LocalInv, Live, Claimed, Current
    <3>0. Current.finalizer = FALSE
      BY <1>0, <3>1 DEF ClusterObject
    <3>4. obj \in ClusterObject
      BY <1>0, ObjectType
    <3>5. obj.exists = Current.exists /\ obj.deleting = Current.deleting
      BY <1>0, FieldUpdates
    <3>6. obj.finalizer = FALSE
      BY <1>0 DEF ClusterObject
    <3>2. obj \in ClusterObject /\ WellFormed(obj) /\ SameMeta(obj, Current)
      BY <1>3, <2>3, <3>0, <3>4, <3>5, <3>6 DEF WellFormed, SameMeta
    <3>3. WithoutFinalizer(Current) = obj
      BY <2>3 DEF WithoutFinalizer
    <3>. QED  BY <3>2, <3>3, SameMetaFollows
  <2>. QED  BY <2>2, <2>3
<1>. QED  BY <1>1, <1>2, <1>3

\* What a user writes.
LEMMA UserFollows ==
    ASSUME IndInv, User
    PROVE  \E obj \in ClusterObject :
              /\ Edit(obj) /\ WellFormed(obj)
              /\ Follows(obj) /\ LocalFollows(obj)
              /\ Claimed(Current) => Claimed(obj)
<1>. USE EndsType DEF IndInv
<1>0. WellFormed(Current) /\ Current \in ClusterObject
  BY DEF LogInv, Current
<1>1. ASSUME NEW ann \in UserAnns, NEW ovr \in Overrides,
             UserCreates(ann, ovr)
      PROVE  \E obj \in ClusterObject :
              /\ Edit(obj) /\ WellFormed(obj)
              /\ Follows(obj) /\ LocalFollows(obj)
              /\ Claimed(Current) => Claimed(obj)
  <2>. DEFINE obj ==
         [Gone EXCEPT !.exists = TRUE, !.ann = ann, !.override = ovr]
  <2>1. obj \in ClusterObject
    BY ObjectType, ConstType, ConstantsAssumption
  <2>2. obj.exists /\ ~obj.deleting /\ ~obj.finalizer
    BY DEF Gone
  <2>3. WellFormed(obj) /\ ~Claimed(obj) /\ ~Claimed(Current)
    BY <1>1, <2>2 DEF WellFormed, Claimed, UserCreates
  <2>4. Edit(obj)
    BY <1>1 DEF UserCreates
  <2>. QED  BY <2>1, <2>3, <2>4, UnclaimedFollows
<1>2. ASSUME NEW ann \in UserAnns, UserAnnotates(ann)
      PROVE  \E obj \in ClusterObject :
              /\ Edit(obj) /\ WellFormed(obj)
              /\ Follows(obj) /\ LocalFollows(obj)
              /\ Claimed(Current) => Claimed(obj)
  <2>. DEFINE obj == [Current EXCEPT !.ann = ann]
  <2>1. obj \in ClusterObject /\ SameMeta(obj, Current)
    <3>1. ann \in Anns
      BY ConstType
    <3>. QED  BY <1>0, <3>1, AnnotatedType
  <2>2. WellFormed(obj)
    BY <1>0, <1>2, <2>1 DEF WellFormed, SameMeta, Claimed, UserAnnotates
  <2>3. Edit(obj)
    BY <1>2 DEF UserAnnotates
  <2>. QED
    BY <2>1, <2>2, <2>3, SameMetaFollows DEF SameMeta, Claimed
<1>3. ASSUME UserDeletes
      PROVE  \E obj \in ClusterObject :
              /\ Edit(obj) /\ WellFormed(obj)
              /\ Follows(obj) /\ LocalFollows(obj)
              /\ Claimed(Current) => Claimed(obj)
  <2>1. CASE Current.finalizer
    <3>. DEFINE obj == [Current EXCEPT !.deleting = TRUE]
    <3>1. obj \in ClusterObject /\ obj.deleting
             /\ obj.exists = Current.exists
             /\ obj.finalizer = Current.finalizer
      BY <1>0, ObjectType, FieldUpdates
    <3>2. Claimed(obj) /\ WellFormed(obj) /\ Live(Current)
      BY <1>3, <2>1, <3>1 DEF UserDeletes, Claimed, WellFormed, Live
    <3>3. Edit(obj)
      BY <1>3, <2>1 DEF UserDeletes
    <3>. QED  BY <3>1, <3>2, <3>3, DyingFollows
  <2>2. CASE ~Current.finalizer
    <3>1. WellFormed(Gone) /\ ~Claimed(Gone) /\ ~Claimed(Current)
      BY <2>2 DEF WellFormed, Claimed, Gone
    <3>2. Edit(Gone)
      BY <1>3, <2>2 DEF UserDeletes
    <3>. QED  BY <3>1, <3>2, ConstType, UnclaimedFollows
  <2>. QED  BY <2>1, <2>2
<1>. QED  BY <1>1, <1>2, <1>3 DEF User

\* The log invariant survives a delivery.
LEMMA DeliverLogInv ==
    ASSUME TypeOK, LogInv, Deliver
    PROVE  LogInv' /\ Current' = Current
<1>. USE EndsType
<1>1. /\ Len(log') = Len(log) - 1
      /\ DOMAIN log' = 1..(Len(log) - 1)
      /\ \A i \in DOMAIN log' :
            /\ i \in DOMAIN log /\ i + 1 \in DOMAIN log
            /\ log'[i] = log[i + 1]
      /\ 1 \in DOMAIN log'
  BY TailLog DEF Deliver, TypeOK
<1>2. \A i, j \in DOMAIN log' : i < j => i + 1 < j + 1
  BY <1>1
<1>3. \A i \in DOMAIN log' : WellFormed(log'[i])
  BY <1>1 DEF LogInv
<1>4. \A i, j \in DOMAIN log' : i < j /\ Live(log'[i]) => Claimed(log'[j])
  BY <1>1, <1>2 DEF LogInv
<1>5. \A i, j \in DOMAIN log' : i < j /\ log'[i].deleting => ~Live(log'[j])
  BY <1>1, <1>2 DEF LogInv
<1>6. \A i, j, k \in DOMAIN log' :
         i < j /\ j < k /\ log'[i].deleting /\ ~Claimed(log'[j])
            => ~Claimed(log'[k])
  BY <1>1, <1>2 DEF LogInv
<1>7. ASSUME ~log'[1].deleting, NEW i \in DOMAIN log', NEW j \in DOMAIN log',
             i < j, log'[i].deleting
      PROVE  Claimed(log'[j])
  <2>1. log'[1] = log[2] /\ 2 \in DOMAIN log /\ i + 1 \in DOMAIN log
           /\ log'[i] = log[i + 1] /\ j + 1 \in DOMAIN log
           /\ log'[j] = log[j + 1] /\ i + 1 < j + 1 /\ i # 1 /\ 2 < i + 1
    BY <1>1, <1>2, <1>7
  <2>2. CASE ~log[1].deleting
    BY <1>7, <2>1, <2>2 DEF LogInv
  <2>3. CASE log[1].deleting
    <3>1. ~Live(log[2]) /\ ~log[2].deleting
      BY <1>7, <2>1, <2>3 DEF LogInv
    <3>2. ~Claimed(log[2])
      BY <3>1 DEF Live
    <3>3. ~Claimed(log[i + 1])
      BY <2>1, <2>3, <3>2 DEF LogInv
    <3>. QED  BY <1>7, <2>1, <3>3 DEF LogInv, WellFormed
  <2>. QED  BY <2>2, <2>3
<1>8. Current' = Current
  BY <1>1 DEF Current
<1>. QED
  BY <1>3, <1>4, <1>5, <1>6, <1>7, <1>8 DEF LogInv, WellFormed, Claimed, Live

\* Every step keeps the order of the versions.
LEMMA LogInvNext ==
    ASSUME IndInv, [Next]_vars
    PROVE  LogInv'
<1>. USE EndsType DEF IndInv
<1>1. CASE UNCHANGED log
  BY <1>1 DEF LogInv
<1>2. CASE AddFinalizer
  <2>1. CASE UNCHANGED log
    BY <1>1, <2>1
  <2>2. CASE Current.exists /\ Write([Current EXCEPT !.finalizer = TRUE])
    BY <1>2, <2>2, WriterFollows, WriteLogInv DEF AddFinalizer
  <2>. QED  BY <1>2, <2>1, <2>2 DEF AddFinalizer
<1>3. CASE UpdateStatus
  <2>1. CASE UNCHANGED log
    BY <1>1, <2>1
  <2>2. CASE fresh /\ Write(local)
    BY <1>3, <2>2, WriterFollows, WriteLogInv DEF UpdateStatus
  <2>. QED  BY <1>3, <2>1, <2>2 DEF UpdateStatus
<1>4. CASE RemoveFinalizer
  <2>1. CASE UNCHANGED log
    BY <1>1, <2>1
  <2>2. CASE Current.exists /\ Write(WithoutFinalizer(Current))
    BY <1>4, <2>2, WriterFollows, WriteLogInv DEF RemoveFinalizer
  <2>. QED  BY <1>4, <2>1, <2>2 DEF RemoveFinalizer
<1>5. CASE User
  <2>1. PICK obj \in ClusterObject :
            Edit(obj) /\ WellFormed(obj) /\ Follows(obj)
    BY <1>5, UserFollows
  <2>. QED  BY <2>1, WriteLogInv DEF Edit
<1>6. CASE Deliver
  BY <1>6, DeliverLogInv
<1>7. CASE Crash
  <2>1. log' = <<Current>> /\ Current \in ClusterObject /\ WellFormed(Current)
    BY <1>7 DEF Crash, LogInv, Current
  <2>2. DOMAIN log' = {1} /\ log'[1] = Current
    BY <2>1, SingletonLog
  <2>3. \A i, j \in DOMAIN log' : ~(i < j)
    BY <2>2
  <2>. QED  BY <2>1, <2>2, <2>3 DEF LogInv
<1>8. CASE QuietStep
  BY <1>1, <1>8, QuietLog
<1>9. CASE TimerFires \/ Resync \/ ArgoDeletes \/ OthersDeleteApp
              \/ UNCHANGED vars
  BY <1>1, <1>9
     DEF TimerFires, Resync, ArgoDeletes, OthersDeleteApp, vars
<1>. QED
  BY <1>2, <1>3, <1>4, <1>5, <1>6, <1>7, <1>8, <1>9
     DEF Next, ControllerStep, CreateStep, DeleteStep, QuietStep

----------------------------------------------------------------------------
(* The copy in use *)

\* Between reconciles there is no copy.
LEMMA IdleLocal ==
    ASSUME pc' = "idle", local' = Gone, fresh' = FALSE
    PROVE  LocalInv'
BY DEF LocalInv, WellFormed, Claimed, Live, Gone, CreateSteps, DeleteSteps

\* Returning drops it.
LEMMA ReturnLocal ==
    ASSUME NEW b, Return(b)
    PROVE  LocalInv'
BY IdleLocal DEF Return

\* What a step may assume of the copy.
StepOK(step) ==
    /\ local.exists
    /\ step \in CreateSteps => Live(local)
    /\ step \in DeleteSteps => local.deleting
    /\ step = "AddFinalizer" => ~local.finalizer

\* Going on to such a step.
LEMMA GotoLocal ==
    ASSUME LocalInv, NEW step, StepOK(step), Goto(step)
    PROVE  LocalInv'
BY DEF LocalInv, Goto, StepOK, Current

\* Preparing a status change.
LEMMA UpdateStateLocal ==
    ASSUME LocalInv, pc # "idle", NEW obj \in ClusterObject,
           SameMeta(obj, local), NEW s, NEW m, NEW r, UpdateState(obj, s, m, r)
    PROVE  LocalInv'
<1>1. SameMeta(local', local)
  BY DEF UpdateState, SameMeta, ClusterObject
<1>2. local.exists /\ UNCHANGED <<log, fresh>> /\ pc' = "UpdateStatus"
  BY DEF UpdateState, LocalInv
<1>. QED
  BY <1>1, <1>2
     DEF LocalInv, SameMeta, WellFormed, Claimed, Live, Current,
         CreateSteps, DeleteSteps

\* The error paths.
LEMMA RetryLocal ==
    ASSUME TypeOK, LocalInv, pc # "idle", NEW s, Retry(s)
    PROVE  LocalInv'
<1>1. local \in ClusterObject /\ SameMeta(local, local)
  BY DEF TypeOK, SameMeta
<1>. QED  BY <1>1, UpdateStateLocal DEF Retry

\* Every step keeps what the copy in use says of the versions since.
LEMMA LocalInvNext ==
    ASSUME IndInv, [Next]_vars
    PROVE  LocalInv'
<1>. USE EndsType DEF IndInv
<1>0. local \in ClusterObject /\ SameMeta(local, local)
  BY DEF TypeOK, SameMeta
<1>1. CASE UNCHANGED <<log, pc, local, fresh>>
  BY <1>1 DEF LocalInv, Current
<1>2. CASE Reconcile
  <2>1. CASE UNCHANGED <<pc, local, fresh>>
    BY <1>1, <1>2, <2>1 DEF Reconcile
  <2>2. CASE /\ Cached.exists /\ pc' = "NewApplicationClient"
             /\ local' = Cached /\ fresh' = (Len(log) = 1)
    <3>1. log' = log /\ local' = log[1] /\ log[1].exists
      BY <1>2, <2>2 DEF Reconcile, Cached
    <3>2. WellFormed(log[1])
      BY DEF LogInv
    <3>3. \A i \in DOMAIN log : i = 1 \/ 1 < i
      OBVIOUS
    <3>4. fresh' => SameMeta(local', Current')
      BY <2>2, <3>1 DEF SameMeta, Current
    <3>5. Live(log[1]) => Claimed(Current)
      BY <3>3 DEF LogInv, Live, Current
    <3>6. log[1].deleting => \A i \in DOMAIN log : ~Live(log[i])
      BY <3>3 DEF LogInv, Live
    <3>7. log[1].exists /\ ~log[1].finalizer => ~log[1].deleting
      BY <3>2 DEF WellFormed, Claimed
    <3>. QED
      BY <2>2, <3>1, <3>2, <3>4, <3>5, <3>6, <3>7
         DEF LocalInv, LogInv, Current, CreateSteps, DeleteSteps
  <2>. QED  BY <1>2, <2>1, <2>2 DEF Reconcile
<1>3. CASE NewApplicationClient
  <2>1. local.exists
    BY <1>3 DEF NewApplicationClient, LocalInv
  <2>2. StepOK(FirstStep(local))
    BY <2>1 DEF StepOK, FirstStep, CreateSteps, DeleteSteps, Live, Claimed
  <2>. QED
    BY <1>3, <2>2, GotoLocal, RetryLocal DEF NewApplicationClient
<1>4. CASE ValidateGitDir
  <2>1. [local EXCEPT !.inner = TRUE] \in ClusterObject
    BY <1>0, ObjectType
  <2>2. SameMeta([local EXCEPT !.inner = TRUE], local)
    BY <1>0 DEF SameMeta, ClusterObject
  <2>. QED
    BY <1>4, <2>1, <2>2, UpdateStateLocal, RetryLocal DEF ValidateGitDir
<1>5. CASE CreatePatchDir
  <2>1. [local EXCEPT !.ovrOk = TRUE] \in ClusterObject
    BY <1>0, ObjectType
  <2>2. SameMeta([local EXCEPT !.ovrOk = TRUE], local)
    BY <1>0 DEF SameMeta, ClusterObject
  <2>. QED
    BY <1>5, <2>1, <2>2, UpdateStateLocal, RetryLocal DEF CreatePatchDir
<1>6. CASE DeleteOverridesDir
  <2>1. [local EXCEPT !.ovrOk = FALSE] \in ClusterObject
    BY <1>0, ObjectType
  <2>2. SameMeta([local EXCEPT !.ovrOk = FALSE], local)
    BY <1>0 DEF SameMeta, ClusterObject
  <2>. QED
    BY <1>6, <2>1, <2>2, UpdateStateLocal, RetryLocal DEF DeleteOverridesDir
<1>7. CASE GetArlonApp
  <2>1. StepOK("CreateArlonApp") /\ StepOK("GetClusterApp")
    BY <1>7 DEF GetArlonApp, StepOK, LocalInv, CreateSteps, DeleteSteps
  <2>. QED
    BY <1>0, <1>7, RetryLocal, UpdateStateLocal, <2>1, GotoLocal
       DEF GetArlonApp
<1>8. CASE CreateArlonApp
  <2>1. StepOK("GetClusterApp")
    BY <1>8 DEF CreateArlonApp, StepOK, LocalInv, CreateSteps, DeleteSteps
  <2>. QED
    BY <1>0, <1>8, RetryLocal, UpdateStateLocal, <2>1, GotoLocal
       DEF CreateArlonApp
<1>9. CASE GetClusterApp
  <2>1. StepOK("CreateClusterApp") /\ StepOK("UpdateClusterApp")
    BY <1>9 DEF GetClusterApp, StepOK, LocalInv, CreateSteps, DeleteSteps
  <2>. QED
    BY <1>0, <1>9, RetryLocal, UpdateStateLocal, ReturnLocal, <2>1, GotoLocal
       DEF GetClusterApp
<1>10. CASE CreateClusterApp
  BY <1>0, <1>10, RetryLocal, UpdateStateLocal DEF CreateClusterApp
<1>11. CASE UpdateClusterApp
  BY <1>0, <1>11, RetryLocal, UpdateStateLocal, ReturnLocal DEF UpdateClusterApp
<1>12. CASE GetClusterAppDel
  <2>1. StepOK("DeleteClusterApp") /\ StepOK("GetArlonAppDel")
    BY <1>12 DEF GetClusterAppDel, StepOK, LocalInv, CreateSteps, DeleteSteps
  <2>. QED
    BY <1>0, <1>12, RetryLocal, UpdateStateLocal, ReturnLocal, <2>1, GotoLocal
       DEF GetClusterAppDel
<1>13. CASE DeleteClusterApp
  BY <1>0, <1>13, RetryLocal, UpdateStateLocal DEF DeleteClusterApp
<1>14. CASE GetArlonAppDel
  <2>1. StepOK("DeleteArlonApp") /\ StepOK("RemoveFinalizer")
    BY <1>14 DEF GetArlonAppDel, StepOK, LocalInv, CreateSteps, DeleteSteps
  <2>. QED
    BY <1>0, <1>14, RetryLocal, UpdateStateLocal, ReturnLocal, <2>1, GotoLocal
       DEF GetArlonAppDel
<1>15. CASE DeleteArlonApp
  BY <1>0, <1>15, RetryLocal, UpdateStateLocal DEF DeleteArlonApp
<1>16. CASE AddFinalizer \/ UpdateStatus \/ RemoveFinalizer
  BY <1>16, ReturnLocal DEF AddFinalizer, UpdateStatus, RemoveFinalizer
<1>17. CASE Crash
  BY <1>17, IdleLocal DEF Crash
<1>18. CASE Deliver
  <2>1. UNCHANGED <<pc, local, fresh>> /\ Current' = Current
    BY <1>18, DeliverLogInv DEF Deliver
  <2>2. /\ DOMAIN log' = 1..(Len(log) - 1)
        /\ \A i \in DOMAIN log' :
              i + 1 \in DOMAIN log /\ log'[i] = log[i + 1]
        /\ 1 \in DOMAIN log'
    BY <1>18, TailLog DEF Deliver, TypeOK
  <2>3. \A i, j \in DOMAIN log' : i < j => i + 1 < j + 1
    BY <2>2
  <2>4. local.deleting => \A i \in DOMAIN log' : ~Live(log'[i])
    BY <2>2 DEF LocalInv
  <2>5. local.exists /\ ~local.finalizer =>
          \A i, j \in DOMAIN log' :
              i < j /\ log'[i].deleting => Claimed(log'[j])
    BY <2>2, <2>3 DEF LocalInv
  <2>6. ASSUME local.deleting, ~log'[1].deleting, NEW i \in DOMAIN log'
        PROVE  ~log'[i].deleting
    <3>1. log'[1] = log[2] /\ 2 \in DOMAIN log /\ i + 1 \in DOMAIN log
             /\ log'[i] = log[i + 1] /\ (i = 1 \/ 2 < i + 1)
      BY <2>2
    <3>2. CASE ~log[1].deleting
      BY <2>6, <3>1, <3>2 DEF LocalInv
    <3>3. CASE log[1].deleting
      <4>1. ~Live(log[2]) /\ ~log[2].deleting
        BY <2>6, <3>1, <3>3 DEF LogInv
      <4>2. ~Claimed(log[2])
        BY <4>1 DEF Live
      <4>3. i # 1 => ~Claimed(log[i + 1])
        BY <3>1, <3>3, <4>2 DEF LogInv
      <4>. QED  BY <3>1, <4>1, <4>3 DEF LogInv, WellFormed
    <3>. QED  BY <3>2, <3>3
  <2>. QED  BY <2>1, <2>4, <2>5, <2>6 DEF LocalInv, Live, Claimed
<1>19. CASE User
  <2>1. PICK obj \in ClusterObject :
            Edit(obj) /\ WellFormed(obj) /\ Follows(obj) /\ LocalFollows(obj)
    BY <1>19, UserFollows
  <2>2. Current' = obj /\ UNCHANGED <<pc, local>>
    BY <2>1, WriteLogInv DEF Edit
  <2>3. CASE obj = Current
    BY <1>1, <2>1, <2>3 DEF Edit, Write, KeepsFresh, TypeOK
  <2>4. CASE obj # Current
    <3>0. log' = Append(log, obj)
      BY <2>1, <2>4 DEF Edit, Write
    <3>1. /\ \A i \in DOMAIN log : log'[i] = log[i]
          /\ log'[1] = log[1]
          /\ \A i \in DOMAIN log' : i \in DOMAIN log \/ log'[i] = obj
          /\ \A i, j \in DOMAIN log' : i < j => i \in DOMAIN log
          /\ log' # log
      BY <3>0, AppendShape
    <3>4. ~fresh'
      BY <2>1, <3>1 DEF Edit, KeepsFresh
    <3>5. local.deleting => \A i \in DOMAIN log' : ~Live(log'[i])
      BY <2>1, <3>1 DEF LocalInv, LocalFollows
    <3>6. local.deleting /\ ~log'[1].deleting =>
             \A i \in DOMAIN log' : ~log'[i].deleting
      BY <2>1, <3>1 DEF LocalInv, LocalFollows
    <3>7. local.exists /\ ~local.finalizer =>
             \A i, j \in DOMAIN log' :
                i < j /\ log'[i].deleting => Claimed(log'[j])
      BY <2>1, <3>1 DEF LocalInv, LocalFollows
    <3>. QED
      BY <2>1, <2>2, <3>4, <3>5, <3>6, <3>7
         DEF LocalInv, LocalFollows, Live, Claimed
  <2>. QED  BY <2>3, <2>4
<1>20. CASE TimerFires \/ Resync \/ ArgoDeletes \/ OthersDeleteApp
              \/ UNCHANGED vars
  BY <1>1, <1>20
     DEF TimerFires, Resync, ArgoDeletes, OthersDeleteApp, ctlVars, vars
<1>. QED
  BY <1>2, <1>3, <1>4, <1>5, <1>6, <1>7, <1>8, <1>9, <1>10, <1>11, <1>12,
     <1>13, <1>14, <1>15, <1>16, <1>17, <1>18, <1>19, <1>20
     DEF Next, ControllerStep, CreateStep, DeleteStep

----------------------------------------------------------------------------
(* The applications *)

\* A step that writes nothing and creates no application, or does so on
\* behalf of a live copy, leaves none behind.
LEMMA QuietApps ==
    ASSUME NoOrphanApps, UNCHANGED log,
           \/ Claimed(Current)
           \/ /\ arlonApp' # "absent" => arlonApp # "absent"
              /\ clusterApp'.phase # "absent" => clusterApp.phase # "absent"
    PROVE  NoOrphanApps'
BY DEF NoOrphanApps, Claimed, Current

\* Every step keeps the invariant of the applications.
LEMMA AppsInvNext ==
    ASSUME IndInv, [Next]_vars
    PROVE  AppsInv'
<1>. USE EndsType DEF IndInv
<1>0. pc \in CreateSteps => Claimed(Current)
  BY DEF LocalInv
<1>1. CASE UNCHANGED <<log, pc, arlonApp, clusterApp>>
  BY <1>1 DEF AppsInv, NoOrphanApps, Current
<1>2. CASE CreatePatchDir
  <2>1. UNCHANGED log /\ Claimed(Current)
    BY <1>0, <1>2, QuietLog DEF QuietStep, CreatePatchDir, CreateSteps
  <2>2. pc' \in {"idle", "UpdateStatus", "GetClusterApp"}
    BY <1>2 DEF CreatePatchDir, Goto, Retry, UpdateState, Return
  <2>. QED  BY <2>1, <2>2, QuietApps DEF AppsInv
<1>3. CASE CreateArlonApp
  <2>1. UNCHANGED log /\ Claimed(Current)
    BY <1>0, <1>3, QuietLog DEF QuietStep, CreateArlonApp, CreateSteps
  <2>2. pc' \in {"idle", "UpdateStatus", "GetClusterApp"}
    BY <1>3 DEF CreateArlonApp, Goto, Retry, UpdateState, Return
  <2>. QED  BY <2>1, <2>2, QuietApps DEF AppsInv
<1>4. CASE CreateClusterApp
  <2>1. UNCHANGED log /\ Claimed(Current)
    BY <1>0, <1>4, QuietLog DEF QuietStep, CreateClusterApp, CreateSteps
  <2>2. pc' \in {"idle", "UpdateStatus", "GetClusterApp"}
    BY <1>4 DEF CreateClusterApp, Goto, Retry, UpdateState, Return
  <2>. QED  BY <2>1, <2>2, QuietApps DEF AppsInv
<1>5. CASE UpdateClusterApp
  <2>1. UNCHANGED log /\ Claimed(Current)
    BY <1>0, <1>5, QuietLog DEF QuietStep, UpdateClusterApp, CreateSteps
  <2>2. pc' \in {"idle", "UpdateStatus", "GetClusterApp"}
    BY <1>5 DEF UpdateClusterApp, Goto, Retry, UpdateState, Return
  <2>. QED  BY <2>1, <2>2, QuietApps DEF AppsInv
<1>6. CASE Reconcile
  <2>1. UNCHANGED <<log, arlonApp, clusterApp>>
    BY <1>6, QuietLog DEF QuietStep, Reconcile, external
  <2>2. pc' \notin {"GetArlonAppDel", "DeleteArlonApp", "RemoveFinalizer"}
    BY <1>6 DEF Reconcile, Goto, Retry, UpdateState, Return
  <2>. QED  BY <2>1, <2>2, QuietApps DEF AppsInv
<1>7. CASE NewApplicationClient
  <2>1. UNCHANGED <<log, arlonApp, clusterApp>>
    BY <1>7, QuietLog DEF QuietStep, NewApplicationClient, external
  <2>2. pc' \notin {"GetArlonAppDel", "DeleteArlonApp", "RemoveFinalizer"}
    BY <1>7 DEF NewApplicationClient, FirstStep, Goto, Retry, UpdateState, Return
  <2>. QED  BY <2>1, <2>2, QuietApps DEF AppsInv
<1>8. CASE ValidateGitDir
  <2>1. UNCHANGED <<log, arlonApp, clusterApp>>
    BY <1>8, QuietLog DEF QuietStep, ValidateGitDir, external
  <2>2. pc' \notin {"GetArlonAppDel", "DeleteArlonApp", "RemoveFinalizer"}
    BY <1>8 DEF ValidateGitDir, Goto, Retry, UpdateState, Return
  <2>. QED  BY <2>1, <2>2, QuietApps DEF AppsInv
<1>9. CASE GetArlonApp
  <2>1. UNCHANGED <<log, arlonApp, clusterApp>>
    BY <1>9, QuietLog DEF QuietStep, GetArlonApp, external
  <2>2. pc' \notin {"GetArlonAppDel", "DeleteArlonApp", "RemoveFinalizer"}
    BY <1>9 DEF GetArlonApp, Goto, Retry, UpdateState, Return
  <2>. QED  BY <2>1, <2>2, QuietApps DEF AppsInv
<1>10. CASE GetClusterApp
  <2>1. UNCHANGED <<log, arlonApp, clusterApp>>
    BY <1>10, QuietLog DEF QuietStep, GetClusterApp, external
  <2>2. pc' \notin {"GetArlonAppDel", "DeleteArlonApp", "RemoveFinalizer"}
    BY <1>10 DEF GetClusterApp, Goto, Retry, UpdateState, Return
  <2>. QED  BY <2>1, <2>2, QuietApps DEF AppsInv
<1>11. CASE GetClusterAppDel
  <2>1. UNCHANGED <<log, arlonApp, clusterApp>>
    BY <1>11, QuietLog DEF QuietStep, GetClusterAppDel, external
  <2>2. NoOrphanApps'
    BY <2>1, QuietApps DEF AppsInv
  <2>. QED
    BY <1>11, <2>1, <2>2
       DEF AppsInv, GetClusterAppDel, Goto, Retry, UpdateState, Return
<1>12. CASE DeleteOverridesDir
  <2>1. UNCHANGED <<log, arlonApp, clusterApp>>
    BY <1>12, QuietLog DEF QuietStep, DeleteOverridesDir
  <2>2. pc' \notin {"GetArlonAppDel", "DeleteArlonApp", "RemoveFinalizer"}
    BY <1>12 DEF DeleteOverridesDir, Goto, Retry, UpdateState, Return
  <2>. QED  BY <2>1, <2>2, QuietApps DEF AppsInv
<1>13. CASE GetArlonAppDel
  <2>1. UNCHANGED <<log, arlonApp, clusterApp>>
    BY <1>13, QuietLog DEF QuietStep, GetArlonAppDel, external
  <2>2. NoOrphanApps'
    BY <2>1, QuietApps DEF AppsInv
  <2>. QED
    BY <1>13, <2>1, <2>2
       DEF AppsInv, GetArlonAppDel, Goto, Retry, UpdateState, Return
<1>14. CASE DeleteClusterApp
  <2>1. UNCHANGED log
    BY <1>14, QuietLog DEF QuietStep
  <2>2. /\ arlonApp' # "absent" => arlonApp # "absent"
        /\ clusterApp'.phase # "absent" => clusterApp.phase # "absent"
    BY <1>14 DEF DeleteClusterApp
  <2>3. pc' = "UpdateStatus"
    BY <1>14 DEF DeleteClusterApp, Retry, UpdateState
  <2>. QED  BY <2>1, <2>2, <2>3, QuietApps DEF AppsInv
<1>15. CASE DeleteArlonApp
  <2>1. UNCHANGED log
    BY <1>15, QuietLog DEF QuietStep
  <2>2. /\ arlonApp' # "absent" => arlonApp # "absent"
        /\ clusterApp'.phase # "absent" => clusterApp.phase # "absent"
    BY <1>15 DEF DeleteArlonApp
  <2>3. pc' = "UpdateStatus"
    BY <1>15 DEF DeleteArlonApp, Retry, UpdateState
  <2>. QED  BY <2>1, <2>2, <2>3, QuietApps DEF AppsInv
<1>16. CASE AddFinalizer
  <2>1. pc' = "idle" /\ UNCHANGED <<arlonApp, clusterApp>>
    BY <1>16 DEF AddFinalizer, Return, external
  <2>2. CASE UNCHANGED log
    BY <2>1, <2>2, QuietApps DEF AppsInv
  <2>3. CASE Current.exists /\ Write([Current EXCEPT !.finalizer = TRUE])
    <3>1. Claimed(Current) => Claimed(Current')
      BY <1>16, <2>3, WriterFollows, WriteLogInv DEF AddFinalizer
    <3>. QED  BY <2>1, <3>1 DEF AppsInv, NoOrphanApps, Claimed
  <2>. QED  BY <1>16, <2>2, <2>3 DEF AddFinalizer
<1>17. CASE UpdateStatus
  <2>1. pc' = "idle" /\ UNCHANGED <<arlonApp, clusterApp>>
    BY <1>17 DEF UpdateStatus, Return, external
  <2>2. CASE UNCHANGED log
    BY <2>1, <2>2, QuietApps DEF AppsInv
  <2>3. CASE fresh /\ Write(local)
    <3>1. Claimed(Current) => Claimed(Current')
      BY <1>17, <2>3, WriterFollows, WriteLogInv DEF UpdateStatus
    <3>. QED  BY <2>1, <3>1 DEF AppsInv, NoOrphanApps, Claimed
  <2>. QED  BY <1>17, <2>2, <2>3 DEF UpdateStatus
<1>18. CASE RemoveFinalizer
  <2>1. pc' = "idle" /\ UNCHANGED <<arlonApp, clusterApp>>
    BY <1>18 DEF RemoveFinalizer, Return, external
  <2>2. arlonApp = "absent" /\ clusterApp.phase = "absent"
    BY <1>18 DEF RemoveFinalizer, AppsInv
  <2>. QED  BY <2>1, <2>2 DEF AppsInv, NoOrphanApps
<1>19. CASE User
  <2>1. PICK obj \in ClusterObject :
            /\ Edit(obj) /\ WellFormed(obj) /\ Follows(obj)
            /\ Claimed(Current) => Claimed(obj)
    BY <1>19, UserFollows
  <2>2. Current' = obj /\ UNCHANGED <<pc, arlonApp, clusterApp>>
    BY <2>1, WriteLogInv DEF Edit, external
  <2>. QED  BY <2>1, <2>2 DEF AppsInv, NoOrphanApps, Claimed
<1>20. CASE Deliver
  <2>1. Current' = Current /\ UNCHANGED <<pc, arlonApp, clusterApp>>
    BY <1>20, DeliverLogInv DEF Deliver, external
  <2>. QED  BY <2>1 DEF AppsInv, NoOrphanApps
<1>21. CASE Crash
  <2>1. pc' = "idle" /\ log' = <<Current>> /\ UNCHANGED <<arlonApp, clusterApp>>
    BY <1>21 DEF Crash, external
  <2>2. Current' = Current
    BY <2>1, SingletonLog DEF Current
  <2>. QED  BY <2>1, <2>2 DEF AppsInv, NoOrphanApps
<1>22. CASE ArgoDeletes \/ OthersDeleteApp
  <2>1. UNCHANGED <<log, pc>>
    BY <1>22 DEF ArgoDeletes, OthersDeleteApp, ctlVars
  <2>2. /\ arlonApp' # "absent" => arlonApp # "absent"
        /\ clusterApp'.phase # "absent" => clusterApp.phase # "absent"
    BY <1>22 DEF ArgoDeletes, OthersDeleteApp, NoClusterApp
  <2>3. NoOrphanApps'
    BY <2>1, <2>2, QuietApps DEF AppsInv
  <2>. QED
    BY <1>22, <2>1, <2>3
       DEF AppsInv, ArgoDeletes, OthersDeleteApp, NoClusterApp
<1>23. CASE TimerFires \/ Resync \/ UNCHANGED vars
  BY <1>1, <1>23 DEF TimerFires, Resync, external, vars
<1>. QED
  BY <1>2, <1>3, <1>4, <1>5, <1>6, <1>7, <1>8, <1>9, <1>10, <1>11, <1>12,
     <1>13, <1>14, <1>15, <1>16, <1>17, <1>18, <1>19, <1>20, <1>21,
     <1>22, <1>23
     DEF Next, ControllerStep, CreateStep, DeleteStep

----------------------------------------------------------------------------
(* The theorems *)

\* The inductive invariant holds in every behaviour.
THEOREM Invariance == Spec => []IndInv
<1>1. Init => IndInv
  <2>. SUFFICES ASSUME Init PROVE IndInv
    OBVIOUS
  <2>1. TypeOK
    BY TypeInit
  <2>2. DOMAIN log = {1} /\ log[1] = Gone /\ Len(log) = 1
    BY SingletonLog, ConstType DEF Init
  <2>3. WellFormed(Gone) /\ ~Claimed(Gone) /\ ~Gone.deleting /\ ~Gone.exists
    BY DEF WellFormed, Claimed, Gone
  <2>4. LogInv
    BY <2>2, <2>3 DEF LogInv, Live
  <2>5. LocalInv
    BY <2>2, <2>3
       DEF Init, LocalInv, Live, Claimed, CreateSteps, DeleteSteps
  <2>6. AppsInv
    BY DEF Init, AppsInv, NoOrphanApps, NoClusterApp
  <2>. QED  BY <2>1, <2>4, <2>5, <2>6 DEF IndInv
<1>2. IndInv /\ [Next]_vars => IndInv'
  BY TypeNext, LogInvNext, LocalInvNext, AppsInvNext DEF IndInv
<1>. QED  BY <1>1, <1>2, PTL DEF Spec

\* No application outlives its Cluster, whatever the number of crashes,
\* failed calls and concurrent edits and however far the cache lags.
THEOREM NoOrphans == Spec => []NoOrphanApps
<1>1. IndInv => NoOrphanApps
  BY DEF IndInv, AppsInv
<1>. QED  BY <1>1, Invariance, PTL

\* Only DeleteArlonApp and DeleteClusterApp delete an application.
LEMMA Deleters ==
    ASSUME TypeOK, Next, removals' = removals
    PROVE  /\ arlonApp = "present" /\ arlonApp' # "present" => DeleteArlonApp
           /\ clusterApp.phase = "present" /\ clusterApp'.phase # "present" =>
                DeleteClusterApp
<1>1. CASE DeleteArlonApp
  BY <1>1 DEF DeleteArlonApp
<1>2. CASE DeleteClusterApp
  BY <1>2 DEF DeleteClusterApp
<1>3. CASE CreateArlonApp \/ CreateClusterApp \/ UpdateClusterApp
  <2>1. Synced(clusterApp).phase = clusterApp.phase
    BY DEF Synced, TypeOK, ClusterApp
  <2>2. NewClusterApp.phase = "present"
    BY DEF NewClusterApp
  <2>. QED
    BY <1>3, <2>1, <2>2
       DEF CreateArlonApp, CreateClusterApp, UpdateClusterApp
<1>4. CASE OthersDeleteApp
  <2>1. removals \in Nat /\ removals' = removals + 1
    BY <1>4, ConstantsAssumption DEF OthersDeleteApp, TypeOK
  <2>. QED  BY <2>1
<1>5. CASE ArgoDeletes
  BY <1>5 DEF ArgoDeletes
<1>6. CASE User
  BY <1>6 DEF User, UserCreates, UserAnnotates, UserDeletes, Edit, external
<1>7. CASE \/ Reconcile \/ NewApplicationClient \/ AddFinalizer
           \/ ValidateGitDir \/ CreatePatchDir \/ GetArlonApp
           \/ GetClusterApp \/ UpdateStatus \/ GetClusterAppDel
           \/ DeleteOverridesDir \/ GetArlonAppDel \/ RemoveFinalizer
           \/ Deliver \/ TimerFires \/ Resync \/ Crash
  <2>1. UNCHANGED <<arlonApp, clusterApp>>
    BY <1>7
       DEF Reconcile, NewApplicationClient, AddFinalizer, ValidateGitDir,
           CreatePatchDir, GetArlonApp, GetClusterApp, UpdateStatus,
           GetClusterAppDel, DeleteOverridesDir, GetArlonAppDel,
           RemoveFinalizer, Deliver, TimerFires, Resync, Crash, external
  <2>. QED  BY <2>1
<1>. QED
  BY <1>1, <1>2, <1>3, <1>4, <1>5, <1>6, <1>7
     DEF Next, ControllerStep, CreateStep, DeleteStep

\* The arlon app is deleted only after the cluster app has disappeared.
THEOREM OrderedTeardown == Spec => TeardownOrder
<1>1. IndInv /\ [Next]_vars =>
         [removals' = removals /\ arlonApp = "present" /\ arlonApp' # "present"
             => clusterApp.phase = "absent"]_vars
  BY Deleters DEF IndInv, AppsInv, DeleteArlonApp
<1>. QED  BY <1>1, Invariance, PTL DEF Spec, TeardownOrder

\* The controller deletes applications only of a Cluster being deleted.
THEOREM DeletionOnRequest == Spec => DeletesOnRequest
<1>1. ASSUME IndInv, pc \in DeleteSteps,
             arlonApp # "absent" \/ clusterApp.phase # "absent"
      PROVE  Current.deleting
  <2>1. Claimed(Current)
    BY <1>1 DEF IndInv, AppsInv, NoOrphanApps, Claimed
  <2>2. ~Live(Current)
    BY <1>1, EndsType DEF IndInv, LocalInv, Current
  <2>. QED  BY <2>1, <2>2 DEF Live
<1>2. IndInv /\ [Next]_vars =>
         [removals' = removals =>
            /\ arlonApp = "present" /\ arlonApp' # "present"
                  => Current.deleting
            /\ clusterApp.phase = "present" /\ clusterApp'.phase # "present"
                  => Current.deleting]_vars
  BY <1>1, Deleters DEF IndInv, DeleteArlonApp, DeleteClusterApp, DeleteSteps
<1>. QED  BY <1>2, Invariance, PTL DEF Spec, DeletesOnRequest

\* Both together: the teardown that the users of the controller rely on.
THEOREM TeardownIsSafe == Spec => SafeTeardown
BY OrderedTeardown, DeletionOnRequest, PTL DEF SafeTeardown

----------------------------------------------------------------------------
(* What the statuses say: DeployInv *)

\* The world in which a version is backed, after a step.
BackedNext(obj) ==
    BackedBy(obj, arlonApp', clusterApp'.phase, dir', removals')

\* obj may be written over the current version.
Succeeds(obj) ==
    /\ Backed(obj)
    /\ Claimed(Current) /\ Claimed(obj) => obj.override = Current.override
    /\ Claimed(Current) /\ Live(obj) => Live(Current)

\* After a write the object written is current, and every version before was
\* there before.
LEMMA WriteShape ==
    ASSUME TypeOK, NEW obj \in ClusterObject, Write(obj)
    PROVE  /\ Current' = obj
           /\ \A i \in DOMAIN log' :
                 (i \in DOMAIN log /\ log'[i] = log[i]) \/ log'[i] = obj
           /\ \A i, j \in DOMAIN log' :
                 i < j => i \in DOMAIN log /\ log'[i] = log[i]
<1>1. CASE obj = Current
  BY <1>1, EndsType DEF Write, Current
<1>2. CASE obj # Current
  BY <1>2, AppendShape DEF Write, Current
<1>. QED  BY <1>1, <1>2

\* As long as a version of the log is live, the current one has the finalizer.
LEMMA LiveClaims ==
    ASSUME IndInv
    PROVE  \A i \in DOMAIN log : Live(log[i]) => Claimed(Current)
<1>1. \A i \in DOMAIN log : i < Len(log) \/ i = Len(log)
  BY EndsType DEF IndInv
<1>. QED  BY <1>1, EndsType DEF IndInv, LogInv, Current, Live

\* A copy that reconcileDelete works on leaves no live version.
LEMMA DeleteSeesNoLive ==
    ASSUME IndInv, pc \in DeleteSteps
    PROVE  /\ local.deleting
           /\ ~Live(local)
           /\ \A i \in DOMAIN log : ~Live(log[i])
           /\ ~Live(Current)
BY EndsType DEF IndInv, LocalInv, Live, Current

\* What the three writing steps of the controller write may follow.
LEMMA WriterSucceeds ==
    ASSUME IndInv, DeployInv
    PROVE  /\ pc = "AddFinalizer" /\ Current.exists =>
                Succeeds([Current EXCEPT !.finalizer = TRUE])
           /\ pc = "UpdateStatus" /\ fresh => Succeeds(local)
           /\ pc = "RemoveFinalizer" /\ Current.exists =>
                Succeeds(WithoutFinalizer(Current))
<1>. USE EndsType DEF IndInv
<1>0. WellFormed(Current) /\ Current \in ClusterObject /\ Backed(Current)
  BY DEF LogInv, DeployInv, Current
<1>1. ASSUME pc = "AddFinalizer", Current.exists
      PROVE  Succeeds([Current EXCEPT !.finalizer = TRUE])
  <2>. DEFINE obj == [Current EXCEPT !.finalizer = TRUE]
  <2>1. /\ obj.exists = Current.exists /\ obj.deleting = Current.deleting
        /\ obj.finalizer = TRUE /\ obj.override = Current.override
        /\ obj.state = Current.state /\ obj.ovrOk = Current.ovrOk
    BY <1>0 DEF ClusterObject
  <2>2. CASE Current.finalizer
    BY <1>0, <1>1, <2>1, <2>2
       DEF Succeeds, Backed, BackedBy, Claimed, Live
  <2>3. CASE ~Current.finalizer
    <3>1. ~Claimed(Current) /\ Current.state # "created" /\ ~Current.ovrOk
      BY <1>0, <2>3 DEF Backed, BackedBy, Claimed
    <3>2. arlonApp = "absent" /\ clusterApp.phase = "absent"
      BY <2>3 DEF AppsInv, NoOrphanApps
    <3>. QED
      BY <1>1, <2>1, <3>1, <3>2 DEF Succeeds, Backed, BackedBy, Claimed, Live
  <2>. QED  BY <2>2, <2>3
<1>2. ASSUME pc = "UpdateStatus", fresh
      PROVE  Succeeds(local)
  BY <1>2 DEF LocalInv, DeployInv, SameOverride, Succeeds, SameMeta, Claimed,
              Live
<1>3. ASSUME pc = "RemoveFinalizer", Current.exists
      PROVE  Succeeds(WithoutFinalizer(Current))
  <2>1. local.deleting /\ ~Live(Current)
    BY <1>3, DeleteSeesNoLive DEF DeleteSteps
  <2>2. CASE Current.deleting
    <3>1. WithoutFinalizer(Current) = Gone
      BY <2>2 DEF WithoutFinalizer
    <3>2. Succeeds(Gone)
      BY DEF Succeeds, Backed, BackedBy, Claimed, Live, Gone
    <3>. QED  BY <3>1, <3>2
  <2>3. CASE ~Current.deleting
    <3>. DEFINE obj == [Current EXCEPT !.finalizer = FALSE]
    <3>1. ~Claimed(Current) /\ Current.state # "created" /\ ~Current.ovrOk
      BY <1>0, <2>1, <2>3 DEF Live, Backed, BackedBy
    <3>2. ~obj.finalizer /\ obj.state = Current.state
             /\ obj.ovrOk = Current.ovrOk
      BY <1>0 DEF ClusterObject
    <3>3. Succeeds(obj)
      BY <3>1, <3>2 DEF Succeeds, Backed, BackedBy, Claimed, Live
    <3>. QED  BY <2>3, <3>3 DEF WithoutFinalizer
  <2>. QED  BY <2>2, <2>3
<1>. QED  BY <1>1, <1>2, <1>3

\* And so may what users write.
LEMMA UserSucceeds ==
    ASSUME IndInv, DeployInv, User
    PROVE  \E obj \in ClusterObject : Edit(obj) /\ Succeeds(obj)
<1>. USE EndsType DEF IndInv
<1>0. WellFormed(Current) /\ Current \in ClusterObject /\ Backed(Current)
  BY DEF LogInv, DeployInv, Current
<1>1. ASSUME NEW ann \in UserAnns, NEW ovr \in Overrides,
             UserCreates(ann, ovr)
      PROVE  \E obj \in ClusterObject : Edit(obj) /\ Succeeds(obj)
  <2>. DEFINE obj ==
         [Gone EXCEPT !.exists = TRUE, !.ann = ann, !.override = ovr]
  <2>1. obj \in ClusterObject
    BY ObjectType, ConstType, ConstantsAssumption
  <2>2. /\ ~obj.finalizer /\ obj.state # "created" /\ ~obj.ovrOk
    BY DEF Gone
  <2>3. Succeeds(obj)
    BY <2>2 DEF Succeeds, Backed, BackedBy, Claimed, Live
  <2>. QED  BY <1>1, <2>1, <2>3 DEF UserCreates
<1>2. ASSUME NEW ann \in UserAnns, UserAnnotates(ann)
      PROVE  \E obj \in ClusterObject : Edit(obj) /\ Succeeds(obj)
  <2>. DEFINE obj == [Current EXCEPT !.ann = ann]
  <2>0. obj \in ClusterObject
    BY <1>0, ObjectType, ConstType
  <2>1. /\ obj.exists = Current.exists /\ obj.deleting = Current.deleting
        /\ obj.finalizer = Current.finalizer
        /\ obj.override = Current.override
        /\ obj.state = Current.state /\ obj.ovrOk = Current.ovrOk
    BY <1>0 DEF ClusterObject
  <2>2. Succeeds(obj)
    BY <1>0, <2>1 DEF Succeeds, Backed, BackedBy, Claimed, Live
  <2>. QED  BY <1>2, <2>0, <2>2 DEF UserAnnotates
<1>3. ASSUME UserDeletes
      PROVE  \E obj \in ClusterObject : Edit(obj) /\ Succeeds(obj)
  <2>1. CASE Current.finalizer
    <3>. DEFINE obj == [Current EXCEPT !.deleting = TRUE]
    <3>0. obj \in ClusterObject
      BY <1>0, ObjectType
    <3>1. /\ obj.deleting
          /\ obj.exists = Current.exists
          /\ obj.finalizer = Current.finalizer
          /\ obj.override = Current.override
          /\ obj.state = Current.state /\ obj.ovrOk = Current.ovrOk
      BY <1>0 DEF ClusterObject
    <3>2. Succeeds(obj)
      BY <1>0, <3>1 DEF Succeeds, Backed, BackedBy, Claimed, Live
    <3>. QED  BY <1>3, <2>1, <3>0, <3>2 DEF UserDeletes
  <2>2. CASE ~Current.finalizer
    <3>1. Succeeds(Gone)
      BY DEF Succeeds, Backed, BackedBy, Claimed, Live, Gone
    <3>. QED  BY <1>3, <2>2, <3>1, ConstType DEF UserDeletes
  <2>. QED  BY <2>1, <2>2
<1>. QED  BY <1>1, <1>2, <1>3 DEF User

\* A step keeps a version backed, unless it is one of reconcileDelete and the
\* version is live.
LEMMA StepKeepsBacked ==
    ASSUME IndInv, DeployInv, [Next]_vars, NEW obj, Backed(obj),
           pc \in DeleteSteps => ~Live(obj)
    PROVE  BackedNext(obj)
<1>. USE DEF Backed, BackedNext, BackedBy
<1>1. CASE CreatePatchDir
  BY <1>1 DEF CreatePatchDir, budget
<1>2. CASE CreateArlonApp
  <2>1. arlonApp' \in {arlonApp, "present"}
           /\ UNCHANGED <<clusterApp, dir, removals>>
    BY <1>2 DEF CreateArlonApp, budget
  <2>. QED  BY <2>1
<1>3. CASE CreateClusterApp
  <2>0. NewClusterApp.phase = "present"
    BY DEF NewClusterApp
  <2>1. clusterApp'.phase \in {clusterApp.phase, "present"}
           /\ UNCHANGED <<arlonApp, dir, removals>>
    BY <1>3, <2>0 DEF CreateClusterApp, budget
  <2>. QED  BY <2>1
<1>4. CASE UpdateClusterApp
  <2>1. clusterApp'.phase = clusterApp.phase
           /\ UNCHANGED <<arlonApp, dir, removals>>
    BY <1>4 DEF UpdateClusterApp, Synced, IndInv, TypeOK, ClusterApp, budget
  <2>. QED  BY <2>1
<1>5. CASE DeleteOverridesDir \/ DeleteClusterApp \/ DeleteArlonApp
  BY <1>5 DEF DeleteOverridesDir, DeleteClusterApp, DeleteArlonApp,
              DeleteSteps
<1>6. CASE ArgoDeletes
  <2>1. removals' = removals /\ dir' = dir
    BY <1>6 DEF ArgoDeletes, budget
  <2>2. arlonApp = "terminating" \/ clusterApp.phase = "terminating"
    BY <1>6 DEF ArgoDeletes
  <2>. QED  BY <2>1, <2>2
<1>7. CASE OthersDeleteApp
  <2>1. removals' # 0 /\ dir' = dir
    BY <1>7, ConstantsAssumption DEF OthersDeleteApp, IndInv, TypeOK
  <2>. QED  BY <2>1
<1>8. CASE User
  BY <1>8 DEF User, UserCreates, UserAnnotates, UserDeletes, Edit, external
<1>9. CASE \/ Reconcile \/ NewApplicationClient \/ AddFinalizer
           \/ ValidateGitDir \/ GetArlonApp
           \/ GetClusterApp \/ UpdateStatus \/ GetClusterAppDel
           \/ GetArlonAppDel \/ RemoveFinalizer
           \/ Deliver \/ TimerFires \/ Resync \/ Crash \/ UNCHANGED vars
  <2>1. UNCHANGED <<arlonApp, clusterApp, dir, removals>>
    BY <1>9
       DEF Reconcile, NewApplicationClient, AddFinalizer, ValidateGitDir,
           GetArlonApp, GetClusterApp, UpdateStatus,
           GetClusterAppDel, GetArlonAppDel,
           RemoveFinalizer, Deliver, TimerFires, Resync, Crash, external,
           budget, vars
  <2>. QED  BY <2>1
<1>. QED
  BY <1>1, <1>2, <1>3, <1>4, <1>5, <1>6, <1>7, <1>8, <1>9
     DEF Next, ControllerStep, CreateStep, DeleteStep

\* What a step does to the log.
LEMMA LogCases ==
    ASSUME IndInv, DeployInv, [Next]_vars
    PROVE  \/ UNCHANGED log
           \/ \E obj \in ClusterObject :
                 /\ Write(obj) /\ WellFormed(obj) /\ Follows(obj)
                 /\ Succeeds(obj) /\ UNCHANGED external /\ removals' = removals
           \/ Deliver
           \/ Crash
<1>1. CASE QuietStep \/ TimerFires \/ Resync \/ ArgoDeletes \/ OthersDeleteApp
           \/ UNCHANGED vars
  BY <1>1, QuietLog
     DEF TimerFires, Resync, ArgoDeletes, OthersDeleteApp, vars
<1>2. CASE AddFinalizer
  BY <1>2, WriterFollows, WriterSucceeds DEF AddFinalizer, external, budget
<1>3. CASE UpdateStatus
  BY <1>3, WriterFollows, WriterSucceeds DEF UpdateStatus, external, budget
<1>4. CASE RemoveFinalizer
  BY <1>4, WriterFollows, WriterSucceeds DEF RemoveFinalizer, external, budget
<1>5. CASE User
  <2>1. PICK obj \in ClusterObject :
            Edit(obj) /\ WellFormed(obj) /\ Follows(obj)
    BY <1>5, UserFollows
  <2>2. PICK new \in ClusterObject : Edit(new) /\ Succeeds(new)
    BY <1>5, UserSucceeds
  <2>3. obj = Current' /\ new = Current'
    BY <2>1, <2>2, WriteShape DEF Edit, IndInv
  <2>. QED  BY <2>1, <2>2, <2>3 DEF Edit, external
<1>. QED
  BY <1>1, <1>2, <1>3, <1>4, <1>5
     DEF Next, ControllerStep, CreateStep, DeleteStep, QuietStep

\* The versions of the log stay backed, and of one override.
LEMMA LogDeploy ==
    ASSUME IndInv, DeployInv, [Next]_vars
    PROVE  /\ \A i \in DOMAIN log' : BackedNext(log'[i])
           /\ \A i, j \in DOMAIN log' :
                 i < j /\ Live(log'[i]) => log'[j].override = log'[i].override
<1>. USE EndsType DEF IndInv
<1>1. \A i \in DOMAIN log : BackedNext(log[i])
  BY StepKeepsBacked, DeleteSeesNoLive DEF DeployInv
<1>2. CASE UNCHANGED log
  BY <1>1, <1>2 DEF DeployInv, SameOverride
<1>3. ASSUME NEW obj \in ClusterObject,
             Write(obj), WellFormed(obj), Follows(obj),
             Succeeds(obj), UNCHANGED external, removals' = removals
      PROVE  /\ \A i \in DOMAIN log' : BackedNext(log'[i])
             /\ \A i, j \in DOMAIN log' :
                 i < j /\ Live(log'[i]) => log'[j].override = log'[i].override
  <2>1. BackedNext(obj)
    BY <1>3 DEF Succeeds, Backed, BackedNext, external
  <2>2. /\ \A i \in DOMAIN log' :
              (i \in DOMAIN log /\ log'[i] = log[i]) \/ log'[i] = obj
        /\ \A i, j \in DOMAIN log' :
              i < j => i \in DOMAIN log /\ log'[i] = log[i]
    BY <1>3, WriteShape
  <2>3. ASSUME NEW i \in DOMAIN log, Live(log[i])
        PROVE  obj.override = log[i].override
    <3>1. Claimed(Current)
      BY <2>3, LiveClaims
    <3>2. Claimed(obj)
      BY <1>3, <2>3 DEF Follows
    <3>3. Current.override = log[i].override
      <4>1. i < Len(log) \/ i = Len(log)
        OBVIOUS
      <4>. QED  BY <2>3, <4>1 DEF DeployInv, SameOverride, Current
    <3>. QED  BY <1>3, <3>1, <3>2, <3>3 DEF Succeeds
  <2>4. ASSUME NEW i \in DOMAIN log', NEW j \in DOMAIN log',
               i < j, Live(log'[i])
        PROVE  log'[j].override = log'[i].override
    <3>1. i \in DOMAIN log /\ log'[i] = log[i] /\ Live(log[i])
      BY <2>2, <2>4
    <3>. QED  BY <2>2, <2>3, <2>4, <3>1 DEF DeployInv, SameOverride
  <2>5. \A i \in DOMAIN log' : BackedNext(log'[i])
    BY <1>1, <2>1, <2>2
  <2>. QED  BY <2>4, <2>5
<1>4. CASE Deliver
  <2>1. \A i \in DOMAIN log' : i + 1 \in DOMAIN log /\ log'[i] = log[i + 1]
    BY <1>4, TailLog DEF Deliver, TypeOK
  <2>2. \A i, j \in DOMAIN log' : i < j => i + 1 < j + 1
    BY <1>4, TailLog DEF Deliver, TypeOK
  <2>. QED  BY <1>1, <2>1, <2>2 DEF DeployInv, SameOverride
<1>5. CASE Crash
  <2>1. DOMAIN log' = {1} /\ log'[1] = Current
    BY <1>5, SingletonLog DEF Crash
  <2>2. BackedNext(Current)
    BY <1>1 DEF Current
  <2>. QED  BY <2>1, <2>2
<1>. QED  BY <1>2, <1>3, <1>4, <1>5, LogCases

\* The copy of a reconcile stays backed when a step sets a state on it that
\* the applications bear out.
LEMMA UpdateStateBacked ==
    ASSUME NEW obj \in ClusterObject, NEW s, NEW m, NEW r,
           UpdateState(obj, s, m, r), BackedNext(obj),
           s # "created" \/ removals' # 0
             \/ (arlonApp' = "present" /\ clusterApp'.phase = "present"),
           s = "created" => Claimed(obj)
    PROVE  BackedNext(local') /\ local'.override = obj.override
<1>1. /\ local'.exists = obj.exists /\ local'.deleting = obj.deleting
      /\ local'.finalizer = obj.finalizer /\ local'.override = obj.override
      /\ local'.ovrOk = obj.ovrOk /\ local'.state = s
  BY DEF UpdateState, ClusterObject
<1>. QED  BY <1>1 DEF BackedNext, BackedBy, Claimed, Live

\* The copy of a reconcile stays backed, and of the current override.
LEMMA LocalDeploy ==
    ASSUME IndInv, DeployInv, [Next]_vars
    PROVE  /\ BackedNext(local')
           /\ Live(local') => local'.override = Current'.override
           /\ fresh' => local'.override = Current'.override
<1>. USE EndsType DEF IndInv
<1>. DEFINE Goal == /\ BackedNext(local')
                    /\ Live(local') => local'.override = Current'.override
                    /\ fresh' => local'.override = Current'.override
<1>1. BackedNext(local) /\ local \in ClusterObject
  BY StepKeepsBacked, DeleteSeesNoLive DEF DeployInv, TypeOK
<1>2. ASSUME local' = Gone, fresh' = FALSE PROVE Goal
  BY <1>2 DEF Gone, BackedNext, BackedBy, Claimed, Live
<1>3. ASSUME UNCHANGED <<log, local, fresh>> PROVE Goal
  BY <1>1, <1>3 DEF DeployInv, SameOverride, Current
<1>4. ASSUME NEW s, s # "created", Retry(s) PROVE Goal
  <2>1. BackedNext(local') /\ local'.override = local.override
    BY <1>1, <1>4, UpdateStateBacked DEF Retry
  <2>2. UNCHANGED <<log, fresh>> /\ (Live(local') => Live(local))
    BY <1>1, <1>4 DEF Retry, UpdateState, Live, Claimed, ClusterObject
  <2>. QED  BY <2>1, <2>2 DEF DeployInv, SameOverride, Current
<1>5. ASSUME pc \in CreateSteps \cup DeleteSteps, NEW s, NEW m, NEW r,
             NEW obj \in ClusterObject, UpdateState(obj, s, m, r),
             BackedNext(obj), SameMeta(obj, local),
             obj.override = local.override,
             s # "created" \/ removals' # 0
                \/ (arlonApp' = "present" /\ clusterApp'.phase = "present"),
             s = "created" => Claimed(obj)
      PROVE  Goal
  <2>1. BackedNext(local') /\ local'.override = local.override
    BY <1>5, UpdateStateBacked
  <2>2. UNCHANGED <<log, fresh>> /\ (Live(local') => Live(local))
    BY <1>5 DEF UpdateState, Live, Claimed, SameMeta, ClusterObject
  <2>. QED  BY <2>1, <2>2 DEF DeployInv, SameOverride, Current
<1>6. CASE Reconcile
  <2>1. CASE UNCHANGED <<local, fresh>>
    BY <1>3, <1>6, <2>1 DEF Reconcile
  <2>2. CASE local' = Cached /\ fresh' = (Len(log) = 1)
    <3>1. BackedNext(Cached)
      BY <1>6, StepKeepsBacked
         DEF DeployInv, Cached, Reconcile, DeleteSteps
    <3>2. log' = log
      BY <1>6 DEF Reconcile
    <3>3. Live(Cached) => Cached.override = Current.override
      <4>1. 1 < Len(log) \/ 1 = Len(log)
        OBVIOUS
      <4>. QED  BY <4>1 DEF DeployInv, SameOverride, Cached, Current
    <3>. QED  BY <2>2, <3>1, <3>2, <3>3 DEF Cached, Current
  <2>. QED  BY <1>6, <2>1, <2>2 DEF Reconcile
<1>7. CASE NewApplicationClient \/ GetArlonApp \/ CreateArlonApp
  BY <1>3, <1>4, <1>7
     DEF NewApplicationClient, GetArlonApp, CreateArlonApp, Goto
<1>8. CASE AddFinalizer \/ UpdateStatus \/ RemoveFinalizer \/ Crash
  BY <1>2, <1>8 DEF AddFinalizer, UpdateStatus, RemoveFinalizer, Crash, Return
<1>9. CASE ValidateGitDir
  <2>. DEFINE obj == [local EXCEPT !.inner = TRUE]
  <2>1. obj \in ClusterObject
    BY <1>1, ObjectType
  <2>2. SameMeta(obj, local) /\ obj.override = local.override
           /\ obj.state = local.state /\ obj.ovrOk = local.ovrOk
    BY <1>1 DEF SameMeta, ClusterObject
  <2>3. BackedNext(obj)
    BY <1>1, <2>2 DEF SameMeta, BackedNext, BackedBy, Live, Claimed
  <2>. QED
    BY <1>4, <1>5, <1>9, <2>1, <2>2, <2>3 DEF ValidateGitDir, CreateSteps
<1>10. CASE CreatePatchDir
  <2>. DEFINE obj == [local EXCEPT !.ovrOk = TRUE]
  <2>1. obj \in ClusterObject
    BY <1>1, ObjectType
  <2>2. SameMeta(obj, local) /\ obj.override = local.override
           /\ obj.state = local.state
    BY <1>1 DEF SameMeta, ClusterObject
  <2>3. Live(local)
    BY <1>10 DEF CreatePatchDir, LocalInv, CreateSteps
  <2>4. dir' = TRUE => BackedNext(obj)
    BY <1>1, <2>2, <2>3 DEF SameMeta, BackedNext, BackedBy, Live, Claimed
  <2>. QED
    BY <1>4, <1>5, <1>10, <2>1, <2>2, <2>4 DEF CreatePatchDir, CreateSteps
<1>11. CASE GetClusterApp \/ CreateClusterApp \/ UpdateClusterApp
  <2>1. Live(local) /\ SameMeta(local, local)
    BY <1>11
       DEF GetClusterApp, CreateClusterApp, UpdateClusterApp, LocalInv,
           CreateSteps, SameMeta
  <2>2. removals' = removals
    BY <1>11 DEF GetClusterApp, CreateClusterApp, UpdateClusterApp, budget
  <2>3. removals = 0 => arlonApp = "present" /\ arlonApp' = "present"
    BY <1>11
       DEF GetClusterApp, CreateClusterApp, UpdateClusterApp, external,
           DeployInv, CreationInv
  <2>4. removals = 0 /\ clusterApp.phase # "absent" =>
           clusterApp.phase = "present"
    BY <2>1 DEF DeployInv, Backed, BackedBy, TypeOK, ClusterApp, Phases
  <2>5. ASSUME removals = 0, NEW m, UpdateState(local, "created", m, "done")
        PROVE  clusterApp'.phase = "present"
    <3>1. CASE GetClusterApp
      BY <2>4, <2>5, <3>1 DEF GetClusterApp, external, UpdateState, Retry, Goto, Return
    <3>2. CASE CreateClusterApp
      BY <2>5, <3>2 DEF CreateClusterApp, NewClusterApp, UpdateState, Retry
    <3>3. CASE UpdateClusterApp
      <4>1. Synced(clusterApp).phase = clusterApp.phase
        BY DEF Synced, TypeOK, ClusterApp
      <4>. QED
        BY <2>4, <2>5, <3>3, <4>1 DEF UpdateClusterApp, UpdateState, Retry
    <3>. QED  BY <1>11, <3>1, <3>2, <3>3
  <2>6. ASSUME NEW m, UpdateState(local, "created", m, "done")
        PROVE  Goal
    BY <1>1, <1>5, <1>11, <2>1, <2>2, <2>3, <2>5, <2>6
       DEF GetClusterApp, CreateClusterApp, UpdateClusterApp, CreateSteps,
           Live
  <2>. QED
    BY <1>2, <1>3, <1>4, <1>11, <2>6
       DEF GetClusterApp, CreateClusterApp, UpdateClusterApp, Goto, Return
<1>12. CASE GetClusterAppDel \/ GetArlonAppDel
  BY <1>2, <1>3, <1>4, <1>12 DEF GetClusterAppDel, GetArlonAppDel, Goto, Return
<1>13. CASE DeleteClusterApp \/ DeleteArlonApp
  <2>1. SameMeta(local, local)
    BY DEF SameMeta
  <2>. QED
    BY <1>1, <1>4, <1>5, <1>13, <2>1
       DEF DeleteClusterApp, DeleteArlonApp, DeleteSteps
<1>14. CASE DeleteOverridesDir
  <2>. DEFINE obj == [local EXCEPT !.ovrOk = FALSE]
  <2>1. obj \in ClusterObject
    BY <1>1, ObjectType
  <2>2. SameMeta(obj, local) /\ obj.override = local.override
           /\ obj.state = local.state /\ ~obj.ovrOk
    BY <1>1 DEF SameMeta, ClusterObject
  <2>3. BackedNext(obj)
    BY <1>1, <2>2 DEF SameMeta, BackedNext, BackedBy, Live, Claimed
  <2>. QED
    BY <1>4, <1>5, <1>14, <2>1, <2>2, <2>3
       DEF DeleteOverridesDir, DeleteSteps
<1>15. CASE TimerFires \/ Resync \/ ArgoDeletes \/ OthersDeleteApp
            \/ UNCHANGED vars
  BY <1>3, <1>15
     DEF TimerFires, Resync, ArgoDeletes, OthersDeleteApp, ctlVars, vars
<1>16. CASE Deliver
  <2>1. Current' = Current /\ UNCHANGED <<local, fresh>>
    BY <1>16, DeliverLogInv DEF Deliver
  <2>. QED  BY <1>1, <2>1 DEF DeployInv, SameOverride
<1>17. CASE User
  <2>1. PICK obj \in ClusterObject :
            /\ Edit(obj) /\ WellFormed(obj) /\ Follows(obj)
            /\ Claimed(Current) => Claimed(obj)
    BY <1>17, UserFollows
  <2>2. PICK new \in ClusterObject : Edit(new) /\ Succeeds(new)
    BY <1>17, UserSucceeds
  <2>3. obj = Current' /\ new = Current'
    BY <2>1, <2>2, WriteShape DEF Edit
  <2>4. UNCHANGED local /\ (fresh' => fresh /\ log' = log)
    BY <2>1 DEF Edit, KeepsFresh
  <2>5. Live(local) => Claimed(Current)
    BY DEF LocalInv
  <2>. QED
    BY <1>1, <2>1, <2>2, <2>3, <2>4, <2>5
       DEF DeployInv, SameOverride, Succeeds, Current
<1>. QED
  BY <1>6, <1>7, <1>8, <1>9, <1>10, <1>11, <1>12, <1>13, <1>14, <1>15, <1>16,
     <1>17
     DEF Next, ControllerStep, CreateStep, DeleteStep

\* What the creating steps have seen still holds after a step.
LEMMA CreationNext ==
    ASSUME IndInv, DeployInv, [Next]_vars
    PROVE  CreationInv'
<1>. USE DEF IndInv, DeployInv, CreationInv
<1>. DEFINE Creating == {"GetArlonApp", "CreateArlonApp", "GetClusterApp",
                         "CreateClusterApp", "UpdateClusterApp"}
<1>1. ASSUME pc' \notin Creating PROVE CreationInv'
  BY <1>1
<1>2. CASE NewApplicationClient
  <2>1. CASE Goto(FirstStep(local))
    <3>1. FirstStep(local) \notin Creating \ {"GetArlonApp"}
      BY DEF FirstStep
    <3>2. FirstStep(local) = "GetArlonApp" => (local.override => local.ovrOk)
      BY DEF FirstStep
    <3>. QED  BY <2>1, <3>1, <3>2 DEF Goto
  <2>2. CASE Retry("retrying")
    BY <1>1, <2>2 DEF Retry, UpdateState
  <2>. QED  BY <1>2, <2>1, <2>2 DEF NewApplicationClient
<1>3. CASE GetArlonApp
  <2>1. Live(local)
    BY <1>3 DEF GetArlonApp, LocalInv, CreateSteps
  <2>2. UNCHANGED <<arlonApp, clusterApp, removals>>
    BY <1>3 DEF GetArlonApp, external, budget
  <2>3. removals = 0 /\ arlonApp # "absent" => arlonApp = "present"
    BY <2>1 DEF Backed, BackedBy, TypeOK, Phases
  <2>. QED
    BY <1>1, <1>3, <2>2, <2>3 DEF GetArlonApp, Goto, Retry, UpdateState
<1>4. CASE CreateArlonApp
  <2>1. (Goto("GetClusterApp") /\ arlonApp' = "present") \/ Retry("retrying")
    BY <1>4 DEF CreateArlonApp
  <2>. QED
    BY <1>1, <1>4, <2>1 DEF CreateArlonApp, Goto, Retry, UpdateState
<1>5. CASE GetClusterApp
  <2>1. UNCHANGED <<arlonApp, clusterApp, removals>>
    BY <1>5 DEF GetClusterApp, external, budget
  <2>. QED
    BY <1>1, <1>5, <2>1 DEF GetClusterApp, Goto, Retry, UpdateState, Return
<1>6. CASE \/ Reconcile \/ AddFinalizer \/ ValidateGitDir \/ CreatePatchDir
           \/ CreateClusterApp \/ UpdateClusterApp \/ UpdateStatus \/ Crash
  <2>1. pc' \notin Creating
    BY <1>6
       DEF Reconcile, AddFinalizer, ValidateGitDir, CreatePatchDir,
           CreateClusterApp, UpdateClusterApp, UpdateStatus, Crash,
           Retry, UpdateState, Return
  <2>. QED  BY <1>1, <2>1
<1>7. CASE DeleteStep
  <2>1. pc' \notin Creating
    BY <1>7
       DEF DeleteStep, GetClusterAppDel, DeleteOverridesDir,
           DeleteClusterApp, GetArlonAppDel, DeleteArlonApp,
           RemoveFinalizer, Goto, Retry, UpdateState, Return
  <2>. QED  BY <1>1, <2>1
<1>8. CASE ArgoDeletes
  <2>1. UNCHANGED <<pc, local, removals>>
    BY <1>8 DEF ArgoDeletes, ctlVars, budget
  <2>2. NoClusterApp.phase = "absent"
    BY DEF NoClusterApp
  <2>3. clusterApp.phase = "absent" => clusterApp'.phase = "absent"
    BY <1>8, <2>2 DEF ArgoDeletes
  <2>4. \/ arlonApp' = arlonApp
        \/ arlonApp = "terminating" /\ arlonApp' = "absent"
    BY <1>8 DEF ArgoDeletes
  <2>. QED  BY <2>1, <2>3, <2>4
<1>9. CASE OthersDeleteApp
  <2>1. UNCHANGED <<pc, local>> /\ removals' # 0
    BY <1>9, ConstantsAssumption DEF OthersDeleteApp, ctlVars, TypeOK
  <2>2. /\ arlonApp = "absent" => arlonApp' = "absent"
        /\ clusterApp.phase = "absent" => clusterApp'.phase = "absent"
    BY <1>9 DEF OthersDeleteApp
  <2>. QED  BY <2>1, <2>2
<1>10. CASE User \/ Deliver \/ TimerFires \/ Resync \/ UNCHANGED vars
  <2>1. UNCHANGED <<pc, local, arlonApp, clusterApp, removals>>
    BY <1>10
       DEF User, UserCreates, UserAnnotates, UserDeletes, Edit, Deliver,
           TimerFires, Resync, external, budget, vars
  <2>. QED  BY <2>1
<1>. QED
  BY <1>2, <1>3, <1>4, <1>5, <1>6, <1>7, <1>8, <1>9, <1>10
     DEF Next, ControllerStep, CreateStep

\* What a step does to the current version.
LEMMA CurrentCases ==
    ASSUME IndInv, DeployInv, [Next]_vars
    PROVE  \/ Current' = Current
           \/ /\ Succeeds(Current') /\ UNCHANGED <<external, removals>>
<1>1. CASE UNCHANGED log
  BY <1>1 DEF Current
<1>2. ASSUME NEW obj \in ClusterObject, Write(obj), Succeeds(obj),
             UNCHANGED external, removals' = removals
      PROVE  Succeeds(Current') /\ UNCHANGED <<external, removals>>
  BY <1>2, WriteShape DEF IndInv
<1>3. CASE Deliver
  BY <1>3, DeliverLogInv DEF IndInv
<1>4. CASE Crash
  BY <1>4, SingletonLog, EndsType DEF Crash, Current, IndInv
<1>. QED  BY <1>1, <1>2, <1>3, <1>4, LogCases

\* A step keeps the directory of a live Cluster with a cluster app.
LEMMA OverrideNext ==
    ASSUME IndInv, DeployInv, [Next]_vars
    PROVE  OverrideBacksClusterApp'
<1>. SUFFICES ASSUME clusterApp'.phase # "absent", Current'.override,
                     ~Current'.deleting
              PROVE  dir'
  BY DEF OverrideBacksClusterApp
<1>. USE DEF IndInv, DeployInv
<1>1. AppsInv'
  BY AppsInvNext
<1>2. Live(Current')
  BY <1>1 DEF AppsInv, NoOrphanApps, Live, Claimed
<1>3. CASE clusterApp.phase # "absent"
  <2>1. Claimed(Current)
    BY <1>3 DEF AppsInv, NoOrphanApps, Claimed
  <2>2. Live(Current) /\ Current'.override = Current.override
    BY <1>2, <2>1, CurrentCases DEF Succeeds, Live
  <2>3. dir
    BY <1>3, <2>2 DEF OverrideBacksClusterApp, Live
  <2>4. ~DeleteOverridesDir
    BY <2>2, DeleteSeesNoLive DEF DeleteOverridesDir, DeleteSteps
  <2>5. dir' = dir \/ dir' = TRUE \/ DeleteOverridesDir
    BY DEF Next, ControllerStep, CreateStep, DeleteStep, Reconcile,
           NewApplicationClient, AddFinalizer, ValidateGitDir,
           CreatePatchDir, GetArlonApp, CreateArlonApp, GetClusterApp,
           CreateClusterApp, UpdateClusterApp, UpdateStatus,
           GetClusterAppDel, DeleteClusterApp, GetArlonAppDel,
           DeleteArlonApp, RemoveFinalizer, Deliver, TimerFires, Resync,
           Crash, ArgoDeletes, User, UserCreates, UserAnnotates,
           UserDeletes, Edit, OthersDeleteApp, external, vars
  <2>. QED  BY <2>3, <2>4, <2>5
<1>4. CASE clusterApp.phase = "absent"
  <2>1. CreateClusterApp
    <3>1. CASE UpdateClusterApp \/ DeleteClusterApp \/ ArgoDeletes
               \/ OthersDeleteApp
      BY <1>4, <3>1 DEF UpdateClusterApp, DeleteClusterApp, ArgoDeletes,
                        OthersDeleteApp, NoClusterApp
    <3>2. CASE User
      BY <1>4, <3>2 DEF User, UserCreates, UserAnnotates, UserDeletes, Edit,
                        external
    <3>3. CASE \/ Reconcile \/ NewApplicationClient \/ AddFinalizer
               \/ ValidateGitDir \/ CreatePatchDir \/ GetArlonApp
               \/ CreateArlonApp \/ GetClusterApp \/ UpdateStatus
               \/ GetClusterAppDel \/ DeleteOverridesDir \/ GetArlonAppDel
               \/ DeleteArlonApp \/ RemoveFinalizer
               \/ Deliver \/ TimerFires \/ Resync \/ Crash
               \/ UNCHANGED vars
      BY <1>4, <3>3
         DEF Reconcile, NewApplicationClient, AddFinalizer, ValidateGitDir,
             CreatePatchDir, GetArlonApp, CreateArlonApp, GetClusterApp,
             UpdateStatus, GetClusterAppDel, DeleteOverridesDir,
             GetArlonAppDel, DeleteArlonApp, RemoveFinalizer, Deliver,
             TimerFires, Resync, Crash, external, vars
    <3>. QED
      BY <3>1, <3>2, <3>3 DEF Next, ControllerStep, CreateStep, DeleteStep
  <2>2. log' = log /\ dir' = dir
    BY <2>1, QuietLog DEF QuietStep, CreateClusterApp
  <2>3. Live(local) /\ (local.override => local.ovrOk)
    BY <2>1 DEF CreateClusterApp, LocalInv, CreateSteps, CreationInv
  <2>4. local.override
    BY <2>2, <2>3 DEF SameOverride, Current
  <2>. QED  BY <2>2, <2>3, <2>4 DEF Backed, BackedBy
<1>. QED  BY <1>3, <1>4

\* What statuses and steps say of the applications and of the directory holds
\* in every behaviour.
THEOREM Deployment == Spec => []DeployInv
<1>1. Init => DeployInv
  <2>. SUFFICES ASSUME Init PROVE DeployInv
    OBVIOUS
  <2>1. DOMAIN log = {1} /\ log[1] = Gone /\ Current = Gone /\ local = Gone
    BY SingletonLog, ConstType DEF Init, Current
  <2>2. Backed(Gone)
    BY DEF Backed, BackedBy, Live, Claimed, Gone
  <2>3. SameOverride
    BY <2>1 DEF SameOverride, Init
  <2>4. CreationInv
    BY DEF CreationInv, Init
  <2>5. OverrideBacksClusterApp
    BY DEF OverrideBacksClusterApp, Init, NoClusterApp
  <2>. QED  BY <2>1, <2>2, <2>3, <2>4, <2>5 DEF DeployInv
<1>2. IndInv /\ DeployInv /\ [Next]_vars => DeployInv'
  <2>. SUFFICES ASSUME IndInv, DeployInv, [Next]_vars PROVE DeployInv'
    OBVIOUS
  <2>1. (\A i \in DOMAIN log : Backed(log[i]))'
    BY LogDeploy DEF BackedNext, Backed
  <2>2. Backed(local)'
    BY LocalDeploy DEF BackedNext, Backed
  <2>3. SameOverride'
    BY LogDeploy, LocalDeploy DEF SameOverride
  <2>. QED  BY <2>1, <2>2, <2>3, CreationNext, OverrideNext DEF DeployInv
<1>. QED  BY <1>1, <1>2, Invariance, PTL DEF Spec

\* A cluster app made from an override has the override's directory in git,
\* for every number of crashes, lost answers and user operations.
THEOREM OverridesBacked == Spec => []OverrideBacksClusterApp
<1>1. DeployInv => OverrideBacksClusterApp
  BY DEF DeployInv
<1>. QED  BY <1>1, Deployment, PTL

\* A Cluster whose status says created has both applications.
THEOREM CreatedDeployed == Spec => []CreatedMeansDeployed
<1>1. IndInv /\ DeployInv => CreatedMeansDeployed
  <2>. SUFFICES ASSUME IndInv, DeployInv, Current.state = "created",
                       ~Current.deleting, removals = 0
                PROVE  arlonApp = "present" /\ clusterApp.phase = "present"
    BY DEF CreatedMeansDeployed
  <2>1. Backed(Current)
    BY EndsType DEF IndInv, DeployInv, Current
  <2>. QED  BY <2>1 DEF Backed, BackedBy, Live
<1>. QED  BY <1>1, Invariance, Deployment, PTL

----------------------------------------------------------------------------
(* The controller implements ClusterLifecycle *)

\* The life of an object, by its metadata.
LEMMA PhaseCases ==
    ASSUME NEW obj, WellFormed(obj)
    PROVE  /\ ~obj.exists => LifecyclePhase(obj) = "none"
           /\ obj.deleting => LifecyclePhase(obj) = "retired"
           /\ Live(obj) => LifecyclePhase(obj) = "claimed"
           /\ obj.exists /\ ~obj.deleting /\ ~obj.finalizer =>
                LifecyclePhase(obj) = "requested"
BY DEF LifecyclePhase, WellFormed, Live, Claimed

\* Objects with the same metadata are in the same phase.
LEMMA SamePhase ==
    ASSUME NEW a, NEW b, SameMeta(a, b)
    PROVE  LifecyclePhase(a) = LifecyclePhase(b)
BY DEF LifecyclePhase, SameMeta

\* The current version is well formed.
LEMMA CurrentWellFormed ==
    ASSUME IndInv
    PROVE  /\ WellFormed(Current) /\ Current \in ClusterObject
           /\ Live(local) => LifecyclePhase(Current) \in {"claimed", "retired"}
<1>1. WellFormed(Current) /\ Current \in ClusterObject
  BY EndsType DEF IndInv, LogInv, Current
<1>2. Claimed(Current) => LifecyclePhase(Current) \in {"claimed", "retired"}
  BY <1>1, PhaseCases DEF Live
<1>. QED  BY <1>1, <1>2 DEF IndInv, LocalInv

\* A step that changes neither the metadata nor the applications' phases is a
\* stuttering step of the lifecycle.
LEMMA LifecycleStutters ==
    ASSUME LifecyclePhase(Current') = LifecyclePhase(Current),
           arlonApp' = arlonApp, clusterApp'.phase = clusterApp.phase,
           removals' = removals
    PROVE  UNCHANGED Lifecycle!vars
BY DEF Lifecycle!vars

\* The finalizer is added to a requested Cluster, or is there already.
LEMMA AddFinalizerLifecycle ==
    ASSUME IndInv, AddFinalizer
    PROVE  [Lifecycle!Next]_(Lifecycle!vars)
<1>. DEFINE obj == [Current EXCEPT !.finalizer = TRUE]
<1>1. /\ arlonApp' = arlonApp /\ clusterApp' = clusterApp
      /\ removals' = removals
  BY DEF AddFinalizer, external, budget
<1>2. UNCHANGED log \/ (Current.exists /\ Write(obj))
  BY DEF AddFinalizer
<1>3. CASE UNCHANGED log
  BY <1>1, <1>3, LifecycleStutters DEF Current
<1>4. CASE Current.exists /\ Write(obj)
  <2>1. obj \in ClusterObject
    BY CurrentWellFormed, ObjectType
  <2>2. Current' = obj
    BY <1>4, <2>1, WriteShape DEF IndInv
  <2>3. /\ obj.exists = Current.exists /\ obj.deleting = Current.deleting
        /\ obj.finalizer = TRUE
    BY CurrentWellFormed, FieldUpdates
  <2>4. CASE Current.finalizer
    <3>1. Current.finalizer = TRUE
      BY <2>4, CurrentWellFormed DEF ClusterObject
    <3>. QED
      BY <1>1, <2>2, <2>3, <3>1, SamePhase, LifecycleStutters DEF SameMeta
  <2>5. CASE ~Current.finalizer
    <3>1. ~Current.deleting
      BY <2>5, CurrentWellFormed DEF WellFormed, Claimed
    <3>2. WellFormed(obj) /\ Live(obj)
      BY <1>4, <2>3, <3>1 DEF WellFormed, Live, Claimed
    <3>3. /\ LifecyclePhase(Current) = "requested"
          /\ LifecyclePhase(Current') = "claimed"
      BY <1>4, <2>2, <2>5, <3>1, <3>2, CurrentWellFormed, PhaseCases
    <3>4. Lifecycle!Claim
      BY <1>1, <3>3 DEF Lifecycle!Claim, Lifecycle!apps
    <3>. QED  BY <3>4 DEF Lifecycle!Next
  <2>. QED  BY <2>4, <2>5
<1>. QED  BY <1>2, <1>3, <1>4

\* A status that is accepted leaves the metadata as it is.
LEMMA UpdateStatusLifecycle ==
    ASSUME IndInv, UpdateStatus
    PROVE  [Lifecycle!Next]_(Lifecycle!vars)
<1>1. /\ arlonApp' = arlonApp /\ clusterApp' = clusterApp
      /\ removals' = removals
  BY DEF UpdateStatus, external, budget
<1>2. UNCHANGED log \/ (fresh /\ Write(local))
  BY DEF UpdateStatus
<1>3. CASE UNCHANGED log
  BY <1>1, <1>3, LifecycleStutters DEF Current
<1>4. CASE fresh /\ Write(local)
  <2>1. Current' = local
    BY <1>4, WriteShape DEF IndInv, TypeOK
  <2>2. SameMeta(local, Current)
    BY <1>4 DEF IndInv, LocalInv
  <2>. QED  BY <1>1, <2>1, <2>2, SamePhase, LifecycleStutters
<1>. QED  BY <1>2, <1>3, <1>4

\* The finalizer is removed from a retired Cluster without applications, or
\* from one that has none to remove.
LEMMA RemoveFinalizerLifecycle ==
    ASSUME IndInv, RemoveFinalizer
    PROVE  [Lifecycle!Next]_(Lifecycle!vars)
<1>. DEFINE obj == WithoutFinalizer(Current)
<1>1. /\ arlonApp' = arlonApp /\ clusterApp' = clusterApp
      /\ removals' = removals
  BY DEF RemoveFinalizer, external, budget
<1>2. UNCHANGED log \/ (Current.exists /\ Write(obj))
  BY DEF RemoveFinalizer
<1>3. CASE UNCHANGED log
  BY <1>1, <1>3, LifecycleStutters DEF Current
<1>4. CASE Current.exists /\ Write(obj)
  <2>1. obj \in ClusterObject
    BY CurrentWellFormed, ObjectType, ConstType DEF WithoutFinalizer
  <2>2. Current' = obj
    BY <1>4, <2>1, WriteShape DEF IndInv
  <2>3. CASE Current.deleting
    <3>1. obj = Gone /\ WellFormed(Gone) /\ ~Gone.exists
      BY <2>3 DEF WithoutFinalizer, WellFormed, Gone
    <3>2. /\ LifecyclePhase(Current) = "retired"
          /\ LifecyclePhase(Current') = "none"
      BY <2>2, <2>3, <3>1, CurrentWellFormed, PhaseCases
    <3>3. arlonApp = "absent" /\ clusterApp.phase = "absent"
      BY DEF RemoveFinalizer, IndInv, AppsInv
    <3>4. Lifecycle!Release
      BY <1>1, <3>2, <3>3 DEF Lifecycle!Release, Lifecycle!apps
    <3>. QED  BY <3>4 DEF Lifecycle!Next
  <2>4. CASE ~Current.deleting
    <3>1. ~Live(Current)
      BY DeleteSeesNoLive DEF RemoveFinalizer, DeleteSteps
    <3>2. Current.finalizer = FALSE
      BY <1>4, <2>4, <3>1, CurrentWellFormed DEF Live, Claimed, ClusterObject
    <3>3. /\ obj.exists = Current.exists /\ obj.deleting = Current.deleting
          /\ obj.finalizer = FALSE
      BY <2>4, CurrentWellFormed, FieldUpdates DEF WithoutFinalizer
    <3>. QED
      BY <1>1, <2>2, <3>2, <3>3, SamePhase, LifecycleStutters DEF SameMeta
  <2>. QED  BY <2>3, <2>4
<1>. QED  BY <1>2, <1>3, <1>4

\* A user requests, annotates, withdraws or retires the Cluster.
LEMMA UserLifecycle ==
    ASSUME IndInv, User
    PROVE  [Lifecycle!Next]_(Lifecycle!vars)
<1>1. /\ arlonApp' = arlonApp /\ clusterApp' = clusterApp
      /\ removals' = removals
  BY DEF User, UserCreates, UserAnnotates, UserDeletes, Edit, external
<1>2. \A obj \in ClusterObject : Edit(obj) => Current' = obj
  BY WriteShape DEF Edit, IndInv
<1>3. WellFormed(Gone) /\ LifecyclePhase(Gone) = "none"
  BY DEF WellFormed, LifecyclePhase, Gone
<1>4. ASSUME NEW ann \in UserAnns, NEW ovr \in Overrides,
             UserCreates(ann, ovr)
      PROVE  [Lifecycle!Next]_(Lifecycle!vars)
  <2>. DEFINE obj == [Gone EXCEPT !.exists = TRUE, !.ann = ann,
                                  !.override = ovr]
  <2>1. obj \in ClusterObject
    BY ConstType, ObjectType, ConstantsAssumption
  <2>2. Current' = obj
    BY <1>2, <1>4, <2>1 DEF UserCreates
  <2>3. obj.exists /\ ~obj.deleting /\ ~obj.finalizer
    BY DEF Gone
  <2>4. LifecyclePhase(Current) = "none" /\ LifecyclePhase(Current') = "requested"
    <3>1. WellFormed(obj)
      BY <2>3 DEF WellFormed
    <3>. QED
      BY <1>4, <2>2, <2>3, <3>1, CurrentWellFormed, PhaseCases DEF UserCreates
  <2>5. Lifecycle!Request
    BY <1>1, <2>4 DEF Lifecycle!Request, Lifecycle!apps
  <2>. QED  BY <2>5 DEF Lifecycle!Next
<1>5. ASSUME NEW ann \in UserAnns, UserAnnotates(ann)
      PROVE  [Lifecycle!Next]_(Lifecycle!vars)
  <2>. DEFINE obj == [Current EXCEPT !.ann = ann]
  <2>1. obj \in ClusterObject
    BY ConstType, CurrentWellFormed, ObjectType
  <2>2. Current' = obj
    BY <1>2, <1>5, <2>1 DEF UserAnnotates
  <2>3. SameMeta(obj, Current)
    BY CurrentWellFormed DEF SameMeta, ClusterObject
  <2>. QED  BY <1>1, <2>2, <2>3, SamePhase, LifecycleStutters
<1>6. CASE UserDeletes
  <2>1. CASE Current.finalizer
    <3>. DEFINE obj == [Current EXCEPT !.deleting = TRUE]
    <3>1. obj \in ClusterObject
      BY CurrentWellFormed, ObjectType
    <3>2. Current' = obj
      BY <1>2, <1>6, <2>1, <3>1 DEF UserDeletes
    <3>3. /\ obj.deleting = TRUE /\ obj.exists = Current.exists
          /\ obj.finalizer = Current.finalizer
      BY CurrentWellFormed, FieldUpdates
    <3>4. WellFormed(obj)
      BY <1>6, <2>1, <3>3 DEF WellFormed, Claimed, UserDeletes
    <3>5. Live(Current)
      BY <1>6, <2>1 DEF UserDeletes, Live, Claimed
    <3>6. /\ LifecyclePhase(Current) = "claimed"
          /\ LifecyclePhase(Current') = "retired"
      BY <3>2, <3>3, <3>4, <3>5, CurrentWellFormed, PhaseCases
    <3>7. Lifecycle!Retire
      BY <1>1, <3>6 DEF Lifecycle!Retire, Lifecycle!apps
    <3>. QED  BY <3>7 DEF Lifecycle!Next
  <2>2. CASE ~Current.finalizer
    <3>1. Current' = Gone
      BY <1>2, <1>6, <2>2, ConstType DEF UserDeletes
    <3>2. /\ LifecyclePhase(Current) = "requested"
          /\ LifecyclePhase(Current') = "none"
      BY <1>3, <1>6, <2>2, <3>1, CurrentWellFormed, PhaseCases DEF UserDeletes
    <3>3. Lifecycle!Withdraw
      BY <1>1, <3>2 DEF Lifecycle!Withdraw, Lifecycle!apps
    <3>. QED  BY <3>3 DEF Lifecycle!Next
  <2>. QED  BY <2>1, <2>2
<1>. QED  BY <1>4, <1>5, <1>6 DEF User

\* The steps that create, remove and lose applications.
LEMMA AppsLifecycle ==
    ASSUME IndInv, DeployInv,
           \/ CreateArlonApp \/ CreateClusterApp \/ UpdateClusterApp
           \/ DeleteClusterApp \/ DeleteArlonApp \/ ArgoDeletes
           \/ OthersDeleteApp
    PROVE  [Lifecycle!Next]_(Lifecycle!vars)
<1>0. LifecyclePhase(Current') = LifecyclePhase(Current)
  <2>1. UNCHANGED log
    BY QuietLog DEF QuietStep, ArgoDeletes, OthersDeleteApp
  <2>. QED  BY <2>1 DEF Current
<1>1. CASE CreateArlonApp
  <2>1. /\ clusterApp' = clusterApp /\ removals' = removals
        /\ \/ arlonApp' = arlonApp
           \/ clusterApp.phase = "absent" /\ arlonApp' = "present"
    BY <1>1 DEF CreateArlonApp, budget
  <2>2. CASE arlonApp' = arlonApp
    BY <1>0, <2>1, <2>2, LifecycleStutters
  <2>3. CASE clusterApp.phase = "absent" /\ arlonApp' = "present"
    <3>1. arlonApp = "absent"
      BY <1>1 DEF CreateArlonApp, DeployInv, CreationInv
    <3>2. Live(local)
      BY <1>1 DEF CreateArlonApp, CreateSteps, IndInv, LocalInv
    <3>3. Lifecycle!DeployArlonApp
      BY <1>0, <2>1, <2>3, <3>1, <3>2, CurrentWellFormed
         DEF Lifecycle!DeployArlonApp
    <3>. QED  BY <3>3 DEF Lifecycle!Next
  <2>. QED  BY <2>1, <2>2, <2>3
<1>2. CASE CreateClusterApp
  <2>1. /\ arlonApp' = arlonApp /\ removals' = removals
        /\ clusterApp' = clusterApp \/ clusterApp' = NewClusterApp
    BY <1>2 DEF CreateClusterApp, budget
  <2>2. CASE clusterApp' = clusterApp
    BY <1>0, <2>1, <2>2, LifecycleStutters
  <2>3. CASE clusterApp' = NewClusterApp
    <3>1. /\ clusterApp.phase = "absent"
          /\ removals = 0 => arlonApp = "present"
      BY <1>2 DEF CreateClusterApp, DeployInv, CreationInv
    <3>2. Live(local)
      BY <1>2 DEF CreateClusterApp, CreateSteps, IndInv, LocalInv
    <3>3. NewClusterApp.phase = "present"
      BY DEF NewClusterApp
    <3>4. Lifecycle!DeployClusterApp
      BY <1>0, <2>1, <2>3, <3>1, <3>2, <3>3, CurrentWellFormed
         DEF Lifecycle!DeployClusterApp
    <3>. QED  BY <3>4 DEF Lifecycle!Next
  <2>. QED  BY <2>1, <2>2, <2>3
<1>3. CASE UpdateClusterApp
  <2>1. /\ arlonApp' = arlonApp /\ removals' = removals
        /\ clusterApp' = clusterApp \/ clusterApp' = Synced(clusterApp)
    BY <1>3 DEF UpdateClusterApp, budget
  <2>2. Synced(clusterApp).phase = clusterApp.phase
    BY DEF Synced, IndInv, TypeOK, ClusterApp
  <2>. QED  BY <1>0, <2>1, <2>2, LifecycleStutters
<1>4. ASSUME pc \in DeleteSteps,
             arlonApp # "absent" \/ clusterApp.phase # "absent"
      PROVE  LifecyclePhase(Current) = "retired"
  <2>1. Claimed(Current)
    BY <1>4 DEF IndInv, AppsInv, NoOrphanApps, Claimed
  <2>2. Current.deleting
    BY <1>4, <2>1, DeleteSeesNoLive DEF Live
  <2>. QED  BY <2>2, CurrentWellFormed, PhaseCases
<1>5. CASE DeleteClusterApp
  <2>1. /\ arlonApp' = arlonApp /\ removals' = removals
        /\ \/ clusterApp' = clusterApp
           \/ /\ clusterApp.phase # "absent"
              /\ clusterApp' = [clusterApp EXCEPT !.phase = "terminating"]
    BY <1>5 DEF DeleteClusterApp, budget
  <2>2. [clusterApp EXCEPT !.phase = "terminating"].phase = "terminating"
    BY DEF IndInv, TypeOK, ClusterApp
  <2>3. clusterApp.phase \in Phases
    BY DEF IndInv, TypeOK, ClusterApp
  <2>4. CASE clusterApp'.phase = clusterApp.phase
    BY <1>0, <2>1, <2>4, LifecycleStutters
  <2>5. CASE clusterApp'.phase # clusterApp.phase
    <3>1. clusterApp.phase = "present" /\ clusterApp'.phase = "terminating"
      BY <2>1, <2>2, <2>3, <2>5 DEF Phases
    <3>2. LifecyclePhase(Current) = "retired"
      BY <1>4, <1>5, <3>1 DEF DeleteClusterApp, DeleteSteps
    <3>3. Lifecycle!RemoveClusterApp
      BY <1>0, <2>1, <3>1, <3>2 DEF Lifecycle!RemoveClusterApp
    <3>. QED  BY <3>3 DEF Lifecycle!Next
  <2>. QED  BY <2>4, <2>5
<1>6. CASE DeleteArlonApp
  <2>1. /\ clusterApp' = clusterApp /\ removals' = removals
        /\ \/ arlonApp' = arlonApp
           \/ arlonApp # "absent" /\ arlonApp' = "terminating"
    BY <1>6 DEF DeleteArlonApp, budget
  <2>2. CASE arlonApp' = arlonApp
    BY <1>0, <2>1, <2>2, LifecycleStutters
  <2>3. CASE arlonApp' # arlonApp
    <3>1. arlonApp = "present" /\ arlonApp' = "terminating"
      BY <2>1, <2>3 DEF IndInv, TypeOK, Phases
    <3>2. LifecyclePhase(Current) = "retired"
      BY <1>4, <1>6, <3>1 DEF DeleteArlonApp, DeleteSteps
    <3>3. clusterApp.phase = "absent"
      BY <1>6 DEF DeleteArlonApp, IndInv, AppsInv
    <3>4. Lifecycle!RemoveArlonApp
      BY <1>0, <2>1, <3>1, <3>2, <3>3 DEF Lifecycle!RemoveArlonApp
    <3>. QED  BY <3>4 DEF Lifecycle!Next
  <2>. QED  BY <2>2, <2>3
<1>7. CASE ArgoDeletes
  <2>1. NoClusterApp.phase = "absent" /\ removals' = removals
    BY <1>7 DEF NoClusterApp, ArgoDeletes, budget
  <2>2. Lifecycle!Terminated
    BY <1>0, <1>7, <2>1 DEF ArgoDeletes, Lifecycle!Terminated
  <2>. QED  BY <2>2 DEF Lifecycle!Next
<1>8. CASE OthersDeleteApp
  <2>1. [clusterApp EXCEPT !.phase = "terminating"].phase = "terminating"
    BY DEF IndInv, TypeOK, ClusterApp
  <2>2. (removals' = 0) = FALSE
    BY <1>8, ConstantsAssumption DEF OthersDeleteApp, IndInv, TypeOK
  <2>3. Lifecycle!OthersRemoveApp
    BY <1>0, <1>8, <2>1, <2>2 DEF OthersDeleteApp, Lifecycle!OthersRemoveApp
  <2>. QED  BY <2>3 DEF Lifecycle!Next
<1>. QED  BY <1>1, <1>2, <1>3, <1>5, <1>6, <1>7, <1>8

\* Every step of the controller and of its environment is a step of the
\* lifecycle or leaves the lifecycle unchanged.
LEMMA LifecycleStep ==
    ASSUME IndInv, DeployInv, [Next]_vars
    PROVE  [Lifecycle!Next]_(Lifecycle!vars)
<1>1. CASE AddFinalizer
  BY <1>1, AddFinalizerLifecycle
<1>2. CASE UpdateStatus
  BY <1>2, UpdateStatusLifecycle
<1>3. CASE RemoveFinalizer
  BY <1>3, RemoveFinalizerLifecycle
<1>4. CASE User
  BY <1>4, UserLifecycle
<1>5. CASE \/ CreateArlonApp \/ CreateClusterApp \/ UpdateClusterApp
           \/ DeleteClusterApp \/ DeleteArlonApp \/ ArgoDeletes
           \/ OthersDeleteApp
  BY <1>5, AppsLifecycle
<1>6. CASE \/ Reconcile \/ NewApplicationClient \/ ValidateGitDir
           \/ CreatePatchDir \/ GetArlonApp \/ GetClusterApp
           \/ GetClusterAppDel \/ DeleteOverridesDir \/ GetArlonAppDel
           \/ TimerFires \/ Resync \/ UNCHANGED vars
  <2>1. UNCHANGED <<log, arlonApp, clusterApp, removals>>
    BY <1>6, QuietLog
       DEF QuietStep, Reconcile, NewApplicationClient, ValidateGitDir,
           CreatePatchDir, GetArlonApp, GetClusterApp, GetClusterAppDel,
           DeleteOverridesDir, GetArlonAppDel, TimerFires, Resync,
           external, budget, vars
  <2>. QED  BY <2>1, LifecycleStutters DEF Current
<1>7. CASE Deliver \/ Crash
  <2>1. Current' = Current
    BY <1>7, DeliverLogInv, SingletonLog, EndsType DEF Crash, Current, IndInv
  <2>2. UNCHANGED <<arlonApp, clusterApp, removals>>
    BY <1>7 DEF Deliver, Crash, external, budget
  <2>. QED  BY <2>1, <2>2, LifecycleStutters
<1>. QED
  BY <1>1, <1>2, <1>3, <1>4, <1>5, <1>6, <1>7
     DEF Next, ControllerStep, CreateStep, DeleteStep

\* With its stale copies, retries, lost answers and crashes, the controller
\* implements the life of a Cluster that ClusterLifecycle describes.
THEOREM Refinement == Spec => ImplementsLifecycle
<1>1. Init => Lifecycle!Init
  <2>. SUFFICES ASSUME Init PROVE Lifecycle!Init
    OBVIOUS
  <2>1. Current = Gone
    BY SingletonLog, ConstType DEF Init, Current
  <2>2. LifecyclePhase(Gone) = "none"
    BY DEF LifecyclePhase, Gone
  <2>3. NoClusterApp.phase = "absent"
    BY DEF NoClusterApp
  <2>. QED  BY <2>1, <2>2, <2>3 DEF Init, Lifecycle!Init
<1>2. IndInv /\ DeployInv /\ [Next]_vars => [Lifecycle!Next]_(Lifecycle!vars)
  BY LifecycleStep
<1>. QED
  BY <1>1, <1>2, Invariance, Deployment, PTL
     DEF Spec, ImplementsLifecycle, Lifecycle!Spec

=============================================================================
