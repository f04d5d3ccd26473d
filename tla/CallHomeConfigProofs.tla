------------------------ MODULE CallHomeConfigProofs ------------------------
(* Proofs about CallHomeConfig, for every value of its constants. *)
EXTENDS CallHomeConfig, TLAPS

----------------------------------------------------------------------------
(* The shape of the sequence of versions *)

\* A sequence of versions, its first and its last one.
LEMMA Ends ==
    ASSUME NEW T, NEW s \in Seq(T), Len(s) >= 1
    PROVE  /\ Len(s) \in Nat
           /\ DOMAIN s = 1..Len(s)
           /\ 1 \in DOMAIN s /\ s[1] \in T
           /\ Len(s) \in DOMAIN s /\ s[Len(s)] \in T
           /\ \A i \in DOMAIN s : i < Len(s) \/ i = Len(s)
           /\ \A i \in DOMAIN s : i = 1 \/ 1 < i
OBVIOUS

\* After a relist there is one version.
LEMMA SingleShape ==
    ASSUME NEW T, NEW obj \in T
    PROVE  /\ <<obj>> \in Seq(T)
           /\ Len(<<obj>>) = 1
           /\ DOMAIN <<obj>> = {1}
           /\ <<obj>>[1] = obj
OBVIOUS

\* After a write.
LEMMA AppendShape ==
    ASSUME NEW T, NEW s \in Seq(T), Len(s) >= 1, NEW obj \in T
    PROVE  LET t == Append(s, obj) IN
           /\ t \in Seq(T) /\ Len(t) = Len(s) + 1
           /\ t[Len(t)] = obj /\ t[1] = s[1]
           /\ \A i \in DOMAIN s : i \in DOMAIN t /\ t[i] = s[i]
           /\ \A i \in DOMAIN t : i \in DOMAIN s \/ t[i] = obj
           /\ \A i, j \in DOMAIN t : i < j => i \in DOMAIN s
           /\ t # s
<1>. DEFINE t == Append(s, obj)
<1>1. /\ t \in Seq(T) /\ Len(t) = Len(s) + 1 /\ DOMAIN t = 1..(Len(s) + 1)
      /\ \A i \in 1..Len(s) : t[i] = s[i]
      /\ t[Len(s) + 1] = obj
  OBVIOUS
<1>2. Len(s) \in Nat /\ DOMAIN s = 1..Len(s)
  OBVIOUS
<1>3. t[Len(t)] = obj
  BY <1>1
<1>4. t[1] = s[1] /\ \A i \in DOMAIN s : i \in DOMAIN t /\ t[i] = s[i]
  BY <1>1, <1>2
<1>5. \A i \in DOMAIN t : i \in DOMAIN s \/ t[i] = obj
  <2>1. \A i \in DOMAIN t : i \in DOMAIN s \/ i = Len(s) + 1
    BY <1>1, <1>2
  <2>. QED  BY <1>1, <2>1
<1>6. \A i, j \in DOMAIN t : i < j => i \in DOMAIN s
  BY <1>1, <1>2
<1>7. t # s
  <2>1. \A n \in Nat : n + 1 # n
    OBVIOUS
  <2>2. Len(t) # Len(s)
    BY <1>1, <1>2, <2>1, Zenon
  <2>. QED  BY <2>2, Zenon
<1>. QED  BY <1>1, <1>3, <1>4, <1>5, <1>6, <1>7

\* After a delivery.
LEMMA TailShape ==
    ASSUME NEW T, NEW s \in Seq(T), Len(s) > 1
    PROVE  LET t == Tail(s) IN
           /\ t \in Seq(T) /\ Len(t) = Len(s) - 1 /\ Len(t) >= 1
           /\ t[Len(t)] = s[Len(s)]
           /\ 2 \in DOMAIN s /\ t[1] = s[2]
           /\ \A i \in DOMAIN t : i + 1 \in DOMAIN s /\ t[i] = s[i + 1]
           /\ \A i \in DOMAIN t : i = 1 \/ 2 < i + 1
           /\ \A i, j \in DOMAIN t : i < j => i + 1 < j + 1 /\ 1 < i + 1
<1>. DEFINE t == Tail(s)
<1>1. /\ t \in Seq(T) /\ Len(t) = Len(s) - 1 /\ DOMAIN t = 1..(Len(s) - 1)
      /\ \A i \in 1..(Len(s) - 1) : t[i] = s[i + 1]
      /\ Len(s) \in Nat /\ DOMAIN s = 1..Len(s)
  OBVIOUS
<1>2. t[Len(t)] = s[Len(s)] /\ t[1] = s[2] /\ 2 \in DOMAIN s
  BY <1>1
<1>3. \A i \in DOMAIN t : i + 1 \in DOMAIN s /\ t[i] = s[i + 1]
  BY <1>1
<1>4. /\ \A i \in DOMAIN t : i = 1 \/ 2 < i + 1
      /\ \A i, j \in DOMAIN t : i < j => i + 1 < j + 1 /\ 1 < i + 1
  BY <1>1
<1>. QED  BY <1>1, <1>2, <1>3, <1>4

----------------------------------------------------------------------------
(* Facts about the data *)

\* The bounds are natural numbers.
LEMMA Bounds ==
    /\ MaxLag \in Nat \ {0}
    /\ MaxFaults \in Nat
    /\ MaxEdits \in Nat
    /\ MaxChanges \in Nat
BY ConstantsAssumption, Zenon

\* The parts of the type invariant that count something.
LEMMA Counts ==
    TypeOK => /\ log \in Seq(Config) /\ Len(log) \in 1..MaxLag + 1
              /\ local \in Config
              /\ edits \in 0..MaxEdits
              /\ changes \in 0..MaxChanges
              /\ faults \in 0..MaxFaults
BY Zenon DEF TypeOK

Messages == PCs \cup Secret \cup Token \cup {""}

\* The cached and the current version are objects.
LEMMA EndsType ==
    ASSUME TypeOK
    PROVE  /\ log \in Seq(Config) /\ Len(log) >= 1 /\ Len(log) \in Nat
           /\ Cached \in Config /\ Current \in Config /\ local \in Config
           /\ DOMAIN log = 1..Len(log)
           /\ 1 \in DOMAIN log /\ Len(log) \in DOMAIN log
<1>1. log \in Seq(Config) /\ Len(log) >= 1
  BY Bounds, Counts
<1>. QED  BY <1>1, Ends, Counts DEF Cached, Current

\* Changing fields of an object within their types keeps its type, and the
\* status leaves the rest alone.
LEMMA ObjectType ==
    ASSUME NEW obj \in Config
    PROVE  /\ \A s \in States, m \in Messages :
                [obj EXCEPT !.state = s, !.msg = m] \in Config
           /\ \A a \in Accounts :
                [obj EXCEPT !.exists = TRUE, !.account = a] \in Config
           /\ obj.state \in States /\ obj.msg \in Messages
           /\ obj.account \in Accounts \cup {""} /\ obj.exists \in BOOLEAN
BY DEF Config, Messages

LEMMA StatusFields ==
    ASSUME NEW obj \in Config, NEW s, NEW m
    PROVE  LET new == [obj EXCEPT !.state = s, !.msg = m] IN
           /\ new.exists = obj.exists /\ new.account = obj.account
           /\ new.state = s
BY DEF Config

\* The absent object.
LEMMA GoneFacts ==
    /\ Gone \in Config /\ ~Gone.exists /\ Gone.state = ""
    /\ \A secret : BackedBy(Gone, secret)
BY DEF Gone, Config, States, BackedBy

WithStatus == [Current EXCEPT !.state = local.state, !.msg = local.msg]

LEMMA WithStatusFacts ==
    ASSUME TypeOK
    PROVE  /\ WithStatus \in Config
           /\ WithStatus.exists = Current.exists
           /\ WithStatus.account = Current.account
           /\ WithStatus.state = local.state
<1>1. local.state \in States /\ local.msg \in Messages
  BY EndsType, ObjectType
<1>2. WithStatus \in Config
  BY <1>1, EndsType, ObjectType DEF WithStatus
<1>. QED  BY <1>2, EndsType, StatusFields DEF WithStatus

\* What a status update does to the log.
LEMMA UpdateStatusFacts ==
    ASSUME UpdateStatus
    PROVE  /\ UNCHANGED log \/ (fresh /\ Write(WithStatus))
           /\ Return(TRUE) \/ Return(again)
BY DEF UpdateStatus, WithStatus

\* What a write does.
LEMMA WriteFacts ==
    ASSUME TypeOK, NEW obj \in Config, Write(obj)
    PROVE  /\ log' \in Seq(Config) /\ Len(log') \in 1..MaxLag + 1
           /\ Current' = obj
           /\ \A i \in DOMAIN log' :
                 (i \in DOMAIN log /\ log'[i] = log[i]) \/ log'[i] = obj
<1>0. /\ log \in Seq(Config) /\ Len(log) \in Nat /\ Len(log) >= 1
      /\ Len(log) \in DOMAIN log /\ Len(log) \in 1..MaxLag + 1
  BY EndsType DEF TypeOK
<1>1. CASE obj = Current
  <2>1. log' = log
    BY <1>1 DEF Write
  <2>2. /\ Current' = obj
        /\ \A i \in DOMAIN log' : i \in DOMAIN log /\ log'[i] = log[i]
    BY <1>1, <2>1 DEF Current
  <2>. QED  BY <1>0, <2>1, <2>2
<1>2. CASE obj # Current
  <2>1. log' = Append(log, obj) /\ Len(log) <= MaxLag
    BY <1>2 DEF Write
  <2>2. /\ log' \in Seq(Config) /\ Len(log') = Len(log) + 1
        /\ log'[Len(log')] = obj
        /\ \A i \in DOMAIN log : log'[i] = log[i]
        /\ \A i \in DOMAIN log' : i \in DOMAIN log \/ log'[i] = obj
    BY <1>0, <2>1, AppendShape
  <2>3. Len(log') \in 1..MaxLag + 1
    BY <1>0, <2>1, <2>2, Bounds
  <2>4. Current' = obj
    BY <2>2 DEF Current
  <2>. QED  BY <2>2, <2>3, <2>4
<1>. QED  BY <1>1, <1>2

\* What a delivery does.
LEMMA DeliverFacts ==
    ASSUME TypeOK, Deliver
    PROVE  /\ log' \in Seq(Config) /\ Len(log') \in 1..MaxLag + 1
           /\ Current' = Current
           /\ \A i \in DOMAIN log' : \E j \in DOMAIN log : log'[i] = log[j]
<1>. USE EndsType
<1>1. log' = Tail(log) /\ Len(log) > 1
  BY DEF Deliver
<1>2. /\ log' \in Seq(Config)
      /\ Len(log') = Len(log) - 1 /\ Len(log') >= 1
      /\ log'[Len(log')] = log[Len(log)]
      /\ \A i \in DOMAIN log' : i + 1 \in DOMAIN log /\ log'[i] = log[i + 1]
  BY <1>1, TailShape
<1>3. Len(log') \in 1..MaxLag + 1
  BY <1>2, Bounds, Counts
<1>. QED  BY <1>2, <1>3 DEF Current

\* What a relist does.
LEMMA CrashFacts ==
    ASSUME TypeOK, Crash
    PROVE  /\ log' \in Seq(Config) /\ Len(log') \in 1..MaxLag + 1
           /\ Current' = Current
           /\ \A i \in DOMAIN log' : log'[i] = Current
<1>. USE EndsType
<1>1. log' = <<Current>>
  BY DEF Crash
<1>2. /\ log' \in Seq(Config) /\ Len(log') = 1 /\ DOMAIN log' = {1}
      /\ log'[1] = Current
  BY <1>1, SingleShape
<1>3. Len(log') \in 1..MaxLag + 1
  BY <1>2, Bounds
<1>. QED  BY <1>2, <1>3 DEF Current

----------------------------------------------------------------------------
(* Type correctness *)

LogTypeOK ==
    /\ log \in Seq(Config)
    /\ Len(log) \in 1..MaxLag + 1

CtlTypeOK ==
    /\ queued \in BOOLEAN
    /\ timer \in BOOLEAN
    /\ pc \in PCs
    /\ local \in Config
    /\ fresh \in BOOLEAN
    /\ again \in BOOLEAN

RestTypeOK ==
    /\ kubeconfig \in Secret
    /\ tokens \in [Accounts -> Token]
    /\ target \in Accounts \cup {""}
    /\ edits \in 0..MaxEdits
    /\ changes \in 0..MaxChanges
    /\ faults \in 0..MaxFaults

\* The type invariant by parts.
LEMMA TypeParts ==
    /\ TypeOK => LogTypeOK /\ CtlTypeOK /\ RestTypeOK
    /\ LogTypeOK' /\ CtlTypeOK' /\ RestTypeOK' => TypeOK'
BY DEF TypeOK, LogTypeOK, CtlTypeOK, RestTypeOK

\* The helpers keep the types.
LEMMA HelperTypes ==
    ASSUME TypeOK
    PROVE  /\ \A step \in PCs : Goto(step) => LogTypeOK' /\ CtlTypeOK'
           /\ \A b \in BOOLEAN : Return(b) => CtlTypeOK'
           /\ \A s \in States, m \in Messages, b \in BOOLEAN :
                UpdateState(s, m, b) => LogTypeOK' /\ CtlTypeOK'
           /\ UNCHANGED log => LogTypeOK'
           /\ (Ok \/ Fault) /\ UNCHANGED <<surroundings, edits, changes>>
                 /\ target' \in Accounts \cup {""}
                 => RestTypeOK'
           /\ faults < MaxFaults /\ faults' = faults + 1 =>
                 faults' \in 0..MaxFaults
           /\ edits < MaxEdits /\ edits' = edits + 1 =>
                 edits' \in 0..MaxEdits
           /\ changes < MaxChanges /\ changes' = changes + 1 =>
                 changes' \in 0..MaxChanges
<1>1. ASSUME NEW step \in PCs, Goto(step) PROVE LogTypeOK' /\ CtlTypeOK'
  BY <1>1 DEF TypeOK, LogTypeOK, CtlTypeOK, Goto
<1>2. ASSUME NEW b \in BOOLEAN, Return(b) PROVE CtlTypeOK'
  BY <1>2, GoneFacts DEF TypeOK, CtlTypeOK, Return, PCs
<1>3. UNCHANGED log => LogTypeOK'
  BY DEF TypeOK, LogTypeOK
<1>4. ASSUME NEW s \in States, NEW m \in Messages, NEW b \in BOOLEAN,
             UpdateState(s, m, b)
      PROVE  LogTypeOK' /\ CtlTypeOK'
  <2>1. UNCHANGED log
    BY <1>4 DEF UpdateState
  <2>2. CASE Return(b)
    BY <1>2, <1>3, <2>1, <2>2
  <2>3. CASE /\ pc' = "UpdateStatus"
             /\ local' = [local EXCEPT !.state = s, !.msg = m]
             /\ again' = b
             /\ UNCHANGED <<log, queued, timer, fresh>>
    <3>1. local' \in Config
      BY <2>3, EndsType, ObjectType
    <3>. QED  BY <1>3, <2>3, <3>1 DEF TypeOK, CtlTypeOK, PCs
  <2>. QED  BY <1>4, <2>2, <2>3 DEF UpdateState
<1>5. (Ok \/ Fault) /\ UNCHANGED <<surroundings, edits, changes>>
         /\ target' \in Accounts \cup {""} => RestTypeOK'
  <2>1. Ok \/ Fault => faults' \in 0..MaxFaults
    BY Bounds, Counts DEF Ok, Fault
  <2>. QED  BY <2>1 DEF TypeOK, RestTypeOK, surroundings
<1>6. faults < MaxFaults /\ faults' = faults + 1 => faults' \in 0..MaxFaults
  BY Bounds, Counts
<1>7. edits < MaxEdits /\ edits' = edits + 1 => edits' \in 0..MaxEdits
  BY Bounds, Counts
<1>8. changes < MaxChanges /\ changes' = changes + 1 =>
         changes' \in 0..MaxChanges
  BY Bounds, Counts
<1>. QED  BY <1>1, <1>2, <1>3, <1>4, <1>5, <1>6, <1>7, <1>8

\* The steps between reading the resource and writing its status.
Calls ==
    GetSecret \/ GetTarget \/ GetServiceAccount \/ ListSecrets \/ CreateTarget

\* What such a step is: on to the next call, or a new status.
LEMMA CallCases ==
    ASSUME TypeOK, Calls
    PROVE  /\ \/ \E step \in PCs \ {"idle"} : Goto(step)
              \/ \E s \in States, m \in Messages, b \in BOOLEAN :
                    /\ UpdateState(s, m, b)
                    /\ s = "complete" =>
                          \/ target # "" /\ UNCHANGED target
                          \/ pc = "CreateTarget" /\ target' = local.account
           /\ pc # "idle"
           /\ Ok \/ Fault
           /\ UNCHANGED <<surroundings, edits, changes>>
           /\ target' \in {target, local.account}
<1>. USE DEF RetryLater
<1>0. pc \in Messages
  BY DEF TypeOK, Messages
<1>1. CASE GetSecret
  <2>1. \/ Goto("GetTarget")
        \/ UpdateState("retrying", "absent", TRUE)
        \/ UpdateState("error", "unusable", FALSE)
        \/ UpdateState("error", pc, FALSE)
    BY <1>1 DEF GetSecret
  <2>2. "absent" \in Messages /\ "unusable" \in Messages
    BY DEF Messages, Secret
  <2>. QED  BY <1>0, <1>1, <2>1, <2>2 DEF GetSecret, PCs, States
<1>2. CASE GetTarget
  <2>1. \/ Goto("GetServiceAccount")
        \/ UpdateState("complete", pc, FALSE) /\ target # ""
        \/ UpdateState("retrying", pc, TRUE)
    BY <1>2 DEF GetTarget
  <2>. QED  BY <1>0, <1>2, <2>1 DEF GetTarget, PCs, States
<1>3. CASE GetServiceAccount
  <2>1. \/ Goto("ListSecrets")
        \/ UpdateState("retrying", "no account", TRUE)
        \/ UpdateState("error", pc, FALSE)
    BY <1>3 DEF GetServiceAccount
  <2>2. "no account" \in Messages
    BY DEF Messages, Token
  <2>. QED  BY <1>0, <1>3, <2>1, <2>2 DEF GetServiceAccount, PCs, States
<1>4. CASE ListSecrets
  <2>1. \/ Goto("CreateTarget")
        \/ \E token \in Token : UpdateState("retrying", token, TRUE)
        \/ UpdateState("error", "no ca", FALSE)
        \/ UpdateState("retrying", pc, TRUE)
    BY <1>4 DEF ListSecrets, Token
  <2>2. Token \subseteq Messages /\ "no ca" \in Messages
    BY DEF Messages, Token
  <2>. QED  BY <1>0, <1>4, <2>1, <2>2 DEF ListSecrets, PCs, States
<1>5. CASE CreateTarget
  <2>1. \/ UpdateState("complete", pc, FALSE) /\ target' = local.account
        \/ UpdateState("retrying", pc, TRUE)
    BY <1>5 DEF CreateTarget
  <2>2. target' \in {target, local.account}
    BY <1>5 DEF CreateTarget
  <2>. QED  BY <1>0, <1>5, <2>1, <2>2 DEF CreateTarget, States
<1>. QED  BY <1>1, <1>2, <1>3, <1>4, <1>5 DEF Calls

\* What a user writes is an object.
LEMMA UserObject ==
    ASSUME NEW account \in Accounts
    PROVE  [Gone EXCEPT !.exists = TRUE, !.account = account] \in Config
BY ObjectType, GoneFacts

\* Every step of the specification keeps the types.
LEMMA TypeNext == TypeOK /\ [Next]_vars => TypeOK'
<1>. SUFFICES ASSUME TypeOK, [Next]_vars PROVE TypeOK'
  OBVIOUS
<1>. USE EndsType, GoneFacts, HelperTypes
<1>0. target \in Accounts \cup {""} /\ local.account \in Accounts \cup {""}
  BY ObjectType DEF TypeOK
<1>1. CASE Reconcile
  <2>1. LogTypeOK' /\ RestTypeOK'
    BY <1>0, <1>1 DEF Reconcile
  <2>2. CtlTypeOK'
    BY <1>1 DEF Reconcile, TypeOK, CtlTypeOK, PCs
  <2>. QED  BY <2>1, <2>2, TypeParts
<1>2. CASE Calls
  <2>1. target' \in Accounts \cup {""}
    BY <1>0, <1>2, CallCases
  <2>2. RestTypeOK'
    BY <1>2, <2>1, CallCases
  <2>3. LogTypeOK' /\ CtlTypeOK'
    BY <1>2, CallCases
  <2>. QED  BY <2>2, <2>3, TypeParts
<1>3. CASE UpdateStatus
  <2>1. again \in BOOLEAN
    BY DEF TypeOK
  <2>2. LogTypeOK'
    BY <1>3, UpdateStatusFacts, WithStatusFacts, WriteFacts DEF LogTypeOK
  <2>3. CtlTypeOK'
    BY <1>3, <2>1, UpdateStatusFacts
  <2>4. RestTypeOK'
    BY <1>0, <1>3 DEF UpdateStatus
  <2>. QED  BY <2>2, <2>3, <2>4, TypeParts
<1>4. CASE Deliver
  <2>1. LogTypeOK'
    BY <1>4, DeliverFacts DEF LogTypeOK
  <2>2. CtlTypeOK' /\ RestTypeOK'
    BY <1>4 DEF Deliver, TypeOK, CtlTypeOK, RestTypeOK, surroundings
  <2>. QED  BY <2>1, <2>2, TypeParts
<1>5. CASE Crash
  <2>1. LogTypeOK'
    BY <1>5, CrashFacts DEF LogTypeOK
  <2>2. CtlTypeOK'
    BY <1>5 DEF Crash, CtlTypeOK, PCs, Config
  <2>3. RestTypeOK'
    BY <1>5 DEF Crash, TypeOK, RestTypeOK, surroundings
  <2>. QED  BY <2>1, <2>2, <2>3, TypeParts
<1>6. ASSUME NEW obj \in Config, UserWrites(obj) PROVE TypeOK'
  <2>1. LogTypeOK'
    BY <1>6, WriteFacts DEF LogTypeOK, UserWrites
  <2>2. CtlTypeOK'
    BY <1>6 DEF UserWrites, KeepsFresh, TypeOK, CtlTypeOK
  <2>3. edits' \in 0..MaxEdits
    BY <1>6 DEF UserWrites
  <2>4. RestTypeOK'
    BY <1>6, <2>3 DEF UserWrites, TypeOK, RestTypeOK, surroundings
  <2>. QED  BY <2>1, <2>2, <2>4, TypeParts
<1>7. ASSUME NEW account \in Accounts, UserCreates(account) PROVE TypeOK'
  BY <1>6, <1>7, UserObject DEF UserCreates
<1>8. CASE UserDeletes
  BY <1>6, <1>8 DEF UserDeletes
<1>9. ASSUME NEW new \in Secret, KubeconfigChanges(new) PROVE TypeOK'
  <2>1. changes' \in 0..MaxChanges
    BY <1>9 DEF KubeconfigChanges
  <2>. QED  BY <1>9, <2>1 DEF KubeconfigChanges, TypeOK
<1>10. ASSUME NEW account \in Accounts, NEW new \in Token,
              TokenChanges(account, new)
       PROVE  TypeOK'
  <2>1. changes' \in 0..MaxChanges
    BY <1>10 DEF TokenChanges
  <2>2. tokens' \in [Accounts -> Token]
    BY <1>10 DEF TokenChanges, TypeOK
  <2>. QED  BY <1>10, <2>1, <2>2 DEF TokenChanges, TypeOK
<1>11. CASE TimerFires
  BY <1>11 DEF TimerFires, TypeOK, surroundings
<1>12. CASE UNCHANGED vars
  BY <1>12 DEF vars, TypeOK
<1>. QED
  BY <1>1, <1>2, <1>3, <1>4, <1>5, <1>7, <1>8, <1>9, <1>10, <1>11, <1>12
     DEF Next, Step, Calls

\* The initial states have their types.
LEMMA TypeInit == Init => TypeOK
<1>. SUFFICES ASSUME Init PROVE TypeOK
  OBVIOUS
<1>1. log = <<Gone>>
  BY DEF Init
<1>2. log \in Seq(Config) /\ Len(log) = 1
  BY <1>1, SingleShape, GoneFacts
<1>3. Len(log) \in 1..MaxLag + 1
  BY <1>2, Bounds
<1>4. faults \in 0..MaxFaults /\ edits \in 0..MaxEdits
         /\ changes \in 0..MaxChanges
  <2>1. faults = 0 /\ edits = 0 /\ changes = 0
    BY DEF Init
  <2>. QED  BY <2>1, Bounds
<1>. QED  BY <1>2, <1>3, <1>4, GoneFacts DEF Init, TypeOK, PCs

\* Every variable keeps its type in every behaviour of the controller.
THEOREM TypeCorrect == Spec => []TypeOK
BY TypeInit, TypeNext, PTL DEF Spec

----------------------------------------------------------------------------
(* The inductive invariant *)

\* A target secret that was made stays, and the account it is made for is
\* one.
LEMMA TargetStays ==
    ASSUME IndInv, [Next]_vars
    PROVE  /\ target # "" => target' # ""
           /\ pc = "CreateTarget" => local.account # ""
<1>1. pc # "idle" => local.account # ""
  BY ConstantsAssumption DEF IndInv, VersionsInv, CopyInv, BackedBy
<1>2. CASE Calls
  BY <1>1, <1>2, CallCases DEF IndInv
<1>3. CASE ~Calls
  <2>1. UNCHANGED target
    BY <1>3 DEF Calls, Next, Step, Deliver, TimerFires, Reconcile,
         UpdateStatus, Crash, UserCreates, UserDeletes, UserWrites,
         KubeconfigChanges, TokenChanges, vars
  <2>. QED  BY <1>1, <2>1
<1>. QED  BY <1>1, <1>2, <1>3

\* What the versions say stays true when target secrets are made.
LEMMA BackedStays ==
    ASSUME NEW obj, NEW old, NEW new, BackedBy(obj, old), old # "" => new # ""
    PROVE  BackedBy(obj, new)
BY DEF BackedBy

\* Every step keeps what the versions and the copy say.
LEMMA VersionsNext ==
    ASSUME IndInv, [Next]_vars
    PROVE  VersionsInv'
<1>. USE EndsType, TargetStays DEF IndInv
<1>1. ASSUME UNCHANGED log
      PROVE  \A i \in DOMAIN log' : BackedBy(log'[i], target')
  BY <1>1, BackedStays DEF VersionsInv
<1>2. ASSUME UNCHANGED local PROVE BackedBy(local', target')
  BY <1>2, BackedStays DEF VersionsInv
<1>3. ASSUME local' = Gone PROVE BackedBy(local', target')
  BY <1>3, GoneFacts
<1>4. ASSUME NEW obj \in Config, Write(obj), BackedBy(obj, target')
      PROVE  \A i \in DOMAIN log' : BackedBy(log'[i], target')
  BY <1>4, WriteFacts, BackedStays DEF VersionsInv
<1>5. CASE Reconcile
  <2>1. BackedBy(Cached, target')
    BY BackedStays DEF VersionsInv, Cached
  <2>2. UNCHANGED log /\ (local' = local \/ local' = Cached)
    BY <1>5 DEF Reconcile
  <2>. QED  BY <1>1, <1>2, <2>1, <2>2 DEF VersionsInv
<1>6. CASE Calls
  <2>1. CASE \E step : Goto(step)
    BY <1>1, <1>2, <2>1 DEF Goto, VersionsInv
  <2>2. ASSUME NEW s \in States, NEW m \in Messages, NEW b \in BOOLEAN,
               UpdateState(s, m, b),
               s = "complete" => target' # ""
        PROVE  VersionsInv'
    <3>1. UNCHANGED log
      BY <2>2 DEF UpdateState
    <3>2. CASE local' = Gone
      BY <1>1, <1>3, <3>1, <3>2 DEF VersionsInv
    <3>3. CASE local' = [local EXCEPT !.state = s, !.msg = m]
      <4>1. /\ local'.exists = local.exists /\ local'.account = local.account
            /\ local'.state = s
        BY <3>3 DEF Config
      <4>2. BackedBy(local', target')
        BY <2>2, <4>1 DEF BackedBy, VersionsInv
      <4>. QED  BY <1>1, <3>1, <4>2 DEF VersionsInv
    <3>. QED  BY <2>2, <3>2, <3>3 DEF UpdateState, Return
  <2>. QED  BY <1>6, <2>1, <2>2, CallCases
<1>7. CASE UpdateStatus
  <2>1. local' = Gone /\ UNCHANGED target
    BY <1>7, UpdateStatusFacts DEF Return, UpdateStatus
  <2>2. BackedBy(Current, target)
    BY DEF VersionsInv, Current
  <2>3. BackedBy(WithStatus, target')
    BY <2>1, <2>2, WithStatusFacts DEF BackedBy, VersionsInv
  <2>4. \A i \in DOMAIN log' : BackedBy(log'[i], target')
    BY <1>1, <1>4, <1>7, <2>3, UpdateStatusFacts, WithStatusFacts
  <2>. QED  BY <1>3, <2>1, <2>4 DEF VersionsInv
<1>8. CASE Deliver
  <2>1. UNCHANGED local
    BY <1>8 DEF Deliver
  <2>2. \A i \in DOMAIN log' : BackedBy(log'[i], target')
    <3>. TAKE i \in DOMAIN log'
    <3>1. PICK j \in DOMAIN log : log'[i] = log[j]
      BY <1>8, DeliverFacts
    <3>2. BackedBy(log[j], target)
      BY DEF VersionsInv
    <3>. QED  BY <3>1, <3>2, BackedStays
  <2>. QED  BY <1>2, <2>1, <2>2 DEF VersionsInv
<1>9. CASE Crash
  <2>1. local' = Gone
    BY <1>9 DEF Crash
  <2>2. BackedBy(Current, target')
    BY BackedStays DEF VersionsInv, Current
  <2>3. \A i \in DOMAIN log' : BackedBy(log'[i], target')
    BY <1>9, <2>2, CrashFacts
  <2>. QED  BY <1>3, <2>1, <2>3 DEF VersionsInv
<1>10. ASSUME NEW account \in Accounts, UserCreates(account)
       PROVE  VersionsInv'
  <2>. DEFINE obj == [Gone EXCEPT !.exists = TRUE, !.account = account]
  <2>1. obj.account = account /\ obj.state = ""
    BY DEF Gone
  <2>2. BackedBy(obj, target')
    BY <2>1 DEF BackedBy
  <2>3. obj \in Config /\ Write(obj) /\ UNCHANGED local
    BY <1>10, UserObject DEF UserCreates, UserWrites
  <2>. QED  BY <1>2, <1>4, <2>2, <2>3 DEF VersionsInv
<1>11. CASE UserDeletes
  <2>1. Write(Gone) /\ UNCHANGED local
    BY <1>11 DEF UserDeletes, UserWrites
  <2>. QED  BY <1>2, <1>4, <2>1, GoneFacts DEF VersionsInv
<1>12. CASE UNCHANGED <<log, local>>
  BY <1>1, <1>2, <1>12 DEF VersionsInv
<1>. QED
  BY <1>5, <1>6, <1>7, <1>8, <1>9, <1>10, <1>11, <1>12
     DEF Next, Step, Calls, TimerFires, KubeconfigChanges, TokenChanges, vars

\* Every step keeps what is known of the copy.
LEMMA CopyNext ==
    ASSUME IndInv, [Next]_vars
    PROVE  CopyInv'
<1>. USE EndsType DEF IndInv
<1>1. CASE pc' = "idle" /\ fresh' = FALSE
  BY <1>1 DEF CopyInv
<1>2. CASE UNCHANGED <<log, pc, local, fresh>>
  BY <1>2 DEF CopyInv, Current
<1>3. CASE Reconcile
  <2>1. CASE UNCHANGED <<pc, local, fresh>>
    BY <1>2, <1>3, <2>1 DEF Reconcile
  <2>2. CASE /\ Cached.exists /\ Cached.state \notin {"complete", "error"}
             /\ pc' = "GetSecret" /\ local' = Cached
             /\ fresh' = (Len(log) = 1)
    <3>1. UNCHANGED log
      BY <1>3 DEF Reconcile
    <3>2. fresh' => Current' = Cached
      BY <2>2, <3>1 DEF Current, Cached
    <3>. QED  BY <2>2, <3>2 DEF CopyInv
  <2>. QED  BY <1>3, <2>1, <2>2 DEF Reconcile
<1>4. CASE Calls
  <2>1. pc # "idle"
    BY <1>4, CallCases
  <2>2. ASSUME NEW step \in PCs \ {"idle"}, Goto(step) PROVE CopyInv'
    BY <2>1, <2>2 DEF Goto, CopyInv, Current
  <2>3. ASSUME NEW s \in States, NEW m \in Messages, NEW b \in BOOLEAN,
               UpdateState(s, m, b)
        PROVE  CopyInv'
    <3>1. CASE Return(b)
      BY <1>1, <3>1 DEF Return
    <3>2. CASE /\ pc' = "UpdateStatus"
               /\ local' = [local EXCEPT !.state = s, !.msg = m]
               /\ UNCHANGED <<log, fresh>>
      <4>1. local'.exists = local.exists
        BY <3>2, StatusFields
      <4>. QED  BY <2>1, <3>2, <4>1 DEF CopyInv, Current
    <3>. QED  BY <2>3, <3>1, <3>2 DEF UpdateState
  <2>. QED  BY <1>4, <2>2, <2>3, CallCases
<1>5. CASE UpdateStatus
  BY <1>1, <1>5, UpdateStatusFacts DEF Return
<1>6. CASE Deliver
  BY <1>6, DeliverFacts DEF Deliver, CopyInv
<1>7. CASE Crash
  BY <1>1, <1>7 DEF Crash
<1>8. ASSUME NEW obj, UserWrites(obj) PROVE CopyInv'
  <2>1. UNCHANGED <<pc, local>> /\ fresh' = (fresh /\ log' = log)
    BY <1>8 DEF UserWrites, KeepsFresh
  <2>2. CASE log' = log
    BY <2>1, <2>2 DEF CopyInv, Current
  <2>3. CASE log' # log
    BY <2>1, <2>3 DEF CopyInv
  <2>. QED  BY <2>2, <2>3
<1>. QED
  BY <1>2, <1>3, <1>4, <1>5, <1>6, <1>7, <1>8
     DEF Next, Step, Calls, TimerFires, KubeconfigChanges, TokenChanges,
         UserCreates, UserDeletes, vars

----------------------------------------------------------------------------
(* The theorems *)

\* The inductive invariant holds in every behaviour.
THEOREM Invariance == Spec => []IndInv
<1>1. Init => IndInv
  <2>. SUFFICES ASSUME Init PROVE IndInv
    OBVIOUS
  <2>1. log = <<Gone>> /\ local = Gone /\ pc = "idle" /\ ~fresh
    BY DEF Init
  <2>2. DOMAIN log = {1} /\ log[1] = Gone
    BY <2>1, SingleShape, GoneFacts
  <2>. QED
    BY <2>1, <2>2, TypeInit, GoneFacts DEF IndInv, VersionsInv, CopyInv
<1>2. IndInv /\ [Next]_vars => IndInv'
  BY TypeNext, VersionsNext, CopyNext DEF IndInv
<1>. QED  BY <1>1, <1>2, PTL DEF Spec

\* A resource that says complete has its secret in the workload cluster,
\* whatever fails, crashes or is delivered late.
THEOREM CompleteIsDelivered == Spec => []CompleteMeansDelivered
<1>1. IndInv => CompleteMeansDelivered
  BY EndsType
     DEF IndInv, VersionsInv, BackedBy, CompleteMeansDelivered, Current
<1>. QED  BY <1>1, Invariance, PTL

\* No reconcile of an old version takes a final state back.
THEOREM FinalIsFinal == Spec => FinalStatesStay
<1>1. ASSUME IndInv, [Next]_vars,
             Current.exists, Current'.exists,
             Current.state \in {"complete", "error"}
      PROVE  Current'.state = Current.state
  <2>1. TypeOK /\ ~fresh
    BY <1>1 DEF IndInv, CopyInv
  <2>2. UNCHANGED log => Current' = Current
    BY DEF Current
  <2>3. CASE Calls
    BY <2>1, <2>2, <2>3, CallCases DEF Goto, UpdateState
  <2>4. CASE UpdateStatus
    BY <2>1, <2>2, <2>4, UpdateStatusFacts
  <2>5. CASE Deliver
    BY <2>1, <2>5, DeliverFacts
  <2>6. CASE Crash
    BY <2>1, <2>6, CrashFacts
  <2>7. ASSUME NEW obj \in Config, UserWrites(obj) PROVE FALSE
    <3>1. Current' = obj /\ Current.exists # obj.exists
      BY <2>1, <2>7, WriteFacts DEF UserWrites
    <3>2. Current.exists \in BOOLEAN /\ obj.exists \in BOOLEAN
      BY <2>1, EndsType, ObjectType
    <3>. QED  BY <1>1, <3>1, <3>2
  <2>8. ASSUME NEW account \in Accounts, UserCreates(account) PROVE FALSE
    BY <2>7, <2>8, UserObject DEF UserCreates
  <2>9. CASE UserDeletes
    BY <2>7, <2>9, GoneFacts DEF UserDeletes
  <2>. QED
    BY <1>1, <2>2, <2>3, <2>4, <2>5, <2>6, <2>8, <2>9
       DEF Next, Step, Calls, Reconcile, TimerFires, KubeconfigChanges,
           TokenChanges, vars
<1>2. IndInv /\ [Next]_vars =>
         [Current.exists /\ Current'.exists
            /\ Current.state \in {"complete", "error"}
               => Current'.state = Current.state]_vars
  BY <1>1
<1>. QED  BY <1>2, Invariance, PTL DEF Spec, FinalStatesStay
=============================================================================
