--------------------- MODULE ClusterRegistrationProofs ---------------------
(* Proofs about ClusterRegistration, for every value of its constants. *)
EXTENDS ClusterRegistration, TLAPS

----------------------------------------------------------------------------
(* The versions of a resource: what writes and deliveries do to them *)

(* The shape of the sequences *)

\* A sequence of versions, its first and its last one.
LEMMA Ends ==
    ASSUME NEW T, NEW s \in Seq(T), Len(s) >= 1
    PROVE  /\ Len(s) \in Nat
           /\ DOMAIN s = 1..Len(s)
           /\ 1 \in DOMAIN s /\ s[1] \in T
           /\ Len(s) \in DOMAIN s /\ s[Len(s)] \in T
           /\ \A i \in DOMAIN s : i < Len(s) \/ i = Len(s)
           /\ \A i \in DOMAIN s : i = 1 \/ 1 < i
OBVIOUS

\* After a relist there is one version.
LEMMA SingleShape ==
    ASSUME NEW T, NEW obj \in T
    PROVE  /\ <<obj>> \in Seq(T)
           /\ Len(<<obj>>) = 1
           /\ DOMAIN <<obj>> = {1}
           /\ <<obj>>[1] = obj
OBVIOUS

\* After a write.
LEMMA AppendShape ==
    ASSUME NEW T, NEW s \in Seq(T), Len(s) >= 1, NEW obj \in T
    PROVE  LET t == Append(s, obj) IN
           /\ t \in Seq(T) /\ Len(t) = Len(s) + 1
           /\ t[Len(t)] = obj /\ t[1] = s[1]
           /\ \A i \in DOMAIN s : i \in DOMAIN t /\ t[i] = s[i]
           /\ \A i \in DOMAIN t : i \in DOMAIN s \/ t[i] = obj
           /\ \A i, j \in DOMAIN t : i < j => i \in DOMAIN s
           /\ t # s
<1>. DEFINE t == Append(s, obj)
<1>1. /\ t \in Seq(T) /\ Len(t) = Len(s) + 1 /\ DOMAIN t = 1..(Len(s) + 1)
      /\ \A i \in 1..Len(s) : t[i] = s[i]
      /\ t[Len(s) + 1] = obj
  OBVIOUS
<1>2. Len(s) \in Nat /\ DOMAIN s = 1..Len(s)
  OBVIOUS
<1>3. t[Len(t)] = obj
  BY <1>1
<1>4. t[1] = s[1] /\ \A i \in DOMAIN s : i \in DOMAIN t /\ t[i] = s[i]
  BY <1>1, <1>2
<1>5. \A i \in DOMAIN t : i \in DOMAIN s \/ t[i] = obj
  <2>1. \A i \in DOMAIN t : i \in DOMAIN s \/ i = Len(s) + 1
    BY <1>1, <1>2
  <2>. QED  BY <1>1, <2>1
<1>6. \A i, j \in DOMAIN t : i < j => i \in DOMAIN s
  BY <1>1, <1>2
<1>7. t # s
  <2>1. \A n \in Nat : n + 1 # n
    OBVIOUS
  <2>2. Len(t) # Len(s)
    BY <1>1, <1>2, <2>1, Zenon
  <2>. QED  BY <2>2, Zenon
<1>. QED  BY <1>1, <1>3, <1>4, <1>5, <1>6, <1>7

\* After a delivery.
LEMMA TailShape ==
    ASSUME NEW T, NEW s \in Seq(T), Len(s) > 1
    PROVE  LET t == Tail(s) IN
           /\ t \in Seq(T) /\ Len(t) = Len(s) - 1 /\ Len(t) >= 1
           /\ t[Len(t)] = s[Len(s)]
           /\ 2 \in DOMAIN s /\ t[1] = s[2]
           /\ \A i \in DOMAIN t : i + 1 \in DOMAIN s /\ t[i] = s[i + 1]
           /\ \A i \in DOMAIN t : i = 1 \/ 2 < i + 1
           /\ \A i, j \in DOMAIN t : i < j => i + 1 < j + 1 /\ 1 < i + 1
<1>. DEFINE t == Tail(s)
<1>1. /\ t \in Seq(T) /\ Len(t) = Len(s) - 1 /\ DOMAIN t = 1..(Len(s) - 1)
      /\ \A i \in 1..(Len(s) - 1) : t[i] = s[i + 1]
      /\ Len(s) \in Nat /\ DOMAIN s = 1..Len(s)
  OBVIOUS
<1>2. t[Len(t)] = s[Len(s)] /\ t[1] = s[2] /\ 2 \in DOMAIN s
  BY <1>1
<1>3. \A i \in DOMAIN t : i + 1 \in DOMAIN s /\ t[i] = s[i + 1]
  BY <1>1
<1>4. /\ \A i \in DOMAIN t : i = 1 \/ 2 < i + 1
      /\ \A i, j \in DOMAIN t : i < j => i + 1 < j + 1 /\ 1 < i + 1
  BY <1>1
<1>. QED  BY <1>1, <1>2, <1>3, <1>4

----------------------------------------------------------------------------
(* What may follow *)

\* The last version may be repeated.
LEMMA LastFollows ==
    ASSUME NEW T, NEW s \in Seq(T), Len(s) >= 1, Ordered(s)
    PROVE  /\ Follows(s, s[Len(s)])
           /\ \A copy : Agrees(copy, s) => AgreesWith(copy, s, s[Len(s)])
<1>. USE Ends
<1>. DEFINE last == s[Len(s)]
<1>1. Sound(last)
  BY DEF Ordered
<1>2. Follows(s, last)
  BY <1>1 DEF Ordered, Follows, Sound, Claimed, Live
<1>3. ASSUME NEW copy, Agrees(copy, s) PROVE AgreesWith(copy, s, last)
  BY <1>1, <1>3 DEF Ordered, Agrees, AgreesWith, Sound, Claimed, Live
<1>. QED  BY <1>2, <1>3

\* So may any change that keeps existence, deletion mark and finalizer.
LEMMA SameMetaFollows ==
    ASSUME NEW T, NEW s \in Seq(T), Len(s) >= 1, Ordered(s),
           NEW obj, SameMeta(obj, s[Len(s)])
    PROVE  /\ Follows(s, obj)
           /\ \A copy : Agrees(copy, s) => AgreesWith(copy, s, obj)
BY LastFollows DEF SameMeta, Follows, AgreesWith, Sound, Claimed, Live

\* An unclaimed object may become another unclaimed one, or go away.
LEMMA UnclaimedFollows ==
    ASSUME NEW T, NEW s \in Seq(T), Len(s) >= 1, Ordered(s),
           NEW obj, ~obj.deleting, ~Claimed(obj), ~Claimed(s[Len(s)])
    PROVE  /\ Follows(s, obj)
           /\ \A copy : Agrees(copy, s) => AgreesWith(copy, s, obj)
BY LastFollows DEF Follows, AgreesWith, Sound, Live

\* A live object may be marked for deletion.
LEMMA DyingFollows ==
    ASSUME NEW T, NEW s \in Seq(T), Len(s) >= 1, Ordered(s),
           NEW obj, Claimed(obj), obj.deleting, Live(s[Len(s)])
    PROVE  /\ Follows(s, obj)
           /\ \A copy : Agrees(copy, s) => AgreesWith(copy, s, obj)
<1>1. Claimed(s[Len(s)]) /\ ~Live(obj)
  BY DEF Live
<1>2. \A copy : Agrees(copy, s) => ~copy.deleting
  BY Ends DEF Agrees
<1>. QED  BY <1>1, <1>2, LastFollows DEF Follows, AgreesWith, Sound

\* A controller that acts upon a copy without the finalizer may put it on.
LEMMA ClaimFollows ==
    ASSUME NEW T, NEW s \in Seq(T), Len(s) >= 1, Ordered(s),
           NEW copy, Agrees(copy, s), copy.exists, ~copy.finalizer,
           ~Claimed(s[Len(s)]), NEW obj, Live(obj)
    PROVE  Follows(s, obj)
<1>1. \A i \in DOMAIN s : ~s[i].deleting
  BY Ends DEF Agrees, Ordered, Sound
<1>. QED  BY <1>1 DEF Follows, Sound, Live

\* One that acts upon a copy being deleted may take it away.
LEMMA ReleaseFollows ==
    ASSUME NEW s, NEW copy, Agrees(copy, s), copy.deleting,
           NEW obj, ~Claimed(obj), ~obj.deleting
    PROVE  Follows(s, obj)
BY DEF Agrees, Follows, Sound, Live

----------------------------------------------------------------------------
(* The order and the agreement are kept *)

\* A copy that has just been taken agrees.
LEMMA CopyAgrees ==
    ASSUME NEW T, NEW s \in Seq(T), Len(s) >= 1, Ordered(s)
    PROVE  Agrees(s[1], s)
<1>. USE Ends
<1>1. Sound(s[1])
  BY DEF Ordered
<1>2. Live(s[1]) => Claimed(s[Len(s)])
  BY DEF Ordered, Live
<1>3. s[1].deleting => \A i \in DOMAIN s : ~Live(s[i])
  BY DEF Ordered, Live
<1>4. s[1].exists /\ ~s[1].finalizer => ~s[1].deleting
  BY <1>1 DEF Sound, Claimed
<1>. QED  BY <1>1, <1>2, <1>3, <1>4 DEF Agrees, Ordered

\* One version is in order.
LEMMA SingleOrdered ==
    ASSUME NEW T, NEW obj \in T, Sound(obj)
    PROVE  Ordered(<<obj>>)
<1>1. \A i, j \in DOMAIN <<obj>> : ~(i < j)
  BY SingleShape
<1>. QED  BY <1>1, SingleShape DEF Ordered

\* A write keeps the order.
LEMMA AppendOrdered ==
    ASSUME NEW T, NEW s \in Seq(T), Len(s) >= 1, Ordered(s),
           NEW obj \in T, Follows(s, obj)
    PROVE  Ordered(Append(s, obj))
<1>. DEFINE t == Append(s, obj)
<1>1. /\ t[1] = s[1]
      /\ \A i \in DOMAIN s : t[i] = s[i]
      /\ \A i \in DOMAIN t : i \in DOMAIN s \/ t[i] = obj
      /\ \A i, j \in DOMAIN t : i < j => i \in DOMAIN s
  BY AppendShape
<1>. HIDE DEF t
<1>2. \A i \in DOMAIN t : Sound(t[i])
  BY <1>1 DEF Ordered, Follows
<1>3. \A i, j \in DOMAIN t : i < j /\ Live(t[i]) => Claimed(t[j])
  BY <1>1 DEF Ordered, Follows
<1>4. \A i, j \in DOMAIN t : i < j /\ t[i].deleting => ~Live(t[j])
  BY <1>1 DEF Ordered, Follows
<1>5. \A i, j, k \in DOMAIN t :
         i < j /\ j < k /\ t[i].deleting /\ ~Claimed(t[j]) => ~Claimed(t[k])
  BY <1>1 DEF Ordered, Follows
<1>6. ~t[1].deleting =>
         \A i, j \in DOMAIN t : i < j /\ t[i].deleting => Claimed(t[j])
  BY <1>1 DEF Ordered, Follows
<1>7. Ordered(t)
  BY <1>2, <1>3, <1>4, <1>5, <1>6 DEF Ordered
<1>. QED  BY <1>7 DEF t

\* And the agreement.
LEMMA AppendAgrees ==
    ASSUME NEW T, NEW s \in Seq(T), Len(s) >= 1,
           NEW copy, Agrees(copy, s), NEW obj \in T, AgreesWith(copy, s, obj)
    PROVE  Agrees(copy, Append(s, obj))
<1>. DEFINE t == Append(s, obj)
<1>1. /\ t[1] = s[1] /\ t[Len(t)] = obj
      /\ \A i \in DOMAIN s : t[i] = s[i]
      /\ \A i \in DOMAIN t : i \in DOMAIN s \/ t[i] = obj
      /\ \A i, j \in DOMAIN t : i < j => i \in DOMAIN s
  BY AppendShape
<1>. HIDE DEF t
<1>2. Live(copy) => Claimed(t[Len(t)])
  BY <1>1 DEF AgreesWith
<1>3. copy.deleting => \A i \in DOMAIN t : ~Live(t[i])
  BY <1>1 DEF Agrees, AgreesWith
<1>4. copy.deleting /\ ~t[1].deleting => \A i \in DOMAIN t : ~t[i].deleting
  BY <1>1 DEF Agrees, AgreesWith
<1>5. copy.exists /\ ~copy.finalizer =>
         \A i, j \in DOMAIN t : i < j /\ t[i].deleting => Claimed(t[j])
  BY <1>1 DEF Agrees, AgreesWith
<1>6. Agrees(copy, t)
  BY <1>2, <1>3, <1>4, <1>5 DEF Agrees
<1>. QED  BY <1>6 DEF t

\* A delivery from a life that has ended: nothing claimed follows.
LEMMA EndedLife ==
    ASSUME NEW T, NEW s \in Seq(T), Len(s) > 1, Ordered(s),
           s[1].deleting, ~s[2].deleting
    PROVE  /\ 2 \in DOMAIN s /\ ~Claimed(s[2])
           /\ \A k \in DOMAIN s : 2 < k => ~Claimed(s[k]) /\ ~s[k].deleting
<1>1. 1 \in DOMAIN s /\ 2 \in DOMAIN s
  OBVIOUS
<1>2. ~Claimed(s[2])
  BY <1>1 DEF Ordered, Live
<1>3. \A k \in DOMAIN s : 2 < k => ~Claimed(s[k])
  BY <1>1, <1>2 DEF Ordered
<1>. QED  BY <1>1, <1>2, <1>3 DEF Ordered, Sound

\* A delivery keeps the order.
LEMMA TailOrdered ==
    ASSUME NEW T, NEW s \in Seq(T), Len(s) > 1, Ordered(s)
    PROVE  Ordered(Tail(s))
<1>. DEFINE t == Tail(s)
<1>1. /\ 2 \in DOMAIN s /\ t[1] = s[2]
      /\ \A i \in DOMAIN t : i + 1 \in DOMAIN s /\ t[i] = s[i + 1]
      /\ \A i \in DOMAIN t : i = 1 \/ 2 < i + 1
      /\ \A i, j \in DOMAIN t : i < j => i + 1 < j + 1
  BY TailShape
<1>. HIDE DEF t
<1>2. \A i \in DOMAIN t : Sound(t[i])
  BY <1>1 DEF Ordered
<1>3. \A i, j \in DOMAIN t : i < j /\ Live(t[i]) => Claimed(t[j])
  BY <1>1 DEF Ordered
<1>4. \A i, j \in DOMAIN t : i < j /\ t[i].deleting => ~Live(t[j])
  BY <1>1 DEF Ordered
<1>5. \A i, j, k \in DOMAIN t :
         i < j /\ j < k /\ t[i].deleting /\ ~Claimed(t[j]) => ~Claimed(t[k])
  BY <1>1 DEF Ordered
<1>6. ASSUME ~t[1].deleting, NEW i \in DOMAIN t, NEW j \in DOMAIN t, i < j,
             t[i].deleting
      PROVE  Claimed(t[j])
  <2>1. /\ i + 1 \in DOMAIN s /\ j + 1 \in DOMAIN s /\ i + 1 < j + 1
        /\ t[i] = s[i + 1] /\ t[j] = s[j + 1]
        /\ i = 1 \/ 2 < i + 1
    BY <1>1, <1>6
  <2>2. CASE ~s[1].deleting
    BY <1>6, <2>1, <2>2 DEF Ordered
  <2>3. CASE s[1].deleting
    BY <1>1, <1>6, <2>1, <2>3, EndedLife
  <2>. QED  BY <2>2, <2>3
<1>7. Ordered(t)
  BY <1>2, <1>3, <1>4, <1>5, <1>6 DEF Ordered
<1>. QED  BY <1>7 DEF t

\* And the agreement.
LEMMA TailAgrees ==
    ASSUME NEW T, NEW s \in Seq(T), Len(s) > 1, Ordered(s),
           NEW copy, Agrees(copy, s)
    PROVE  Agrees(copy, Tail(s))
<1>. DEFINE t == Tail(s)
<1>1. /\ t[Len(t)] = s[Len(s)] /\ t[1] = s[2]
      /\ \A i \in DOMAIN t : i + 1 \in DOMAIN s /\ t[i] = s[i + 1]
      /\ \A i \in DOMAIN t : i = 1 \/ 2 < i + 1
      /\ \A i, j \in DOMAIN t : i < j => i + 1 < j + 1
  BY TailShape
<1>. HIDE DEF t
<1>2. Live(copy) => Claimed(t[Len(t)])
  BY <1>1 DEF Agrees
<1>3. copy.deleting => \A i \in DOMAIN t : ~Live(t[i])
  BY <1>1 DEF Agrees
<1>4. ASSUME copy.deleting, ~t[1].deleting, NEW i \in DOMAIN t
      PROVE  ~t[i].deleting
  <2>1. i + 1 \in DOMAIN s /\ t[i] = s[i + 1] /\ (i = 1 \/ 2 < i + 1)
    BY <1>1
  <2>2. CASE ~s[1].deleting
    BY <1>4, <2>1, <2>2 DEF Agrees
  <2>3. CASE s[1].deleting
    BY <1>1, <1>4, <2>1, <2>3, EndedLife
  <2>. QED  BY <2>2, <2>3
<1>5. copy.exists /\ ~copy.finalizer =>
         \A i, j \in DOMAIN t : i < j /\ t[i].deleting => Claimed(t[j])
  BY <1>1 DEF Agrees
<1>6. Agrees(copy, t)
  BY <1>2, <1>3, <1>4, <1>5 DEF Agrees
<1>. QED  BY <1>6 DEF t

\* A copy whose metadata did not change keeps its agreement.
LEMMA SameMetaAgrees ==
    ASSUME NEW s, NEW a, NEW b, SameMeta(a, b), Agrees(b, s)
    PROVE  Agrees(a, s)
BY DEF SameMeta, Agrees, Sound, Live, Claimed

----------------------------------------------------------------------------
(* Facts about the data *)

\* The cached and the current version are objects.
LEMMA EndsType ==
    ASSUME TypeOK
    PROVE  /\ log \in Seq(Registration) /\ Len(log) >= 1 /\ Len(log) \in Nat
           /\ Cached \in Registration /\ Current \in Registration
           /\ local \in Registration
           /\ DOMAIN log = 1..Len(log)
           /\ 1 \in DOMAIN log /\ Len(log) \in DOMAIN log
<1>1. log \in Seq(Registration) /\ Len(log) >= 1
  BY ConstantsAssumption DEF TypeOK
<1>. QED  BY <1>1, Ends DEF TypeOK, Cached, Current

\* Changing fields of an object within their types keeps its type.
LEMMA ObjectType ==
    ASSUME NEW obj \in Registration
    PROVE  /\ \A s \in States, m \in PCs \cup {""} :
                [obj EXCEPT !.state = s, !.msg = m] \in Registration
           /\ \A b \in BOOLEAN :
                /\ [obj EXCEPT !.finalizer = b] \in Registration
                /\ [obj EXCEPT !.deleting = b] \in Registration
           /\ \A a, b \in BOOLEAN :
                [obj EXCEPT !.exists = TRUE, !.named = a, !.valid = b]
                    \in Registration
           /\ obj.state \in States /\ obj.msg \in PCs \cup {""}
           /\ obj.finalizer \in BOOLEAN /\ obj.deleting \in BOOLEAN
BY DEF Registration

\* The absent object.
LEMMA GoneFacts ==
    /\ Gone \in Registration
    /\ ~Gone.exists /\ ~Gone.deleting /\ ~Claimed(Gone) /\ ~Live(Gone)
    /\ Gone.state = "" /\ Sound(Gone)
BY DEF Gone, Registration, States, Claimed, Live, Sound

\* What the finalizer patch and the status update write.
Patched(on) ==
    IF Current.deleting /\ ~on THEN Gone ELSE [Current EXCEPT !.finalizer = on]
WithStatus == [Current EXCEPT !.state = local.state, !.msg = local.msg]

\* The helpers of the reconciler by what they do to the log.
LEMMA Helpers ==
    /\ \A on : PatchFinalizer(on) =>
          /\ \/ UNCHANGED log
             \/ Current.exists /\ Write(Patched(on))
          /\ Return(TRUE) \/ Return(FALSE)
    /\ UpdateStatus =>
          /\ \/ UNCHANGED log
             \/ fresh /\ Write(WithStatus)
          /\ Return(TRUE) \/ Return(again)
<1>1. ASSUME NEW on, PatchFinalizer(on)
      PROVE  /\ \/ UNCHANGED log
                \/ Current.exists /\ Write(Patched(on))
             /\ Return(TRUE) \/ Return(FALSE)
  BY <1>1 DEF PatchFinalizer, Patched
<1>2. ASSUME UpdateStatus
      PROVE  /\ \/ UNCHANGED log
                \/ fresh /\ Write(WithStatus)
             /\ Return(TRUE) \/ Return(again)
  BY <1>2 DEF UpdateStatus, WithStatus
<1>. QED  BY <1>1, <1>2

\* What a write does.
LEMMA WriteFacts ==
    ASSUME TypeOK, NEW obj \in Registration, Write(obj)
    PROVE  /\ log' \in Seq(Registration) /\ Len(log') \in 1..MaxLag + 1
           /\ Current' = obj
           /\ \A i \in DOMAIN log' :
                 (i \in DOMAIN log /\ log'[i] = log[i]) \/ log'[i] = obj
           /\ Ordered(log) /\ Follows(log, obj) => Ordered(log')
           /\ \A copy : Agrees(copy, log) /\ AgreesWith(copy, log, obj)
                 => Agrees(copy, log')
<1>0. /\ log \in Seq(Registration) /\ Len(log) \in Nat /\ Len(log) >= 1
      /\ Len(log) \in DOMAIN log /\ Len(log) \in 1..MaxLag + 1
  BY EndsType DEF TypeOK
<1>1. CASE obj = Current
  <2>1. log' = log
    BY <1>1 DEF Write
  <2>2. /\ Current' = obj
        /\ \A i \in DOMAIN log' : i \in DOMAIN log /\ log'[i] = log[i]
    BY <1>1, <2>1 DEF Current
  <2>3. log' \in Seq(Registration) /\ Len(log') \in 1..MaxLag + 1
    BY <1>0, <2>1
  <2>4. Ordered(log) => Ordered(log')
    BY <2>1
  <2>5. \A copy : Agrees(copy, log) => Agrees(copy, log')
    BY <2>1
  <2>. QED  BY <2>1, <2>2, <2>3, <2>4, <2>5
<1>2. CASE obj # Current
  <2>1. log' = Append(log, obj) /\ Len(log) <= MaxLag
    BY <1>2 DEF Write
  <2>2. /\ log' \in Seq(Registration) /\ Len(log') = Len(log) + 1
        /\ log'[Len(log')] = obj
        /\ \A i \in DOMAIN log : log'[i] = log[i]
        /\ \A i \in DOMAIN log' : i \in DOMAIN log \/ log'[i] = obj
    BY <1>0, <2>1, AppendShape
  <2>4. Len(log') \in 1..MaxLag + 1
    BY <1>0, <2>1, <2>2, ConstantsAssumption
  <2>5. Current' = obj
    BY <2>2 DEF Current
  <2>6. Ordered(log) /\ Follows(log, obj) => Ordered(log')
    BY <1>0, <2>1, AppendOrdered
  <2>7. \A copy : Agrees(copy, log) /\ AgreesWith(copy, log, obj)
           => Agrees(copy, log')
    BY <1>0, <2>1, AppendAgrees
  <2>. QED  BY <2>1, <2>2, <2>4, <2>5, <2>6, <2>7
<1>. QED  BY <1>1, <1>2

\* What a delivery does.
LEMMA DeliverFacts ==
    ASSUME TypeOK, Deliver
    PROVE  /\ log' \in Seq(Registration) /\ Len(log') \in 1..MaxLag + 1
           /\ Current' = Current
           /\ \A i \in DOMAIN log' : \E j \in DOMAIN log : log'[i] = log[j]
           /\ Ordered(log) => Ordered(log')
           /\ \A copy : Ordered(log) /\ Agrees(copy, log) => Agrees(copy, log')
<1>. USE EndsType
<1>1. log' = Tail(log) /\ Len(log) > 1
  BY DEF Deliver
<1>2. /\ log' \in Seq(Registration)
      /\ Len(log') = Len(log) - 1 /\ Len(log') >= 1
      /\ log'[Len(log')] = log[Len(log)]
      /\ \A i \in DOMAIN log' : i + 1 \in DOMAIN log /\ log'[i] = log[i + 1]
  BY <1>1, TailShape
<1>3. Len(log') \in 1..MaxLag + 1
  BY <1>2, ConstantsAssumption DEF TypeOK
<1>. QED  BY <1>1, <1>2, <1>3, TailOrdered, TailAgrees DEF Current

\* What a relist does.
LEMMA CrashFacts ==
    ASSUME TypeOK, Crash
    PROVE  /\ log' \in Seq(Registration) /\ Len(log') \in 1..MaxLag + 1
           /\ Current' = Current
           /\ \A i \in DOMAIN log' : log'[i] = Current
           /\ Ordered(log) => Ordered(log')
<1>. USE EndsType
<1>1. log' = <<Current>>
  BY DEF Crash
<1>2. /\ log' \in Seq(Registration) /\ Len(log') = 1 /\ DOMAIN log' = {1}
      /\ log'[1] = Current
  BY <1>1, SingleShape
<1>3. Len(log') \in 1..MaxLag + 1
  BY <1>2, ConstantsAssumption
<1>4. Ordered(log) => Sound(Current)
  BY DEF Ordered, Current
<1>. QED  BY <1>1, <1>2, <1>3, <1>4, SingleOrdered DEF Current

----------------------------------------------------------------------------
(* Type correctness *)

LogTypeOK ==
    /\ log \in Seq(Registration)
    /\ Len(log) \in 1..MaxLag + 1

CtlTypeOK ==
    /\ queued \in BOOLEAN
    /\ timer \in BOOLEAN
    /\ pc \in PCs
    /\ local \in Registration
    /\ fresh \in BOOLEAN
    /\ again \in BOOLEAN

RestTypeOK ==
    /\ secret \in Secret
    /\ registered \in BOOLEAN
    /\ missed \in BOOLEAN
    /\ edits \in 0..MaxEdits
    /\ faults \in 0..MaxFaults

\* The type invariant by parts.
LEMMA TypeParts ==
    /\ TypeOK => LogTypeOK /\ CtlTypeOK /\ RestTypeOK
    /\ LogTypeOK' /\ CtlTypeOK' /\ RestTypeOK' => TypeOK'
BY DEF TypeOK, LogTypeOK, CtlTypeOK, RestTypeOK

\* The helpers keep the types.
LEMMA HelperTypes ==
    ASSUME TypeOK
    PROVE  /\ \A step \in PCs : Goto(step) => LogTypeOK' /\ CtlTypeOK'
           /\ \A b \in BOOLEAN : Return(b) => CtlTypeOK'
           /\ \A s \in States, b \in BOOLEAN :
                UpdateState(local, s, b) => LogTypeOK' /\ CtlTypeOK'
           /\ UNCHANGED log => LogTypeOK'
           /\ (Ok \/ Fault) /\ UNCHANGED <<secret, edits>>
                 /\ registered' \in BOOLEAN /\ missed' \in BOOLEAN
                 => RestTypeOK'
           /\ Edit => edits' \in 0..MaxEdits
           /\ faults < MaxFaults /\ faults' = faults + 1 =>
                 faults' \in 0..MaxFaults
<1>1. ASSUME NEW step \in PCs, Goto(step) PROVE LogTypeOK' /\ CtlTypeOK'
  BY <1>1 DEF TypeOK, LogTypeOK, CtlTypeOK, Goto
<1>2. ASSUME NEW b \in BOOLEAN, Return(b) PROVE CtlTypeOK'
  BY <1>2, GoneFacts DEF TypeOK, CtlTypeOK, Return, PCs
<1>3. ASSUME NEW s \in States, NEW b \in BOOLEAN, UpdateState(local, s, b)
      PROVE  LogTypeOK' /\ CtlTypeOK'
  <2>1. pc \in PCs /\ local \in Registration
    BY DEF TypeOK
  <2>2. local' \in Registration
    BY <1>3, <2>1, ObjectType DEF UpdateState
  <2>. QED  BY <1>3, <2>2 DEF UpdateState, TypeOK, LogTypeOK, CtlTypeOK, PCs
<1>4. UNCHANGED log => LogTypeOK'
  BY DEF TypeOK, LogTypeOK
<1>5. (Ok \/ Fault) /\ UNCHANGED <<secret, edits>>
         /\ registered' \in BOOLEAN /\ missed' \in BOOLEAN => RestTypeOK'
  BY ConstantsAssumption DEF TypeOK, RestTypeOK, Ok, Fault
<1>6. Edit => edits' \in 0..MaxEdits
  BY ConstantsAssumption DEF TypeOK, Edit
<1>7. faults < MaxFaults /\ faults' = faults + 1 => faults' \in 0..MaxFaults
  BY ConstantsAssumption DEF TypeOK
<1>. QED  BY <1>1, <1>2, <1>3, <1>4, <1>5, <1>6, <1>7

\* What is patched and updated is an object.
LEMMA WrittenType ==
    ASSUME TypeOK
    PROVE  /\ \A on \in BOOLEAN : Patched(on) \in Registration
           /\ WithStatus \in Registration
<1>1. \A on \in BOOLEAN : Patched(on) \in Registration
  BY EndsType, ObjectType, GoneFacts DEF Patched
<1>2. local.state \in States /\ local.msg \in PCs \cup {""}
  BY EndsType, ObjectType
<1>3. WithStatus \in Registration
  BY <1>2, EndsType, ObjectType DEF WithStatus
<1>. QED  BY <1>1, <1>3

\* Every step of the specification keeps the types.
LEMMA TypeNext == TypeOK /\ [Next]_vars => TypeOK'
<1>. SUFFICES ASSUME TypeOK, [Next]_vars PROVE TypeOK'
  OBVIOUS
<1>. USE EndsType, GoneFacts, HelperTypes
<1>0. registered \in BOOLEAN /\ missed \in BOOLEAN
  BY DEF TypeOK
<1>1. CASE Reconcile
  <2>1. LogTypeOK' /\ RestTypeOK'
    BY <1>0, <1>1 DEF Reconcile
  <2>2. FirstStep(Cached) \in PCs
    BY DEF FirstStep, PCs
  <2>3. [Cached EXCEPT !.state = "error", !.msg = pc] \in Registration
    BY ObjectType DEF TypeOK, States
  <2>4. CtlTypeOK'
    BY <1>1, <2>2, <2>3 DEF Reconcile, TypeOK, CtlTypeOK
  <2>. QED  BY <2>1, <2>4, TypeParts
<1>2. CASE AddFinalizer \/ RemoveFinalizer
  <2>1. PICK on \in BOOLEAN : PatchFinalizer(on)
    BY <1>2 DEF AddFinalizer, RemoveFinalizer
  <2>2. LogTypeOK'
    BY <2>1, Helpers, WrittenType, WriteFacts DEF LogTypeOK
  <2>3. CtlTypeOK'
    BY <2>1, Helpers
  <2>4. RestTypeOK'
    BY <1>0, <1>2 DEF AddFinalizer, RemoveFinalizer, PatchFinalizer
  <2>. QED  BY <2>2, <2>3, <2>4, TypeParts
<1>3. CASE GetCluster
  <2>1. LogTypeOK' /\ CtlTypeOK'
    BY <1>3 DEF GetCluster, PCs, States
  <2>2. RestTypeOK'
    BY <1>0, <1>3 DEF GetCluster
  <2>. QED  BY <2>1, <2>2, TypeParts
<1>4. CASE GetSecret
  <2>1. LogTypeOK' /\ CtlTypeOK'
    BY <1>4 DEF GetSecret, PCs, States
  <2>2. RestTypeOK'
    BY <1>0, <1>4 DEF GetSecret
  <2>. QED  BY <2>1, <2>2, TypeParts
<1>5. CASE InstallRBAC
  <2>1. LogTypeOK' /\ CtlTypeOK'
    BY <1>5 DEF InstallRBAC, PCs, States
  <2>2. RestTypeOK'
    BY <1>0, <1>5 DEF InstallRBAC
  <2>. QED  BY <2>1, <2>2, TypeParts
<1>6. CASE CreateCluster
  <2>1. LogTypeOK' /\ CtlTypeOK'
    BY <1>6 DEF CreateCluster, States
  <2>2. RestTypeOK'
    BY <1>0, <1>6 DEF CreateCluster
  <2>. QED  BY <2>1, <2>2, TypeParts
<1>7. CASE UpdateStatus
  <2>1. again \in BOOLEAN
    BY DEF TypeOK
  <2>2. LogTypeOK'
    BY <1>7, Helpers, WrittenType, WriteFacts DEF LogTypeOK
  <2>3. CtlTypeOK'
    BY <1>7, <2>1, Helpers
  <2>4. RestTypeOK'
    BY <1>0, <1>7 DEF UpdateStatus
  <2>. QED  BY <2>2, <2>3, <2>4, TypeParts
<1>8. CASE GetClusterDel
  <2>1. LogTypeOK' /\ CtlTypeOK'
    BY <1>8 DEF GetClusterDel, PCs
  <2>2. RestTypeOK'
    BY <1>0, <1>8 DEF GetClusterDel
  <2>. QED  BY <2>1, <2>2, TypeParts
<1>9. CASE DeleteCluster
  <2>1. LogTypeOK' /\ CtlTypeOK'
    BY <1>9 DEF DeleteCluster, PCs
  <2>2. RestTypeOK'
    BY <1>0, <1>9 DEF DeleteCluster
  <2>. QED  BY <2>1, <2>2, TypeParts
<1>10. CASE Deliver
  <2>1. LogTypeOK'
    BY <1>10, DeliverFacts DEF LogTypeOK
  <2>2. CtlTypeOK' /\ RestTypeOK'
    BY <1>10 DEF Deliver, TypeOK, CtlTypeOK, RestTypeOK
  <2>. QED  BY <2>1, <2>2, TypeParts
<1>11. CASE Crash
  <2>1. LogTypeOK'
    BY <1>11, CrashFacts DEF LogTypeOK
  <2>2. CtlTypeOK'
    <3>1. Gone \in Registration /\ Current.exists \in BOOLEAN /\ "idle" \in PCs
      BY <1>0 DEF PCs, Registration
    <3>2. /\ queued' = Current.exists /\ timer' = FALSE /\ pc' = "idle"
          /\ local' = Gone /\ fresh' = FALSE /\ again' = FALSE
      BY <1>11 DEF Crash
    <3>. QED  BY <3>1, <3>2 DEF CtlTypeOK
  <2>3. RestTypeOK'
    BY <1>11 DEF Crash, TypeOK, RestTypeOK
  <2>. QED  BY <2>1, <2>2, <2>3, TypeParts
<1>12. ASSUME NEW obj \in Registration, Write(obj), Edit, KeepsFresh,
              UNCHANGED <<queued, timer, pc, local, again, secret, registered,
                          missed, faults>>
       PROVE  TypeOK'
  <2>1. LogTypeOK'
    BY <1>12, WriteFacts DEF LogTypeOK
  <2>2. CtlTypeOK'
    BY <1>12 DEF KeepsFresh, TypeOK, CtlTypeOK
  <2>3. RestTypeOK'
    BY <1>12 DEF TypeOK, RestTypeOK
  <2>. QED  BY <2>1, <2>2, <2>3, TypeParts
<1>13. ASSUME NEW named \in NamedChoices, NEW valid \in ValidChoices,
              UserCreates(named, valid)
       PROVE  TypeOK'
  <2>1. [Gone EXCEPT !.exists = TRUE, !.named = named, !.valid = valid]
           \in Registration
    BY ObjectType, ConstantsAssumption
  <2>. QED  BY <1>12, <1>13, <2>1 DEF UserCreates
<1>14. CASE UserDeletes
  <2>1. [Current EXCEPT !.deleting = TRUE] \in Registration
    BY ObjectType
  <2>. QED  BY <1>12, <1>14, <2>1 DEF UserDeletes
<1>15. ASSUME NEW new \in Secrets, SecretChanges(new) PROVE TypeOK'
  <2>1. edits' \in 0..MaxEdits
    BY <1>15 DEF SecretChanges
  <2>2. secret' \in Secret
    BY <1>15, ConstantsAssumption DEF SecretChanges
  <2>. QED  BY <1>15, <2>1, <2>2 DEF SecretChanges, TypeOK, ctlVars
<1>16. CASE TimerFires
  BY <1>16 DEF TimerFires, TypeOK
<1>17. CASE UNCHANGED vars
  BY <1>17 DEF vars, TypeOK
<1>. QED
  BY <1>1, <1>2, <1>3, <1>4, <1>5, <1>6, <1>7, <1>8, <1>9, <1>10, <1>11,
     <1>13, <1>14, <1>15, <1>16, <1>17 DEF Next, Step

\* The initial state has its types.
LEMMA TypeInit == Init => TypeOK
<1>. SUFFICES ASSUME Init PROVE TypeOK
  OBVIOUS
<1>1. log = <<Gone>>
  BY DEF Init
<1>2. log \in Seq(Registration) /\ Len(log) = 1
  BY <1>1, SingleShape, GoneFacts
<1>3. Len(log) \in 1..MaxLag + 1
  BY <1>2, ConstantsAssumption
<1>4. faults \in 0..MaxFaults /\ edits \in 0..MaxEdits
  BY ConstantsAssumption DEF Init
<1>. QED  BY <1>2, <1>3, <1>4, GoneFacts DEF Init, TypeOK, PCs, Secret

\* Every variable keeps its type in every behaviour of the controller.
THEOREM TypeCorrect == Spec => []TypeOK
BY TypeInit, TypeNext, PTL DEF Spec

----------------------------------------------------------------------------
(* What is written *)

\* The current version.
LEMMA CurrentFacts ==
    ASSUME IndInv
    PROVE  Sound(Current) /\ BackedBy(Current, registered)
BY EndsType DEF IndInv, Ordered, RegistrationInv, Current

\* The steps that write nothing.
QuietStep ==
    \/ Reconcile \/ GetCluster \/ GetSecret \/ InstallRBAC \/ CreateCluster
    \/ GetClusterDel \/ DeleteCluster \/ TimerFires
    \/ \E new \in Secrets : SecretChanges(new)
    \/ UNCHANGED vars

\* They leave the log alone.
LEMMA QuietLog == QuietStep => UNCHANGED log
BY DEF QuietStep, Reconcile, GetCluster, GetSecret, InstallRBAC,
       CreateCluster, GetClusterDel, DeleteCluster, TimerFires,
       SecretChanges, vars, Goto, UpdateState

\* What the three writing steps of the controller write may follow.
LEMMA WriterFollows ==
    ASSUME IndInv
    PROVE  /\ pc = "AddFinalizer" /\ Current.exists =>
                /\ Follows(log, Patched(TRUE))
                /\ BackedBy(Patched(TRUE), registered)
                /\ Claimed(Patched(TRUE))
                /\ Patched(TRUE).state = Current.state
           /\ pc = "RemoveFinalizer" /\ Current.exists =>
                /\ Follows(log, Patched(FALSE))
                /\ BackedBy(Patched(FALSE), registered)
                /\ Patched(FALSE).exists => Patched(FALSE).state = Current.state
           /\ pc = "UpdateStatus" /\ fresh =>
                /\ Follows(log, WithStatus)
                /\ BackedBy(WithStatus, registered)
                /\ Claimed(Current) => Claimed(WithStatus)
                /\ Current.state \notin {"complete", "error"}
<1>. USE CurrentFacts DEF IndInv
<1>0. /\ log \in Seq(Registration) /\ Len(log) >= 1 /\ Len(log) \in DOMAIN log
      /\ Current \in Registration /\ Current = log[Len(log)]
      /\ local \in Registration
  BY EndsType DEF Current
<1>1. ASSUME pc = "AddFinalizer", Current.exists
      PROVE  /\ Follows(log, Patched(TRUE))
             /\ BackedBy(Patched(TRUE), registered)
             /\ Claimed(Patched(TRUE))
             /\ Patched(TRUE).state = Current.state
  <2>. DEFINE obj == [Current EXCEPT !.finalizer = TRUE]
  <2>1. Patched(TRUE) = obj
    BY DEF Patched
  <2>2. /\ obj.exists = Current.exists /\ obj.deleting = Current.deleting
        /\ obj.finalizer = TRUE /\ obj.state = Current.state
    BY <1>0 DEF Registration
  <2>3. Claimed(obj)
    BY <1>1, <2>2 DEF Claimed
  <2>4. CASE Current.finalizer
    <3>1. Current.finalizer = TRUE
      BY <1>0, <2>4, ObjectType
    <3>2. SameMeta(obj, log[Len(log)])
      BY <1>0, <2>2, <3>1 DEF SameMeta
    <3>3. BackedBy(obj, registered)
      BY <1>0, <2>2, <3>2, CurrentFacts DEF BackedBy, SameMeta, Claimed, Live
    <3>4. Follows(log, obj)
      BY <1>0, <3>2, SameMetaFollows
    <3>. QED  BY <2>1, <2>2, <2>3, <3>3, <3>4
  <2>5. CASE ~Current.finalizer
    <3>1. ~Claimed(Current) /\ ~Current.deleting
      BY <2>5 DEF Claimed, Sound
    <3>2. Live(obj)
      BY <2>2, <2>3, <3>1 DEF Live
    <3>3. local.exists /\ ~local.finalizer /\ Agrees(local, log)
      BY <1>1 DEF LocalInv
    <3>4. Follows(log, obj)
      BY <1>0, <3>1, <3>2, <3>3, ClaimFollows
    <3>5. BackedBy(obj, registered)
      BY <2>2, <3>1 DEF BackedBy
    <3>. QED  BY <2>1, <2>2, <2>3, <3>4, <3>5
  <2>. QED  BY <2>4, <2>5
<1>2. ASSUME pc = "RemoveFinalizer", Current.exists
      PROVE  /\ Follows(log, Patched(FALSE))
             /\ BackedBy(Patched(FALSE), registered)
             /\ Patched(FALSE).exists => Patched(FALSE).state = Current.state
  <2>1. local.deleting /\ Agrees(local, log)
    BY <1>2 DEF LocalInv, DeleteSteps
  <2>2. CASE Current.deleting
    <3>1. Patched(FALSE) = Gone
      BY <2>2 DEF Patched
    <3>. QED
      BY <2>1, <3>1, GoneFacts, ReleaseFollows DEF BackedBy
  <2>3. CASE ~Current.deleting
    <3>. DEFINE obj == [Current EXCEPT !.finalizer = FALSE]
    <3>1. Patched(FALSE) = obj
      BY <2>3 DEF Patched
    <3>2. /\ obj.finalizer = FALSE /\ obj.deleting = Current.deleting
          /\ obj.state = Current.state
      BY <1>0 DEF Registration
    <3>3. ~Live(Current)
      BY <1>0, <2>1 DEF Agrees
    <3>4. ~Claimed(Current) /\ ~Claimed(obj)
      BY <2>3, <3>2, <3>3 DEF Live, Claimed
    <3>5. Follows(log, obj)
      BY <2>1, <2>3, <3>2, <3>4, ReleaseFollows
    <3>6. BackedBy(obj, registered)
      BY <3>2, <3>4 DEF BackedBy
    <3>. QED  BY <3>1, <3>2, <3>5, <3>6
  <2>. QED  BY <2>2, <2>3
<1>3. ASSUME pc = "UpdateStatus", fresh
      PROVE  /\ Follows(log, WithStatus)
             /\ BackedBy(WithStatus, registered)
             /\ Claimed(Current) => Claimed(WithStatus)
             /\ Current.state \notin {"complete", "error"}
  <2>1. SameMeta(WithStatus, Current) /\ WithStatus.state = local.state
    BY <1>0 DEF WithStatus, Registration, SameMeta
  <2>2. SameMeta(local, Current)
    BY <1>3 DEF LocalInv
  <2>3. Follows(log, WithStatus)
    BY <1>0, <2>1, SameMetaFollows
  <2>4. BackedBy(local, registered)
    BY DEF RegistrationInv
  <2>5. BackedBy(WithStatus, registered)
    BY <2>1, <2>2, <2>4 DEF BackedBy, SameMeta, Claimed, Live
  <2>6. Current.state \notin {"complete", "error"}
    BY <1>3 DEF LocalInv, DeleteSteps
  <2>. QED  BY <2>1, <2>3, <2>5, <2>6 DEF SameMeta, Claimed
<1>. QED  BY <1>1, <1>2, <1>3

User ==
    \/ \E named \in NamedChoices : \E valid \in ValidChoices :
          UserCreates(named, valid)
    \/ UserDeletes

\* What a user writes may follow.
LEMMA UserFollows ==
    ASSUME IndInv, User
    PROVE  \E obj \in Registration :
              /\ Write(obj) /\ KeepsFresh
              /\ UNCHANGED <<pc, local, registered, missed>>
              /\ Follows(log, obj) /\ AgreesWith(local, log, obj)
              /\ BackedBy(obj, registered)
              /\ Claimed(Current) => Claimed(obj)
              /\ Current.exists /\ obj.exists => obj.state = Current.state
<1>. USE CurrentFacts DEF IndInv
<1>0. /\ log \in Seq(Registration) /\ Len(log) >= 1 /\ Ordered(log)
      /\ Current \in Registration /\ Current = log[Len(log)]
      /\ Agrees(local, log)
  BY EndsType DEF Current, LocalInv
<1>1. ASSUME NEW named \in NamedChoices, NEW valid \in ValidChoices,
             UserCreates(named, valid)
      PROVE  \E obj \in Registration :
              /\ Write(obj) /\ KeepsFresh
              /\ UNCHANGED <<pc, local, registered, missed>>
              /\ Follows(log, obj) /\ AgreesWith(local, log, obj)
              /\ BackedBy(obj, registered)
              /\ Claimed(Current) => Claimed(obj)
              /\ Current.exists /\ obj.exists => obj.state = Current.state
  <2>. DEFINE obj ==
         [Gone EXCEPT !.exists = TRUE, !.named = named, !.valid = valid]
  <2>1. obj \in Registration
    BY ObjectType, GoneFacts, ConstantsAssumption
  <2>2. ~obj.deleting /\ ~obj.finalizer /\ obj.state = ""
    BY DEF Gone
  <2>3. ~Current.exists /\ Write(obj) /\ KeepsFresh
           /\ UNCHANGED <<pc, local, registered, missed>>
    BY <1>1 DEF UserCreates
  <2>. HIDE DEF obj
  <2>4. ~Claimed(obj) /\ ~Claimed(Current)
    BY <2>2, <2>3 DEF Claimed
  <2>5. Follows(log, obj) /\ AgreesWith(local, log, obj)
    BY <1>0, <2>1, <2>2, <2>4, UnclaimedFollows
  <2>. QED  BY <2>1, <2>2, <2>3, <2>4, <2>5 DEF BackedBy
<1>2. ASSUME UserDeletes
      PROVE  \E obj \in Registration :
              /\ Write(obj) /\ KeepsFresh
              /\ UNCHANGED <<pc, local, registered, missed>>
              /\ Follows(log, obj) /\ AgreesWith(local, log, obj)
              /\ BackedBy(obj, registered)
              /\ Claimed(Current) => Claimed(obj)
              /\ Current.exists /\ obj.exists => obj.state = Current.state
  <2>1. Current.exists /\ ~Current.deleting /\ KeepsFresh
           /\ UNCHANGED <<pc, local, registered, missed>>
    BY <1>2 DEF UserDeletes
  <2>2. CASE Current.finalizer
    <3>. DEFINE obj == [Current EXCEPT !.deleting = TRUE]
    <3>1. obj \in Registration
      BY <1>0, ObjectType
    <3>2. /\ obj.deleting = TRUE /\ obj.exists = Current.exists
          /\ obj.finalizer = Current.finalizer /\ obj.state = Current.state
      BY <1>0 DEF Registration
    <3>3. Write(obj)
      BY <1>2, <2>2 DEF UserDeletes
    <3>. HIDE DEF obj
    <3>4. Claimed(obj) /\ Live(Current) /\ ~Live(obj)
      BY <2>1, <2>2, <3>2 DEF Claimed, Live
    <3>5. Follows(log, obj) /\ AgreesWith(local, log, obj)
      BY <1>0, <3>2, <3>4, DyingFollows
    <3>. QED  BY <2>1, <3>1, <3>2, <3>3, <3>4, <3>5 DEF BackedBy
  <2>3. CASE ~Current.finalizer
    <3>1. Write(Gone) /\ ~Claimed(Current)
      BY <1>2, <2>3 DEF UserDeletes, Claimed
    <3>2. Follows(log, Gone) /\ AgreesWith(local, log, Gone)
      BY <1>0, <3>1, GoneFacts, UnclaimedFollows
    <3>. QED  BY <2>1, <3>1, <3>2, GoneFacts DEF BackedBy
  <2>. QED  BY <2>2, <2>3
<1>. QED  BY <1>1, <1>2 DEF User

\* What a step does to the versions.
LEMMA LogCases ==
    ASSUME IndInv, [Next]_vars
    PROVE  \/ QuietStep
           \/ \E obj \in Registration :
                 /\ Write(obj) /\ Follows(log, obj) /\ BackedBy(obj, registered)
                 /\ UNCHANGED <<registered, missed>>
                 /\ Claimed(Current) /\ pc # "RemoveFinalizer" => Claimed(obj)
                 /\ \/ pc' = "idle" /\ local' = Gone /\ fresh' = FALSE
                    \/ User
                 /\ Current.exists /\ obj.exists
                       /\ Current.state \in {"complete", "error"} =>
                          obj.state = Current.state
           \/ /\ UNCHANGED <<log, registered, missed>>
              /\ pc' = "idle" /\ local' = Gone /\ fresh' = FALSE
           \/ Deliver
           \/ Crash
<1>. USE DEF IndInv
<1>1. CASE AddFinalizer
  <2>1. UNCHANGED <<registered, missed>> /\ pc = "AddFinalizer"
    BY <1>1 DEF AddFinalizer
  <2>2. /\ UNCHANGED log \/ (Current.exists /\ Write(Patched(TRUE)))
        /\ pc' = "idle" /\ local' = Gone /\ fresh' = FALSE
    BY <1>1, Helpers DEF AddFinalizer, Return
  <2>. QED  BY <2>1, <2>2, WriterFollows, WrittenType
<1>2. CASE RemoveFinalizer
  <2>1. UNCHANGED <<registered, missed>> /\ pc = "RemoveFinalizer"
    BY <1>2 DEF RemoveFinalizer
  <2>2. /\ UNCHANGED log \/ (Current.exists /\ Write(Patched(FALSE)))
        /\ pc' = "idle" /\ local' = Gone /\ fresh' = FALSE
    BY <1>2, Helpers DEF RemoveFinalizer, Return
  <2>. QED  BY <2>1, <2>2, WriterFollows, WrittenType
<1>3. CASE UpdateStatus
  <2>1. UNCHANGED <<registered, missed>> /\ pc = "UpdateStatus"
    BY <1>3 DEF UpdateStatus
  <2>2. /\ UNCHANGED log \/ (fresh /\ Write(WithStatus))
        /\ pc' = "idle" /\ local' = Gone /\ fresh' = FALSE
    BY <1>3, Helpers DEF Return
  <2>. QED  BY <2>1, <2>2, WriterFollows, WrittenType
<1>4. CASE User
  BY <1>4, UserFollows
<1>. QED
  BY <1>1, <1>2, <1>3, <1>4 DEF Next, Step, User, QuietStep

----------------------------------------------------------------------------
(* The inductive invariant *)

\* Every step keeps the order of the versions.
LEMMA OrderedNext ==
    ASSUME IndInv, [Next]_vars
    PROVE  Ordered(log')
<1>. USE DEF IndInv
<1>1. UNCHANGED log => Ordered(log')
  OBVIOUS
<1>. QED
  BY <1>1, LogCases, QuietLog, WriteFacts, DeliverFacts, CrashFacts

\* Between reconciles there is no copy.
LEMMA IdleLocal ==
    ASSUME pc' = "idle", local' = Gone, fresh' = FALSE
    PROVE  LocalInv'
<1>1. Agrees(Gone, log')
  BY GoneFacts DEF Agrees, Sound
<1>2. Agrees(local, log)'
  BY <1>1
<1>. QED  BY <1>2 DEF LocalInv, CreateSteps, DeleteSteps

\* Every step keeps what is known of the copy.
LEMMA LocalInvNext ==
    ASSUME IndInv, [Next]_vars
    PROVE  LocalInv'
<1>. USE DEF IndInv
<1>0. /\ log \in Seq(Registration) /\ Len(log) >= 1
      /\ Cached \in Registration /\ local \in Registration
      /\ Cached = log[1] /\ Current = log[Len(log)]
  BY EndsType DEF Cached, Current
<1>1. CASE UNCHANGED <<log, pc, local, fresh>>
  BY <1>1 DEF LocalInv, Current
<1>2. CASE pc' = "idle" /\ local' = Gone /\ fresh' = FALSE
  BY <1>2, IdleLocal
<1>3. ASSUME NEW step, Goto(step), step # "idle", pc # "idle",
             step \notin DeleteSteps => pc \notin DeleteSteps,
             step \in CreateSteps => Live(local),
             step \in DeleteSteps => local.deleting,
             step # "AddFinalizer"
      PROVE  LocalInv'
  <2>1. UNCHANGED <<log, local, fresh>> /\ pc' = step
    BY <1>3 DEF Goto
  <2>. QED  BY <1>3, <2>1 DEF LocalInv, Current
<1>4. ASSUME NEW s, NEW b, UpdateState(local, s, b), pc # "idle",
             pc \notin DeleteSteps
      PROVE  LocalInv'
  <2>1. SameMeta(local', local) /\ UNCHANGED <<log, fresh>>
           /\ pc' = "UpdateStatus"
    BY <1>0, <1>4 DEF UpdateState, Registration, SameMeta
  <2>2. Agrees(local', log')
    BY <2>1, SameMetaAgrees DEF LocalInv
  <2>. QED
    BY <1>4, <2>1, <2>2
       DEF LocalInv, SameMeta, Current, CreateSteps, DeleteSteps
<1>5. CASE Reconcile
  <2>1. CASE UNCHANGED <<pc, local, fresh>>
    BY <1>1, <1>5, <2>1 DEF Reconcile
  <2>2. CASE /\ Cached.exists /\ FirstStep(Cached) # "idle"
             /\ pc' = FirstStep(Cached)
             /\ local' = IF pc' = "UpdateStatus"
                         THEN [Cached EXCEPT !.state = "error", !.msg = pc]
                         ELSE Cached
             /\ fresh' = (Len(log) = 1)
    <3>1. SameMeta(local', Cached)
      BY <1>0, <2>2 DEF Registration, SameMeta
    <3>2. log' = log
      BY <1>5 DEF Reconcile
    <3>3. Agrees(Cached, log)
      BY <1>0, CopyAgrees
    <3>4. Agrees(local', log')
      BY <3>1, <3>2, <3>3, SameMetaAgrees
    <3>5. fresh' => Current' = Cached
      BY <1>0, <2>2, <3>2 DEF Current
    <3>6. /\ pc' \notin DeleteSteps => Cached.state \notin {"complete", "error"}
          /\ pc' \in CreateSteps => Live(Cached)
          /\ pc' \in DeleteSteps => Cached.deleting
          /\ pc' = "AddFinalizer" => ~Cached.finalizer
      BY <2>2 DEF FirstStep, CreateSteps, DeleteSteps, Live, Claimed
    <3>. QED
      BY <2>2, <3>1, <3>4, <3>5, <3>6
         DEF LocalInv, SameMeta, Live, Claimed
  <2>. QED  BY <1>5, <2>1, <2>2 DEF Reconcile
<1>6. CASE GetCluster \/ GetSecret \/ InstallRBAC \/ CreateCluster
  <2>1. pc # "idle" /\ pc \in CreateSteps /\ pc \notin DeleteSteps
    BY <1>6 DEF GetCluster, GetSecret, InstallRBAC, CreateCluster,
                CreateSteps, DeleteSteps
  <2>2. \/ \E s \in States, b \in BOOLEAN : UpdateState(local, s, b)
        \/ \E step \in CreateSteps : Goto(step)
    BY <1>6 DEF GetCluster, GetSecret, InstallRBAC, CreateCluster,
                CreateSteps, States
  <2>3. Live(local)
    BY <2>1 DEF LocalInv
  <2>4. "idle" \notin CreateSteps /\ "AddFinalizer" \notin CreateSteps
           /\ \A step \in CreateSteps : step \notin DeleteSteps
    BY DEF CreateSteps, DeleteSteps
  <2>. QED  BY <1>3, <1>4, <2>1, <2>2, <2>3, <2>4
<1>7. CASE GetClusterDel \/ DeleteCluster
  <2>1. pc # "idle" /\ local.deleting
    BY <1>7 DEF GetClusterDel, DeleteCluster, LocalInv, DeleteSteps
  <2>2. \/ Goto("DeleteCluster") \/ Goto("RemoveFinalizer")
        \/ pc' = "idle" /\ local' = Gone /\ fresh' = FALSE
    BY <1>7 DEF GetClusterDel, DeleteCluster, Return
  <2>3. /\ "DeleteCluster" \in DeleteSteps /\ "RemoveFinalizer" \in DeleteSteps
        /\ "DeleteCluster" \notin CreateSteps
        /\ "RemoveFinalizer" \notin CreateSteps
    BY DEF CreateSteps, DeleteSteps
  <2>. QED  BY <1>2, <1>3, <2>1, <2>2, <2>3
<1>8. CASE Crash
  BY <1>2, <1>8 DEF Crash
<1>9. CASE Deliver
  <2>1. UNCHANGED <<pc, local, fresh>> /\ Current' = Current
    BY <1>9, DeliverFacts DEF Deliver
  <2>2. Agrees(local', log')
    BY <1>9, <2>1, DeliverFacts DEF LocalInv
  <2>. QED  BY <2>1, <2>2 DEF LocalInv
<1>10. CASE User
  <2>1. PICK obj \in Registration :
           /\ Write(obj) /\ KeepsFresh /\ UNCHANGED <<pc, local>>
           /\ AgreesWith(local, log, obj)
    BY <1>10, UserFollows
  <2>2. Agrees(local', log')
    BY <2>1, WriteFacts DEF LocalInv
  <2>3. CASE log' = log
    BY <1>1, <2>1, <2>3 DEF KeepsFresh, TypeOK
  <2>4. CASE log' # log
    <3>1. ~fresh'
      BY <2>1, <2>4 DEF KeepsFresh
    <3>. QED  BY <2>1, <2>2, <3>1 DEF LocalInv
  <2>. QED  BY <2>3, <2>4
<1>11. CASE TimerFires \/ UNCHANGED vars
            \/ \E new \in Secrets : SecretChanges(new)
  BY <1>1, <1>11 DEF TimerFires, SecretChanges, ctlVars, vars
<1>12. CASE AddFinalizer \/ RemoveFinalizer \/ UpdateStatus
  BY <1>2, <1>12, Helpers DEF AddFinalizer, RemoveFinalizer, Return
<1>. QED
  BY <1>5, <1>6, <1>7, <1>8, <1>9, <1>10, <1>11, <1>12
     DEF Next, Step, User

\* Every step keeps what complete means and who is registered.
LEMMA RegistrationInvNext ==
    ASSUME IndInv, [Next]_vars
    PROVE  RegistrationInv'
<1>. USE DEF IndInv
<1>0. BackedBy(Gone, registered')
  BY GoneFacts DEF BackedBy
<1>1. ASSUME NEW obj \in Registration, Write(obj), BackedBy(obj, registered),
             UNCHANGED <<registered, missed>>,
             Claimed(Current) /\ pc # "RemoveFinalizer" => Claimed(obj),
             \/ pc' = "idle" /\ local' = Gone
             \/ UNCHANGED <<pc, local>> /\ pc # "RemoveFinalizer"
             \/ UNCHANGED <<pc, local>> /\ (Claimed(Current) => Claimed(obj))
      PROVE  RegistrationInv'
  <2>1. Current' = obj
    BY <1>1, WriteFacts
  <2>2. \A i \in DOMAIN log' : BackedBy(log'[i], registered')
    BY <1>1, WriteFacts DEF RegistrationInv
  <2>3. BackedBy(local', registered')
    BY <1>0, <1>1 DEF RegistrationInv
  <2>4. registered' /\ ~Claimed(Current') => missed'
    BY <1>1, <2>1 DEF RegistrationInv
  <2>5. pc' = "RemoveFinalizer" /\ registered' => missed'
    BY <1>1 DEF RegistrationInv
  <2>. QED  BY <2>2, <2>3, <2>4, <2>5 DEF RegistrationInv
<1>2. ASSUME UNCHANGED <<log, registered, missed>>,
             BackedBy(local', registered'),
             pc' = "RemoveFinalizer" => pc = "RemoveFinalizer"
      PROVE  RegistrationInv'
  BY <1>2 DEF RegistrationInv, Current
<1>3. CASE Deliver
  <2>1. UNCHANGED <<pc, local, registered, missed>> /\ Current' = Current
    BY <1>3, DeliverFacts DEF Deliver
  <2>2. \A i \in DOMAIN log' : BackedBy(log'[i], registered')
    BY <1>3, <2>1, DeliverFacts DEF RegistrationInv
  <2>. QED  BY <2>1, <2>2 DEF RegistrationInv
<1>4. CASE Crash
  <2>1. /\ UNCHANGED <<registered, missed>> /\ Current' = Current
        /\ pc' = "idle" /\ local' = Gone
    BY <1>4, CrashFacts DEF Crash
  <2>2. \A i \in DOMAIN log' : BackedBy(log'[i], registered')
    BY <1>4, <2>1, CrashFacts, CurrentFacts
  <2>. QED  BY <1>0, <2>1, <2>2 DEF RegistrationInv
<1>5. CASE User
  BY <1>1, <1>5, UserFollows
<1>6. CASE AddFinalizer \/ RemoveFinalizer \/ UpdateStatus
  <2>1. UNCHANGED <<registered, missed>> /\ pc' = "idle" /\ local' = Gone
    BY <1>6, Helpers DEF AddFinalizer, RemoveFinalizer, UpdateStatus, Return
  <2>2. CASE UNCHANGED log
    BY <1>0, <1>2, <2>1, <2>2
  <2>3. CASE /\ pc = "AddFinalizer" /\ Current.exists
             /\ Write(Patched(TRUE))
    BY <1>1, <2>1, <2>3, WriterFollows, WrittenType
  <2>4. CASE /\ pc = "RemoveFinalizer" /\ Current.exists
             /\ Write(Patched(FALSE))
    BY <1>1, <2>1, <2>4, WriterFollows, WrittenType
  <2>5. CASE pc = "UpdateStatus" /\ fresh /\ Write(WithStatus)
    BY <1>1, <2>1, <2>5, WriterFollows, WrittenType
  <2>. QED
    BY <1>6, <2>2, <2>3, <2>4, <2>5, Helpers
       DEF AddFinalizer, RemoveFinalizer, UpdateStatus
<1>7. CASE Reconcile
  <2>1. UNCHANGED <<log, registered, missed>>
    BY <1>7 DEF Reconcile
  <2>2. pc' # "RemoveFinalizer"
    BY <1>7 DEF Reconcile, FirstStep
  <2>3. [Cached EXCEPT !.state = "error", !.msg = pc].state = "error"
    BY EndsType DEF Registration
  <2>4. BackedBy([Cached EXCEPT !.state = "error", !.msg = pc], registered)
    BY <2>3 DEF BackedBy
  <2>5. BackedBy(Cached, registered) /\ BackedBy(local, registered)
    BY EndsType DEF RegistrationInv, Cached
  <2>6. local' \in {local, Cached, [Cached EXCEPT !.state = "error", !.msg = pc]}
    BY <1>7 DEF Reconcile
  <2>. QED  BY <1>2, <2>1, <2>2, <2>4, <2>5, <2>6
<1>8. ASSUME NEW s, NEW b, UpdateState(local, s, b),
             s = "complete" => Live(local) /\ registered'
      PROVE  BackedBy(local', registered')
  <2>1. SameMeta(local', local) /\ local'.state = s
    BY <1>8, EndsType DEF UpdateState, Registration, SameMeta
  <2>. QED  BY <1>8, <2>1 DEF BackedBy, SameMeta, Live, Claimed
<1>9. CASE GetCluster \/ GetSecret \/ InstallRBAC
  <2>1. UNCHANGED <<log, registered, missed>>
    BY <1>9, QuietLog DEF QuietStep, GetCluster, GetSecret, InstallRBAC
  <2>2. pc' # "RemoveFinalizer"
    BY <1>9 DEF GetCluster, GetSecret, InstallRBAC, Goto, UpdateState
  <2>3. Live(local)
    BY <1>9 DEF GetCluster, GetSecret, InstallRBAC, LocalInv, CreateSteps
  <2>4. \/ local' = local
        \/ UpdateState(local, "complete", FALSE) /\ registered
        \/ UpdateState(local, "retrying", TRUE)
        \/ UpdateState(local, "error", FALSE)
    BY <1>9 DEF GetCluster, GetSecret, InstallRBAC, Goto, Found
  <2>5. BackedBy(local', registered')
    BY <1>8, <2>1, <2>3, <2>4 DEF RegistrationInv
  <2>. QED  BY <1>2, <2>1, <2>2, <2>5
<1>10. CASE CreateCluster
  <2>1. Live(local) /\ Claimed(Current)
    BY <1>10 DEF CreateCluster, LocalInv, CreateSteps, Agrees, Current
  <2>2. /\ UNCHANGED <<log, missed>> /\ pc' = "UpdateStatus"
        /\ registered => registered'
    BY <1>10 DEF CreateCluster, UpdateState, TypeOK
  <2>3. BackedBy(local', registered')
    BY <1>8, <1>10, <2>1 DEF CreateCluster
  <2>4. \A i \in DOMAIN log' : BackedBy(log'[i], registered')
    BY <2>2 DEF RegistrationInv, BackedBy
  <2>. QED  BY <2>1, <2>2, <2>3, <2>4 DEF RegistrationInv, Current
<1>11. CASE GetClusterDel
  <2>1. UNCHANGED <<log, local, registered>>
    BY <1>11 DEF GetClusterDel, Goto
  <2>2. \/ missed' = missed /\ pc' = "DeleteCluster"
        \/ missed' = registered
    BY <1>11 DEF GetClusterDel, Goto
  <2>. QED  BY <2>1, <2>2 DEF RegistrationInv, Current
<1>12. CASE DeleteCluster
  <2>1. /\ UNCHANGED log /\ registered' \in {registered, FALSE}
        /\ missed' = (missed /\ registered')
    BY <1>12 DEF DeleteCluster, Goto
  <2>2. pc' = "RemoveFinalizer" => ~registered'
    BY <1>12 DEF DeleteCluster, Goto, Return
  <2>3. local.deleting
    BY <1>12 DEF DeleteCluster, LocalInv, DeleteSteps
  <2>4. ~Live(local) /\ \A i \in DOMAIN log : ~Live(log[i])
    BY <2>3 DEF LocalInv, Agrees, Live
  <2>5. \A i \in DOMAIN log' : BackedBy(log'[i], registered')
    BY <2>1, <2>4 DEF RegistrationInv, BackedBy
  <2>6. local' = local \/ local' = Gone
    BY <1>12 DEF DeleteCluster, Goto, Return
  <2>7. BackedBy(local', registered')
    BY <1>0, <2>4, <2>6 DEF RegistrationInv, BackedBy
  <2>8. registered' => registered /\ missed' = missed
    <3>1. registered \in BOOLEAN /\ missed \in BOOLEAN
      BY DEF TypeOK
    <3>. QED  BY <2>1, <3>1
  <2>9. registered' /\ ~Claimed(Current') => missed'
    BY <2>1, <2>8 DEF RegistrationInv, Current
  <2>. QED  BY <2>2, <2>5, <2>7, <2>9 DEF RegistrationInv
<1>13. CASE TimerFires \/ UNCHANGED vars
            \/ \E new \in Secrets : SecretChanges(new)
  BY <1>2, <1>13 DEF TimerFires, SecretChanges, ctlVars, vars, RegistrationInv
<1>. QED
  BY <1>3, <1>4, <1>5, <1>6, <1>7, <1>9, <1>10, <1>11, <1>12, <1>13
     DEF Next, Step, User

----------------------------------------------------------------------------
(* The theorems *)

\* The inductive invariant holds in every behaviour.
THEOREM Invariance == Spec => []IndInv
<1>1. Init => IndInv
  <2>. SUFFICES ASSUME Init PROVE IndInv
    OBVIOUS
  <2>1. TypeOK
    BY TypeInit
  <2>2. log = <<Gone>> /\ local = Gone /\ pc = "idle" /\ ~fresh /\ ~registered
    BY DEF Init
  <2>3. DOMAIN log = {1} /\ log[1] = Gone
    BY <2>2, SingleShape, GoneFacts
  <2>4. Ordered(log)
    BY <2>2, SingleOrdered, GoneFacts
  <2>5. LocalInv
    <3>1. Agrees(Gone, log)
      BY GoneFacts DEF Agrees
    <3>. QED  BY <2>2, <3>1 DEF LocalInv, CreateSteps, DeleteSteps
  <2>6. RegistrationInv
    BY <2>2, <2>3, GoneFacts DEF RegistrationInv, BackedBy
  <2>. QED  BY <2>1, <2>4, <2>5, <2>6 DEF IndInv
<1>2. IndInv /\ [Next]_vars => IndInv'
  BY TypeNext, OrderedNext, LocalInvNext, RegistrationInvNext DEF IndInv
<1>. QED  BY <1>1, <1>2, PTL DEF Spec

\* A registration that is gone leaves no cluster behind in Argo CD that
\* reconcileDelete has seen, whatever fails, crashes or is delivered late.
THEOREM NoOrphans == Spec => []NoOrphanRegistration
<1>1. IndInv => NoOrphanRegistration
  BY DEF IndInv, RegistrationInv, NoOrphanRegistration, Claimed
<1>. QED  BY <1>1, Invariance, PTL

\* A registration that says complete has its cluster registered.
THEOREM CompleteIsRegistered == Spec => []CompleteMeansRegistered
<1>1. IndInv => CompleteMeansRegistered
  BY CurrentFacts DEF CompleteMeansRegistered, BackedBy, Live
<1>. QED  BY <1>1, Invariance, PTL

\* No late retry or stale copy takes a final state back.
THEOREM FinalIsFinal == Spec => FinalStatesStay
<1>1. ASSUME IndInv, [Next]_vars,
             Current.exists, Current'.exists,
             Current.state \in {"complete", "error"}
      PROVE  Current'.state = Current.state
  <2>1. UNCHANGED log => Current' = Current
    BY DEF Current
  <2>2. TypeOK
    BY <1>1 DEF IndInv
  <2>. QED
    BY <1>1, <2>1, <2>2, LogCases, QuietLog, WriteFacts, DeliverFacts,
       CrashFacts
<1>2. IndInv /\ [Next]_vars =>
         [Current.exists /\ Current'.exists
            /\ Current.state \in {"complete", "error"}
               => Current'.state = Current.state]_vars
  BY <1>1
<1>. QED  BY <1>2, Invariance, PTL DEF Spec, FinalStatesStay
=============================================================================
