----------------------------- MODULE VersionLog -----------------------------
(***************************************************************************)
(* A resource with a finalizer, as a controller sees it: the sequence of   *)
(* its versions from the one in the informer's cache to the current one in *)
(* the API server, and the copy that a reconcile took from the cache some  *)
(* time ago.  The definitions say how versions of one or of several lives  *)
(* of the resource can follow each other, which is what lets a controller  *)
(* act upon an old version without doing harm to the current one.          *)
(***************************************************************************)
EXTENDS Naturals, Sequences

\* The controller has put its finalizer on the version: the resource stays
\* until the controller takes the finalizer away.
Claimed(obj) == obj.exists /\ obj.finalizer
Live(obj) == Claimed(obj) /\ ~obj.deleting

\* Same existence, deletion mark and finalizer.
SameMeta(a, b) ==
    /\ a.exists = b.exists
    /\ a.deleting = b.deleting
    /\ a.finalizer = b.finalizer

\* The API server removes an object that is deleted and has no finalizer.
Sound(obj) == obj.deleting => Claimed(obj)

\* The order in which versions follow each other from the cache on: a live
\* version stays claimed until the controller has seen its deletion, and a
\* new life begins only after that.
Ordered(s) ==
    /\ \A i \in DOMAIN s : Sound(s[i])
    /\ \A i, j \in DOMAIN s : i < j /\ Live(s[i]) => Claimed(s[j])
    /\ \A i, j \in DOMAIN s : i < j /\ s[i].deleting => ~Live(s[j])
    /\ \A i, j, k \in DOMAIN s :
          i < j /\ j < k /\ s[i].deleting /\ ~Claimed(s[j]) => ~Claimed(s[k])
    /\ ~s[1].deleting =>
          \A i, j \in DOMAIN s : i < j /\ s[i].deleting => Claimed(s[j])

\* What a copy taken from the cache says of the versions since.
Agrees(copy, s) ==
    /\ Sound(copy)
    /\ Live(copy) => Claimed(s[Len(s)])
    /\ copy.deleting => \A i \in DOMAIN s : ~Live(s[i])
    /\ copy.deleting /\ ~s[1].deleting => \A i \in DOMAIN s : ~s[i].deleting
    /\ copy.exists /\ ~copy.finalizer =>
          \A i, j \in DOMAIN s : i < j /\ s[i].deleting => Claimed(s[j])

\* obj may be written over the last version.
Follows(s, obj) ==
    /\ Sound(obj)
    /\ ~Claimed(obj) => \A i \in DOMAIN s : ~Live(s[i])
    /\ Live(obj) => \A i \in DOMAIN s : ~s[i].deleting
    /\ Claimed(obj) =>
          \A i, j \in DOMAIN s : i < j /\ s[i].deleting => Claimed(s[j])
    /\ ~Claimed(obj) /\ ~s[1].deleting => \A i \in DOMAIN s : ~s[i].deleting

\* And the copy stays in agreement with the versions if it is.
AgreesWith(copy, s, obj) ==
    /\ Live(copy) => Claimed(obj)
    /\ copy.deleting => ~Live(obj)
    /\ copy.deleting /\ ~s[1].deleting => ~obj.deleting
    /\ copy.exists /\ ~copy.finalizer /\ ~Claimed(obj) =>
          \A i \in DOMAIN s : ~s[i].deleting
=============================================================================
