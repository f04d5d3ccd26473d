--------------------------- MODULE MCGen1Catalog ---------------------------
(* Two bundles, of which the second is dynamic, and two cluster specs that    *)
(* differ in their chart.                                                     *)
EXTENDS Gen1Catalog, TLC

CONSTANTS b1, b2, s1, s2, x, v, eks, kubeadm, r

MCBundlesAtStart ==
    (b1 :> [kind |-> "static", data |-> x]) @@ (b2 :> [kind |-> "dynamic"])
MCSpecsAtStart ==
    (s1 :> [chart |-> eks, region |-> r])
        @@ (s2 :> [chart |-> kubeadm, region |-> r])

\* Both bundles, the dynamic one only or no set; an override or none.
MCRequests ==
    {[bundles |-> bs, overrides |-> [NoOverrides EXCEPT ![b2] = o]] :
        bs \in {None, {b2}, {b1, b2}}, o \in {None, v}}

Symmetry == Permutations(Procs) \cup Permutations(Profiles)
=============================================================================
