SPECIFICATION Spec
CONSTANTS
    b1 = b1
    b2 = b2
    s1 = s1
    s2 = s2
    x = x
    v = v
    eks = eks
    kubeadm = kubeadm
    r = r
    Procs = {p1, p2}
    Bundles = {b1, b2}
    Profiles = {n, m}
    Specs = {s1, s2}
    Clusters = {c}
    Data = {x}
    Values = {v}
    Charts = {eks, kubeadm}
    Regions = {r}
    None = None
    BundlesAtStart <- MCBundlesAtStart
    SpecsAtStart <- MCSpecsAtStart
    Requests <- MCRequests
    MayFail = TRUE
    MaxCommands = 4
SYMMETRY Symmetry
INVARIANTS TypeOK NothingDangles NoLostUpdate SettledAgrees
PROPERTIES OthersKept
CHECK_DEADLOCK FALSE
