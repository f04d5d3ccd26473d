---------------------------- MODULE MCWorkspace ----------------------------
(* The directories that users push: one to be prepared, with an annotation   *)
(* of the user's and without the files of kustomize; one with the files but   *)
(* of two manifests; and one with a manifest of two clusters.                *)
EXTENDS Workspace, TLC

CONSTANTS docker, aws

MCExamples == <<docker, aws>>

MCManifest ==
    [clusters |-> 1, ns |-> TRUE,
     deployments |-> {[min |-> "user", max |-> ""], [min |-> "", max |-> ""]}]

MCGenerated ==
    [clusters |-> 1, ns |-> TRUE, deployments |-> {[min |-> "", max |-> ""]}]

MCUserDirs ==
    {[subdir |-> FALSE, kustomization |-> "", configurations |-> FALSE,
      files |-> "capd" :> MCManifest],
     [subdir |-> FALSE, kustomization |-> "mine", configurations |-> TRUE,
      files |-> ("mine" :> MCManifest) @@ ("capd" :> MCGenerated)],
     [subdir |-> FALSE, kustomization |-> "mine", configurations |-> FALSE,
      files |-> "mine" :> [MCManifest EXCEPT !.clusters = 2]]}

Symmetry == Permutations(Urls)
=============================================================================
