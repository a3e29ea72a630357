---------------------------- MODULE MCRunLifecycle ----------------------------
(***************************************************************************)
(* A small instance of RunLifecycle: one policy under which one patch is   *)
(* gated (it deletes a file), one test run is gated (an unknown make       *)
(* target) and one patch runs at once.                                     *)
(***************************************************************************)
EXTENDS RunLifecycle, TLC

MCFailureTool == [f \in Failures |-> "run_tests"]

MCPaths          == {"src/lib.rs", "src/.env", "src"}
MCSensitivePaths == {"src/.env"}
MCStartsWith     == {<<p, "src">> : p \in MCPaths}
MCTargets        == {"test", "deploy"}
MCSafeTargets    == {"test"}

DeletePatch == [kind |-> "patch.apply",
                edits |-> <<[path |-> "src/lib.rs", operation |-> "delete"]>>]
SmallPatch  == [kind |-> "patch.apply",
                edits |-> <<[path |-> "src/lib.rs", operation |-> "replace"]>>]
DeployTests == [kind |-> "tests.run", scope |-> "make", target |-> "deploy"]

MCRequests  == {DeletePatch, SmallPatch, DeployTests}
MCGatedOnly == {DeletePatch}
MCOneOfEach == {DeletePatch, SmallPatch}
MCNoRequest == {}
MCPolicies  == {DefaultPolicy({"src"})}

\* Run ids and approval ids are opaque: no definition orders them.
MCSymmetry == Permutations(Runs) \cup Permutations(Approvals)
=============================================================================
