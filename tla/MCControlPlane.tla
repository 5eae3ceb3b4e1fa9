--------------------------- MODULE MCControlPlane ---------------------------
(* Two nodes that declare the same and carry no quota, as cpd lists them;  *)
(* ids are interchangeable.                                                *)
EXTENDS ControlPlaneProps, TLC

MCSpecs == {[caps |-> {Cpu}, quota |-> NoQuota]}
MCRequired == {Cpu, Unparsed}
Symmetric == Permutations(Rpcs) \cup Permutations(TaskIds)
             \cup Permutations(Keys) \cup Permutations(NodeIds)
=============================================================================
