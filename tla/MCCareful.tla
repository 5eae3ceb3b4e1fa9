------------------------------ MODULE MCCareful -----------------------------
(* Two submits and two cancels over nodes that differ in what they cover   *)
(* and in their quota, so that placement is refused and resumes.           *)
EXTENDS ControlPlaneProps

MCSpecs == {[caps |-> {Cpu},      quota |-> 1],
            [caps |-> {Cpu, Gpu}, quota |-> NoQuota]}
MCRequired == {Cpu, Gpu}
=============================================================================
