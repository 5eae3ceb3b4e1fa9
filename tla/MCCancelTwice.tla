---------------------------- MODULE MCCancelTwice ---------------------------
(* One node, one task, and clients that may cancel it again.               *)
EXTENDS ControlPlaneProps

MCSpecs == {[caps |-> {Cpu}, quota |-> NoQuota]}
MCRequired == {Cpu}
=============================================================================
