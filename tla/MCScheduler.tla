---------------------------- MODULE MCScheduler -----------------------------
(* Two nodes: one plain, one accelerated, each with or without a quota.    *)
EXTENDS Scheduler

MCSpecs == {[caps |-> {Cpu},      quota |-> 1],
            [caps |-> {Cpu, Sfa}, quota |-> NoQuota]}
=============================================================================
