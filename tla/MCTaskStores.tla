---------------------------- MODULE MCTaskStores ----------------------------
(* Two servers with one call each at a time on one key, which has a parent *)
(* and may get three tasks: enough for a race on a key and on a record.    *)
EXTENDS TaskStores

CONSTANTS c1, s1, s2

MCServerOf == [c \in Callers |-> IF c = c1 THEN s1 ELSE s2]
=============================================================================
