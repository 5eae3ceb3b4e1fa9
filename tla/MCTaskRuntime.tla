--------------------------- MODULE MCTaskRuntime ----------------------------
(* All programs with these bodies: tasks that race for a result, for a     *)
(* message, for a name, that hand handles on, wait for each other, fail or *)
(* are closed out.                                                         *)
EXTENDS TaskRuntime

S(op, name) == [op |-> op, name |-> name, with |-> None]
With(op, name, f) == [op |-> op, name |-> name, with |-> f]
Ret == S("return", None)
MCMains ==
    {<<S("spawn", "f"), S("spawn", "g"), S("await", "f")>>,
     <<S("spawn", "f"), S("await", "f"), S("await", "f")>>,
     <<S("spawn", "f"), With("await", "f", "g"), S("await", "g")>>,
     <<S("channel", "c"), S("spawn", "f"), S("spawn", "g"), S("recv", "c")>>,
     <<S("channel", "c"), S("spawn", "f"), S("channel", "c"), S("recv", "c")>>,
     <<S("channel", "c"), S("spawn", "f"), S("spawn", "g"), With("send", "c", "g")>>,
     <<S("spawn", "f"), S("spawn", "g"), S("await", "g")>>}
MCBodies ==
    {<<>>, <<Ret>>, <<S("send", "c")>>, <<S("recv", "c"), S("send", "c")>>,
     <<S("send", "c"), S("recv", "c"), Ret>>, <<S("await", "f"), Ret>>,
     <<With("recv", "c", "g"), S("await", "g"), Ret>>,
     <<S("spawn", "g"), S("await", "g"), Ret>>,
     <<S("spawn", "g"), With("return", None, "g")>>,
     <<S("channel", "c"), S("spawn", "g"), S("recv", "c"), Ret>>}
MCLeafBodies == {b \in MCBodies : \A n \in DOMAIN b : b[n].op # "spawn"}
MCPrograms ==
    {[b \in {"main", "f", "g"} |-> CASE b = "main" -> m [] b = "f" -> f [] b = "g" -> g] :
        m \in MCMains, f \in MCBodies, g \in MCLeafBodies}
=============================================================================
