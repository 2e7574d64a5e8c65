---------------------------- MODULE MCSplitSet ------------------------------
(* An instance of SplitSet for TLC: a compose project, a namespace with a  *)
(* pod, and a prefix that covers two of three addresses.                   *)
EXTENDS SplitSet, TLC

CONSTANTS worker, pod

E(k, t, s) == [kind |-> k, top |-> t, sub |-> s]

Net == E("net", "10.0.0.0/31", "")
Project == E("compose", "app", "")
Namespace == E("k8s", "jobs", "")

MCEntries == {Net, Project, Namespace}
MCSelects == [e \in MCEntries |-> CASE e.kind = "net"     -> {}
                                    [] e.kind = "compose" -> {worker}
                                    [] e.kind = "k8s"     -> {pod}]
MCPrefixes == {{1, 2}}
MCNetOf == [e \in MCEntries |-> {1, 2}]
MCFirstIp == [c \in Containers |-> IF c = worker THEN 1 ELSE 3]
Symmetric == Permutations(Procs)

MCBudget == [k \in {"move", "fault"} |-> 1]
=============================================================================
