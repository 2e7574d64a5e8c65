----------------------------- MODULE MCRootLock -----------------------------
(* Two processes, one of them with nested acquisitions.                    *)
EXTENDS RootLock

CONSTANTS p1, p2, a, b, c1, c2

MCProcOf == [c \in Callers |-> IF c \in {a, b} THEN p1 ELSE p2]
=============================================================================
