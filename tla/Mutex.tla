------------------------------- MODULE Mutex --------------------------------
(***************************************************************************)
(* What package lock promises: one process at a time has open sections; it *)
(* may open several, and gives the lock up when the last one closes, in    *)
(* whatever order they do, or when it ends.                                *)
(***************************************************************************)
CONSTANTS Callers, ProcOf, NoProc

VARIABLES
    owner,    \* the process whose sections are open, or NoProc
    inside    \* the calls of AcquireRoot whose sections are open

vars == <<owner, inside>>

Init == owner = NoProc /\ inside = {}

Open(c) ==
    /\ c \notin inside
    /\ owner \in {NoProc, ProcOf[c]}
    /\ owner' = ProcOf[c]
    /\ inside' = inside \cup {c}

Close(c) ==
    /\ c \in inside
    /\ inside' = inside \ {c}
    /\ owner' = IF inside = {c} THEN NoProc ELSE owner

\* The owner ends, with all its sections.
Vanish ==
    /\ owner # NoProc
    /\ owner' = NoProc
    /\ inside' = {}

Next == (\E c \in Callers : Open(c) \/ Close(c)) \/ Vanish

Spec == Init /\ [][Next]_vars
=============================================================================
