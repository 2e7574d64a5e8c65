------------------------------ MODULE RootLock -------------------------------
(***************************************************************************)
(* Package lock: the transition lock that every verb which changes state   *)
(* takes.  Between processes it is a flock on /run/mvad/lock; within one,  *)
(* nested acquisitions share that flock and count its depth under a mutex. *)
(*                                                                         *)
(* A caller is one call of AcquireRoot or AcquireRootBlock and the release *)
(* function it returns.  The callers of a process may be nested calls of   *)
(* one goroutine or calls of several.  The mutex is held across flock(2),  *)
(* so that call is a step of its own and all else under it is atomic.      *)
(* A process may end at any point; the kernel then drops its flock.        *)
(***************************************************************************)
EXTENDS Integers, FiniteSets

CONSTANTS
    Procs,      \* mvad processes
    NoProc,     \* no process
    Callers,    \* acquisitions
    NoCaller,   \* no acquisition
    ProcOf,     \* the process of an acquisition
    MaxCalls    \* bound: acquisitions in a behaviour

ASSUME LockAssumption ==
    /\ NoProc \notin Procs
    /\ NoCaller \notin Callers
    /\ IsFiniteSet(Callers)
    /\ ProcOf \in [Callers -> Procs]
    /\ MaxCalls \in Nat

VARIABLES
    flock,   \* the process whose open file has the lock, or NoProc
    mu,      \* per process: the caller inside the mutex across flock(2)
    depth,   \* per process: acquisitions not released, never negative
    file,    \* per process: the package variable file is not nil
    pc,      \* per caller
    block,   \* per caller: AcquireRootBlock, not AcquireRoot
    once,    \* per caller: its sync.Once has not fired yet
    calls    \* acquisitions started

vars == <<flock, mu, depth, file, pc, block, once, calls>>

States == {"out", "mu", "flock", "in", "rel"}

TypeOK ==
    /\ flock \in Procs \cup {NoProc}
    /\ mu \in [Procs -> Callers \cup {NoCaller}]
    /\ depth \in [Procs -> Nat]
    /\ file \in [Procs -> BOOLEAN]
    /\ pc \in [Callers -> States]
    /\ block \in [Callers -> BOOLEAN]
    /\ once \in [Callers -> BOOLEAN]
    /\ calls \in Nat

Init ==
    /\ flock = NoProc
    /\ mu = [p \in Procs |-> NoCaller]
    /\ depth = [p \in Procs |-> 0]
    /\ file = [p \in Procs |-> FALSE]
    /\ pc = [c \in Callers |-> "out"]
    /\ block = [c \in Callers |-> FALSE]
    /\ once = [c \in Callers |-> FALSE]
    /\ calls = 0

-----------------------------------------------------------------------------
\* AcquireRoot or AcquireRootBlock is called and waits for the mutex.
Call(c) ==
    /\ pc[c] = "out"
    /\ calls < MaxCalls
    /\ calls' = calls + 1
    /\ pc' = [pc EXCEPT ![c] = "mu"]
    /\ block' \in {[block EXCEPT ![c] = b] : b \in BOOLEAN}
    /\ once' = [once EXCEPT ![c] = FALSE]
    /\ UNCHANGED <<flock, mu, depth, file>>

\* Mutant: a nested call locks the file again, on its own descriptor.
LockMuNoDepth(c) ==
    /\ pc[c] = "mu"
    /\ mu[ProcOf[c]] = NoCaller
    /\ mu' = [mu EXCEPT ![ProcOf[c]] = c]
    /\ pc' = [pc EXCEPT ![c] = "flock"]
    /\ UNCHANGED <<flock, depth, file, block, once, calls>>

\* The mutex is free: a nested call is counted and returns, a first one
\* opens the lock file.
LockMu(c) ==
    LET p == ProcOf[c] IN
    /\ pc[c] = "mu"
    /\ mu[p] = NoCaller
    /\ \/ /\ depth[p] # 0
          /\ depth' = [depth EXCEPT ![p] = @ + 1]
          /\ pc' = [pc EXCEPT ![c] = "in"]
          /\ once' = [once EXCEPT ![c] = TRUE]
          /\ UNCHANGED mu
       \/ /\ depth[p] = 0
          /\ mu' = [mu EXCEPT ![p] = c]
          /\ pc' = [pc EXCEPT ![c] = "flock"]
          /\ UNCHANGED <<depth, once>>
    /\ UNCHANGED <<flock, file, block, calls>>

\* flock(2) grants the lock.
Granted(c) ==
    LET p == ProcOf[c] IN
    /\ pc[c] = "flock"
    /\ flock = NoProc
    /\ flock' = p
    /\ file' = [file EXCEPT ![p] = TRUE]
    /\ depth' = [depth EXCEPT ![p] = @ + 1]
    /\ mu' = [mu EXCEPT ![p] = NoCaller]
    /\ pc' = [pc EXCEPT ![c] = "in"]
    /\ once' = [once EXCEPT ![c] = TRUE]
    /\ UNCHANGED <<block, calls>>

\* The call returns an error: ErrLocked of a non-blocking one, or a failure
\* of mkdir, open or flock.  Whatever was opened is closed.
Refused(c) ==
    /\ pc[c] = "flock"
    /\ mu' = [mu EXCEPT ![ProcOf[c]] = NoCaller]
    /\ pc' = [pc EXCEPT ![c] = "out"]
    /\ UNCHANGED <<flock, depth, file, block, once, calls>>

WouldBlock(c) == ~block[c] /\ flock # NoProc /\ Refused(c)

OpenFails(c) == Refused(c)

\* The release function is called; only the first call does anything.
Release(c) ==
    /\ pc[c] = "in" \/ pc[c] = "out"
    /\ once[c]
    /\ once' = [once EXCEPT ![c] = FALSE]
    /\ pc' = [pc EXCEPT ![c] = "rel"]
    /\ UNCHANGED <<flock, mu, depth, file, block, calls>>

\* Mutant: the first release drops the flock.
UnlockFirst(c) ==
    LET p == ProcOf[c] IN
    /\ pc[c] = "rel"
    /\ mu[p] = NoCaller
    /\ depth' = [depth EXCEPT ![p] = @ - 1]
    /\ flock' = NoProc
    /\ file' = [file EXCEPT ![p] = depth[p] > 1]
    /\ pc' = [pc EXCEPT ![c] = "out"]
    /\ UNCHANGED <<mu, block, once, calls>>

\* release, under the mutex: the last one unlocks and closes the file.
Unlock(c) ==
    LET p == ProcOf[c] IN
    /\ pc[c] = "rel"
    /\ mu[p] = NoCaller
    /\ depth' = [depth EXCEPT ![p] = @ - 1]
    /\ IF depth[p] - 1 > 0
         THEN UNCHANGED <<flock, file>>
         ELSE /\ flock' = NoProc
              /\ file' = [file EXCEPT ![p] = FALSE]
    /\ pc' = [pc EXCEPT ![c] = "out"]
    /\ UNCHANGED <<mu, block, once, calls>>

\* The process exits or is killed.
Ends(p) ==
    /\ \E c \in Callers : ProcOf[c] = p /\ pc[c] # "out"
    /\ flock' = IF flock = p THEN NoProc ELSE flock
    /\ mu' = [mu EXCEPT ![p] = NoCaller]
    /\ depth' = [depth EXCEPT ![p] = 0]
    /\ file' = [file EXCEPT ![p] = FALSE]
    /\ pc' = [c \in Callers |-> IF ProcOf[c] = p THEN "out" ELSE pc[c]]
    /\ once' = [c \in Callers |-> IF ProcOf[c] = p THEN FALSE ELSE once[c]]
    /\ UNCHANGED <<block, calls>>

Next ==
    \/ \E c \in Callers :
          \/ Call(c) \/ LockMu(c) \/ Granted(c) \/ WouldBlock(c) \/ OpenFails(c)
          \/ Release(c) \/ Unlock(c)
    \/ \E p \in Procs : Ends(p)

Spec == Init /\ [][Next]_vars

\* A goroutine that can run does, the kernel grants a free flock to someone
\* who waits for it, and every verb calls its deferred release.  No new call
\* has to be made and nothing has to fail.
Fairness ==
    \A c \in Callers : /\ WF_vars(LockMu(c))
                       /\ WF_vars(Granted(c))
                       /\ WF_vars(WouldBlock(c))
                       /\ WF_vars(Release(c))
                       /\ WF_vars(Unlock(c))

FairSpec == Spec /\ Fairness
-----------------------------------------------------------------------------
(* Properties.                                                             *)

\* Two verbs that run at once belong to one process: doConnect and
\* doDisconnect of different invocations never interleave.
MutualExclusion ==
    \A c, d \in Callers : pc[c] = "in" /\ pc[d] = "in" => ProcOf[c] = ProcOf[d]

\* release finds the file it unlocks: the package variable is not nil while
\* an acquisition is out, in whatever order nested ones are released.
ReleaseHasFile ==
    \A c \in Callers : pc[c] \in {"in", "rel"} => file[ProcOf[c]]

\* The package is a mutex between processes that nests within one.
M == INSTANCE Mutex WITH
        owner  <- flock,
        inside <- {c \in Callers : pc[c] \in {"in", "rel"}}

\* The steps of acquireRoot, release and process death are those of Mutex:
\* in particular a nested release never gives the lock up.
IsMutex == M!Spec

\* Every acquisition returns, with the lock or with an error: nobody is left
\* behind the mutex or behind a lock that was given up.
AcquireReturns ==
    \A c \in Callers : pc[c] \in {"mu", "flock"} ~> pc[c] \in {"in", "out"}
=============================================================================
