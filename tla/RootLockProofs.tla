--------------------------- MODULE RootLockProofs ---------------------------
(* Proofs about module RootLock: it implements module Mutex.               *)
EXTENDS RootLock, FiniteSetTheorems, TLAPS

\* The acquisitions of a process that have not been released.
Holders(p) == {c \in Callers : ProcOf[c] = p /\ pc[c] \in {"in", "rel"}}

\* The inductive invariant: a process counts its acquisitions, has the flock
\* and the file exactly while it counts one, and counts none while a caller
\* of it waits in flock(2) with the mutex.
Counted == \A p \in Procs : depth[p] = Cardinality(Holders(p))

Locked == \A p \in Procs : /\ depth[p] > 0 <=> flock = p
                           /\ file[p] <=> flock = p

Waiting == /\ \A p \in Procs : mu[p] # NoCaller => depth[p] = 0
           /\ \A c \in Callers : pc[c] = "flock" => mu[ProcOf[c]] = c

Armed == \A c \in Callers : once[c] => pc[c] = "in"

LockInv == TypeOK /\ Counted /\ Locked /\ Waiting /\ Armed

\* The counts of finite sets that one step needs.
LEMMA Counts ==
    ASSUME NEW S \in SUBSET Callers
    PROVE  /\ Cardinality(S) \in Nat
           /\ Cardinality(S) = 0 <=> S = {}
           /\ \A c \in Callers : c \notin S =>
                 Cardinality(S \cup {c}) = Cardinality(S) + 1
           /\ \A c \in S : Cardinality(S \ {c}) = Cardinality(S) - 1
<1>1. IsFiniteSet(S)
  BY LockAssumption, FS_Subset
<1> QED BY <1>1, FS_CardinalityType, FS_EmptySet, FS_AddElement, FS_RemoveElement

\* Who is inside has the flock.
LEMMA InsideLocked ==
    ASSUME LockInv, NEW c \in Callers, pc[c] \in {"in", "rel"}
    PROVE  flock = ProcOf[c] /\ ProcOf[c] \in Procs /\ depth[ProcOf[c]] > 0
<1>1. ProcOf[c] \in Procs
  BY LockAssumption
<1>2. c \in Holders(ProcOf[c]) /\ Holders(ProcOf[c]) \in SUBSET Callers
  BY DEF Holders
<1>3. Cardinality(Holders(ProcOf[c])) # 0 /\ Cardinality(Holders(ProcOf[c])) \in Nat
  BY <1>2, Counts
<1> QED BY <1>1, <1>3 DEF LockInv, Counted, Locked

LEMMA LockInit == Init => LockInv
<1> SUFFICES ASSUME Init PROVE LockInv
  OBVIOUS
<1>1. \A p \in Procs : Holders(p) = {}
  BY DEF Init, Holders
<1>2. Counted
  BY <1>1, FS_EmptySet DEF Init, Counted
<1>3. TypeOK
  BY LockAssumption DEF Init, TypeOK, States
<1> QED BY <1>2, <1>3, LockAssumption DEF Init, LockInv, Locked, Waiting, Armed

\* A caller that comes in or goes out moves the count of its own process.
LEMMA ComesIn ==
    ASSUME LockInv, NEW c \in Callers, pc[c] \notin {"in", "rel"},
           pc' = [pc EXCEPT ![c] = "in"],
           depth' = [depth EXCEPT ![ProcOf[c]] = @ + 1]
    PROVE  Counted'
<1>0. /\ ProcOf[c] \in Procs /\ depth \in [Procs -> Nat] /\ pc \in [Callers -> States]
  BY LockAssumption DEF LockInv, TypeOK
<1>1. ASSUME NEW q \in Procs PROVE depth'[q] = Cardinality(Holders(q)')
  <2>1. CASE q = ProcOf[c]
    <3>1. Holders(q)' = Holders(q) \cup {c} /\ c \notin Holders(q)
      BY <1>0, <2>1 DEF Holders
    <3>2. Cardinality(Holders(q) \cup {c}) = Cardinality(Holders(q)) + 1
      BY <3>1, Counts DEF Holders
    <3>3. depth'[q] = depth[q] + 1
      BY <1>0, <2>1
    <3> QED BY <3>1, <3>2, <3>3 DEF LockInv, Counted
  <2>2. CASE q # ProcOf[c]
    <3>1. Holders(q)' = Holders(q) /\ depth'[q] = depth[q]
      BY <1>0, <2>2 DEF Holders
    <3> QED BY <3>1 DEF LockInv, Counted
  <2> QED BY <2>1, <2>2
<1> QED BY <1>1 DEF Counted

LEMMA GoesOut ==
    ASSUME LockInv, NEW c \in Callers, pc[c] = "rel",
           pc' = [pc EXCEPT ![c] = "out"],
           depth' = [depth EXCEPT ![ProcOf[c]] = @ - 1]
    PROVE  Counted'
<1>0. /\ ProcOf[c] \in Procs /\ depth \in [Procs -> Nat] /\ pc \in [Callers -> States]
  BY LockAssumption DEF LockInv, TypeOK
<1>1. ASSUME NEW q \in Procs PROVE depth'[q] = Cardinality(Holders(q)')
  <2>1. CASE q = ProcOf[c]
    <3>1. Holders(q)' = Holders(q) \ {c} /\ c \in Holders(q)
      BY <1>0, <2>1 DEF Holders
    <3>2. Cardinality(Holders(q) \ {c}) = Cardinality(Holders(q)) - 1
      BY <3>1, Counts DEF Holders
    <3>3. depth'[q] = depth[q] - 1
      BY <1>0, <2>1
    <3> QED BY <3>1, <3>2, <3>3 DEF LockInv, Counted
  <2>2. CASE q # ProcOf[c]
    <3>1. Holders(q)' = Holders(q) /\ depth'[q] = depth[q]
      BY <1>0, <2>2 DEF Holders
    <3> QED BY <3>1 DEF LockInv, Counted
  <2> QED BY <2>1, <2>2
<1> QED BY <1>1 DEF Counted

LEMMA StaysCounted ==
    ASSUME LockInv, UNCHANGED depth,
           \A c \in Callers : pc'[c] \in {"in", "rel"} <=> pc[c] \in {"in", "rel"}
    PROVE  Counted'
<1>1. \A p \in Procs : Holders(p)' = Holders(p)
  BY DEF Holders
<1> QED BY <1>1 DEF LockInv, Counted

LEMMA LockNext == LockInv /\ [Next]_vars => LockInv'
<1> SUFFICES ASSUME LockInv, [Next]_vars PROVE LockInv'
  OBVIOUS
<1> USE LockAssumption
<1>0. TypeOK /\ \A c \in Callers : ProcOf[c] \in Procs
  BY DEF LockInv
<1>1. ASSUME NEW c \in Callers, Call(c) PROVE LockInv'
  <2>1. TypeOK'
    BY <1>0, <1>1 DEF Call, TypeOK, States
  <2>2. \A d \in Callers : pc'[d] = IF d = c THEN "mu" ELSE pc[d]
    BY <1>0, <1>1 DEF Call, TypeOK
  <2>3. Counted'
    BY <1>1, <2>2, StaysCounted DEF Call
  <2>4. Locked' /\ Waiting' /\ Armed'
    BY <1>0, <1>1, <2>2 DEF LockInv, Call, Locked, Waiting, Armed, TypeOK
  <2> QED BY <2>1, <2>3, <2>4 DEF LockInv
<1>2. ASSUME NEW c \in Callers, LockMu(c) PROVE LockInv'
  <2>0. ProcOf[c] \in Procs
    BY <1>0
  <2>1. TypeOK'
    <3>1. mu' \in [Procs -> Callers \cup {NoCaller}] /\ depth' \in [Procs -> Nat]
      BY <1>0, <1>2, <2>0 DEF LockMu, TypeOK
    <3>2. pc' \in [Callers -> States]
      BY <1>0, <1>2 DEF LockMu, TypeOK, States
    <3>3. once' \in [Callers -> BOOLEAN]
      BY <1>0, <1>2 DEF LockMu, TypeOK
    <3> QED BY <1>0, <1>2, <3>1, <3>2, <3>3 DEF LockMu, TypeOK
  <2>2. CASE depth[ProcOf[c]] > 0
    <3>1. /\ pc' = [pc EXCEPT ![c] = "in"]
          /\ depth' = [depth EXCEPT ![ProcOf[c]] = @ + 1]
          /\ once' = [once EXCEPT ![c] = TRUE]
          /\ UNCHANGED <<mu, flock, file>>
          /\ pc[c] = "mu" /\ mu[ProcOf[c]] = NoCaller
      BY <1>0, <1>2, <2>0, <2>2 DEF LockMu, TypeOK
    <3>2. Counted'
      BY <3>1, ComesIn
    <3>3. Locked' /\ Waiting' /\ Armed'
      BY <1>0, <2>0, <2>2, <3>1 DEF LockInv, Locked, Waiting, Armed, TypeOK
    <3> QED BY <2>1, <3>2, <3>3 DEF LockInv
  <2>3. CASE ~(depth[ProcOf[c]] > 0)
    <3>1. /\ pc' = [pc EXCEPT ![c] = "flock"]
          /\ mu' = [mu EXCEPT ![ProcOf[c]] = c]
          /\ UNCHANGED <<depth, once, flock, file>>
          /\ pc[c] = "mu" /\ mu[ProcOf[c]] = NoCaller
      BY <1>0, <1>2, <2>0, <2>3 DEF LockMu, TypeOK
    <3>2. Counted'
      BY <1>0, <3>1, StaysCounted DEF TypeOK
    <3>3. depth[ProcOf[c]] = 0
      <4>1. Cardinality(Holders(ProcOf[c])) \in Nat
        BY Counts DEF Holders
      <4> QED BY <2>0, <2>3, <4>1 DEF LockInv, Counted
    <3>4. Waiting'
      BY <1>0, <2>0, <3>1, <3>3 DEF LockInv, Waiting, TypeOK
    <3>5. Locked' /\ Armed'
      BY <1>0, <2>0, <3>1 DEF LockInv, Locked, Armed, TypeOK
    <3> QED BY <2>1, <3>2, <3>4, <3>5 DEF LockInv
  <2> QED BY <2>2, <2>3
<1>3. ASSUME NEW c \in Callers, Granted(c) PROVE LockInv'
  <2>0. ProcOf[c] \in Procs /\ depth[ProcOf[c]] = 0
    BY <1>0, <1>3 DEF Granted, LockInv, Waiting
  <2>1. TypeOK'
    BY <1>0, <1>3, <2>0 DEF Granted, TypeOK, States
  <2>2. Counted'
    BY <1>3, ComesIn DEF Granted
  <2>3. \A q \in Procs : q # ProcOf[c] => ~(depth[q] > 0) /\ ~file[q]
    BY <1>3 DEF Granted, LockInv, Locked
  <2>4. Locked'
    BY <1>0, <1>3, <2>0, <2>3 DEF Granted, Locked, TypeOK
  <2>5. Waiting' /\ Armed'
    BY <1>0, <1>3, <2>0 DEF Granted, LockInv, Waiting, Armed, TypeOK
  <2> QED BY <2>1, <2>2, <2>4, <2>5 DEF LockInv
<1>4. ASSUME NEW c \in Callers, Refused(c) PROVE LockInv'
  <2>1. TypeOK'
    BY <1>0, <1>4 DEF Refused, TypeOK, States
  <2>2. \A d \in Callers : pc'[d] = IF d = c THEN "out" ELSE pc[d]
    BY <1>0, <1>4 DEF Refused, TypeOK
  <2>3. Counted'
    BY <1>4, <2>2, StaysCounted DEF Refused
  <2>4. Locked' /\ Waiting' /\ Armed'
    BY <1>0, <1>4, <2>2 DEF LockInv, Refused, Locked, Waiting, Armed, TypeOK
  <2> QED BY <2>1, <2>3, <2>4 DEF LockInv
<1>5. ASSUME NEW c \in Callers, Release(c) PROVE LockInv'
  <2>1. TypeOK' /\ pc[c] = "in"
    BY <1>0, <1>5 DEF Release, TypeOK, States, LockInv, Armed
  <2>2. \A d \in Callers : pc'[d] = IF d = c THEN "rel" ELSE pc[d]
    BY <1>0, <1>5 DEF Release, TypeOK
  <2>3. Counted'
    BY <1>5, <2>1, <2>2, StaysCounted DEF Release
  <2>4. Locked' /\ Waiting' /\ Armed'
    BY <1>0, <1>5, <2>2 DEF LockInv, Release, Locked, Waiting, Armed, TypeOK
  <2> QED BY <2>1, <2>3, <2>4 DEF LockInv
<1>6. ASSUME NEW c \in Callers, Unlock(c) PROVE LockInv'
  <2>0. /\ ProcOf[c] \in Procs /\ flock = ProcOf[c] /\ depth[ProcOf[c]] > 0
        /\ mu[ProcOf[c]] = NoCaller
    BY <1>6, InsideLocked DEF Unlock
  <2>1. TypeOK'
    <3>1. flock' \in Procs \cup {NoProc} /\ file' \in [Procs -> BOOLEAN]
      BY <1>0, <1>6 DEF Unlock, TypeOK
    <3>2. depth' \in [Procs -> Nat] /\ pc' \in [Callers -> States]
      BY <1>0, <1>6, <2>0 DEF Unlock, TypeOK, States
    <3> QED BY <1>0, <1>6, <3>1, <3>2 DEF Unlock, TypeOK
  <2>2. Counted'
    BY <1>6, GoesOut DEF Unlock
  <2>3. \A q \in Procs : q # ProcOf[c] => ~(depth[q] > 0) /\ ~file[q]
    BY <2>0 DEF LockInv, Locked
  <2>4. Locked'
    BY <1>0, <1>6, <2>0, <2>3 DEF Unlock, LockInv, Locked, TypeOK
  <2>5. Waiting' /\ Armed'
    BY <1>0, <1>6, <2>0 DEF Unlock, LockInv, Waiting, Armed, TypeOK
  <2> QED BY <2>1, <2>2, <2>4, <2>5 DEF LockInv
<1>7. ASSUME NEW p \in Procs, Ends(p) PROVE LockInv'
  <2>1. TypeOK'
    <3>1. /\ flock' \in Procs \cup {NoProc} /\ file' \in [Procs -> BOOLEAN]
          /\ depth' \in [Procs -> Nat]
      BY <1>0, <1>7 DEF Ends, TypeOK
    <3>2. mu' \in [Procs -> Callers \cup {NoCaller}]
      BY <1>0, <1>7 DEF Ends, TypeOK
    <3>3. pc' \in [Callers -> States]
      BY <1>0, <1>7 DEF Ends, TypeOK, States
    <3>4. once' \in [Callers -> BOOLEAN]
      <4>1. \A d \in Callers : once'[d] = FALSE \/ once'[d] = once[d]
        BY <1>7 DEF Ends
      <4>2. \A d \in Callers : once'[d] \in BOOLEAN
        BY <1>0, <4>1 DEF TypeOK
      <4>3. once' = [d \in Callers |-> once'[d]]
        BY <1>7 DEF Ends
      <4> QED BY <4>2, <4>3
    <3> QED BY <1>0, <1>7, <3>1, <3>2, <3>3, <3>4 DEF Ends, TypeOK
  <2>2. \A d \in Callers : pc'[d] = IF ProcOf[d] = p THEN "out" ELSE pc[d]
    BY <1>7 DEF Ends
  <2>3. ASSUME NEW q \in Procs PROVE depth'[q] = Cardinality(Holders(q)')
    <3>1. CASE q = p
      <4>1. Holders(q)' = {} /\ depth'[q] = 0
        BY <1>0, <1>7, <2>2, <3>1 DEF Holders, Ends, TypeOK
      <4> QED BY <4>1, FS_EmptySet
    <3>2. CASE q # p
      <4>1. Holders(q)' = Holders(q) /\ depth'[q] = depth[q]
        BY <1>0, <1>7, <2>2, <3>2 DEF Holders, Ends, TypeOK
      <4> QED BY <4>1 DEF LockInv, Counted
    <3> QED BY <3>1, <3>2
  <2>4. Counted'
    BY <2>3 DEF Counted
  <2>5. Locked'
    BY <1>0, <1>7 DEF Ends, LockInv, Locked, TypeOK
  <2>6. Waiting' /\ Armed'
    BY <1>0, <1>7, <2>2 DEF Ends, LockInv, Waiting, Armed, TypeOK
  <2> QED BY <2>1, <2>4, <2>5, <2>6 DEF LockInv
<1>8. CASE UNCHANGED vars
  <2>1. Counted'
    BY <1>8, StaysCounted DEF vars
  <2> QED BY <1>8, <2>1 DEF vars, LockInv, TypeOK, Locked, Waiting, Armed
<1> QED BY <1>1, <1>2, <1>3, <1>4, <1>5, <1>6, <1>7, <1>8
        DEF Next, WouldBlock, OpenFails

\* For any number of processes and nested acquisitions: all state keeps its
\* type (the depth counter never goes below zero), verbs of two processes
\* never run at once, and release always finds its file (acquireRoot and
\* release with their depth counter).
THEOREM LockSafe == Spec => [](TypeOK /\ MutualExclusion /\ ReleaseHasFile)
<1>1. LockInv => MutualExclusion /\ ReleaseHasFile
  <2> SUFFICES ASSUME LockInv PROVE MutualExclusion /\ ReleaseHasFile
    OBVIOUS
  <2>1. MutualExclusion
    BY InsideLocked DEF MutualExclusion
  <2>2. ReleaseHasFile
    BY InsideLocked DEF ReleaseHasFile, LockInv, Locked
  <2> QED BY <2>1, <2>2
<1> QED BY <1>1, LockInit, LockNext, PTL DEF Spec, LockInv

-----------------------------------------------------------------------------
(* Refinement.                                                             *)

\* The acquisitions that are the open sections of Mutex.
Inside == {c \in Callers : pc[c] \in {"in", "rel"}}

LEMMA MutexOpen ==
    ASSUME TypeOK, NEW c \in Callers, pc[c] \notin {"in", "rel"},
           pc' = [pc EXCEPT ![c] = "in"],
           flock \in {NoProc, ProcOf[c]}, flock' = ProcOf[c]
    PROVE  M!Open(c)
<1>1. Inside' = Inside \cup {c} /\ c \notin Inside
  BY DEF Inside, TypeOK
<1> QED BY <1>1 DEF Inside, M!Open

LEMMA MutexSame ==
    ASSUME UNCHANGED flock,
           \A c \in Callers : pc'[c] \in {"in", "rel"} <=> pc[c] \in {"in", "rel"}
    PROVE  UNCHANGED M!vars
<1>1. Inside' = Inside
  BY DEF Inside
<1> QED BY <1>1 DEF Inside, M!vars

\* Every step is a step of Mutex or changes nothing it sees.
LEMMA MutexNext == LockInv /\ [Next]_vars => [M!Next]_(M!vars)
<1> SUFFICES ASSUME LockInv, [Next]_vars PROVE M!Next \/ UNCHANGED M!vars
  OBVIOUS
<1>0. TypeOK /\ \A c \in Callers : ProcOf[c] \in Procs
  BY LockAssumption DEF LockInv
<1>1. ASSUME NEW c \in Callers, Call(c) PROVE UNCHANGED M!vars
  <2>1. \A d \in Callers : pc'[d] = IF d = c THEN "mu" ELSE pc[d]
    BY <1>0, <1>1 DEF Call, TypeOK
  <2> QED BY <1>1, <2>1, MutexSame DEF Call
<1>2. ASSUME NEW c \in Callers, LockMu(c) PROVE M!Next \/ UNCHANGED M!vars
  <2>1. CASE depth[ProcOf[c]] > 0
    <3>1. /\ pc[c] = "mu" /\ pc' = [pc EXCEPT ![c] = "in"]
          /\ flock = ProcOf[c] /\ flock' = flock
      BY <1>0, <1>2, <2>1 DEF LockMu, LockInv, Locked, TypeOK
    <3>2. M!Open(c)
      BY <1>0, <3>1, MutexOpen
    <3> QED BY <3>2 DEF M!Next
  <2>2. CASE ~(depth[ProcOf[c]] > 0)
    <3>1. \A d \in Callers : pc'[d] = IF d = c THEN "flock" ELSE pc[d]
      BY <1>0, <1>2, <2>2 DEF LockMu, TypeOK
    <3> QED BY <1>2, <3>1, MutexSame DEF LockMu
  <2> QED BY <2>1, <2>2
<1>3. ASSUME NEW c \in Callers, Granted(c) PROVE M!Next
  <2>1. M!Open(c)
    BY <1>0, <1>3, MutexOpen DEF Granted
  <2> QED BY <2>1 DEF M!Next
<1>4. ASSUME NEW c \in Callers, Refused(c) PROVE UNCHANGED M!vars
  <2>1. \A d \in Callers : pc'[d] = IF d = c THEN "out" ELSE pc[d]
    BY <1>0, <1>4 DEF Refused, TypeOK
  <2> QED BY <1>4, <2>1, MutexSame DEF Refused
<1>5. ASSUME NEW c \in Callers, Release(c) PROVE UNCHANGED M!vars
  <2>1. \A d \in Callers : pc'[d] = IF d = c THEN "rel" ELSE pc[d]
    BY <1>0, <1>5 DEF Release, TypeOK
  <2>2. pc[c] = "in"
    BY <1>5 DEF Release, LockInv, Armed
  <2> QED BY <1>5, <2>1, <2>2, MutexSame DEF Release
<1>6. ASSUME NEW c \in Callers, Unlock(c) PROVE M!Next
  <2> DEFINE p == ProcOf[c]
  <2>1. p \in Procs /\ flock = p /\ pc[c] = "rel" /\ depth[p] \in Int
    BY <1>0, <1>6, InsideLocked DEF Unlock, TypeOK
  <2>2. Inside = Holders(p)
    BY <2>1, InsideLocked DEF Inside, Holders
  <2>3. /\ c \in Holders(p) /\ Holders(p) \ {c} \in SUBSET Callers
        /\ depth[p] = Cardinality(Holders(p))
    BY <2>1 DEF Holders, LockInv, Counted
  <2>4. depth[p] - 1 = Cardinality(Holders(p) \ {c})
    BY <2>3, Counts DEF Holders
  <2>5. depth[p] - 1 > 0 <=> Holders(p) # {c}
    <3>1. Cardinality(Holders(p) \ {c}) = 0 <=> Holders(p) \ {c} = {}
      BY <2>3, Counts
    <3>2. Cardinality(Holders(p) \ {c}) \in Nat
      BY <2>3, Counts
    <3> HIDE DEF p
    <3> QED BY <2>3, <2>4, <3>1, <3>2
  <2>6. flock' = IF Inside = {c} THEN NoProc ELSE flock
    BY <1>6, <2>2, <2>5 DEF Unlock
  <2>7. Inside' = Inside \ {c} /\ c \in Inside
    BY <1>0, <1>6, <2>1 DEF Inside, Unlock, TypeOK
  <2>8. M!Close(c)
    BY <2>6, <2>7 DEF Inside, M!Close
  <2> QED BY <2>8 DEF M!Next
<1>7. ASSUME NEW p \in Procs, Ends(p) PROVE M!Next \/ UNCHANGED M!vars
  <2>1. \A d \in Callers : pc'[d] = IF ProcOf[d] = p THEN "out" ELSE pc[d]
    BY <1>7 DEF Ends
  <2>2. CASE flock = p
    <3>1. \A d \in Callers : pc[d] \in {"in", "rel"} => ProcOf[d] = p
      BY <2>2, InsideLocked
    <3>2. Inside' = {} /\ flock' = NoProc /\ flock # NoProc
      BY <1>7, <2>1, <2>2, <3>1, LockAssumption DEF Inside, Ends
    <3>3. M!Vanish
      BY <3>2 DEF Inside, M!Vanish
    <3> QED BY <3>3 DEF M!Next
  <2>3. CASE flock # p
    <3>1. \A d \in Callers : pc[d] \in {"in", "rel"} => ProcOf[d] # p
      BY <2>3, InsideLocked
    <3> QED BY <1>7, <2>1, <2>3, <3>1, MutexSame DEF Ends
  <2> QED BY <2>2, <2>3
<1>8. CASE UNCHANGED vars
  BY <1>8, MutexSame DEF vars
<1> QED BY <1>1, <1>2, <1>3, <1>4, <1>5, <1>6, <1>7, <1>8
        DEF Next, WouldBlock, OpenFails

\* Package lock implements Mutex for any number of processes and nested
\* acquisitions: sections of two processes never overlap, and the lock is
\* given up with the last section of its owner or with its owner, never
\* earlier (the depth counter and the order-free release).
THEOREM LockIsMutex == Spec => IsMutex
<1>1. Init => M!Init
  BY DEF Init, M!Init
<1> QED BY <1>1, LockInit, LockNext, MutexNext, PTL DEF Spec, IsMutex, M!Spec
=============================================================================
