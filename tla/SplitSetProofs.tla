--------------------------- MODULE SplitSetProofs ---------------------------
(* Proofs about module SplitSet.                                           *)
EXTENDS SplitSet, FiniteSetTheorems, WellFoundedInduction, TLAPS

\* p is past config.Load, under the lock.
Busy(p) == inv[p].pc \notin {"idle", "asked"}

\* p resolves the entries, or has resolved them and connects.
Collects(p) ==
    \/ inv[p].pc \in {"escape", "resolve"}
    \/ inv[p].pc \in {"teardown", "up"} /\ inv[p].verb \in {"split", "full"}

\* Where the verbs can be, and what they know there.
Point(p) ==
    /\ Busy(p) => lock = p
    /\ inv[p].tag = "yes" => inv[p].pc = "escape"
    /\ inv[p].pc = "up" => inv[p].verb \in {"split", "full"}
    /\ inv[p].pc \in {"flush", "forget"} => inv[p].verb = "clear"
    /\ inv[p].pc = "forget" /\ ~inv[p].errs => live = {}
    /\ inv[p].pc = "edit" => inv[p].nets = {}
    /\ inv[p].pc \in {"asked", "edit"} => inv[p].arg \in Entries
    /\ Collects(p) => inv[p].todo \subseteq inv[p].cfg
    /\ inv[p].pc \in {"teardown", "up"} /\ Collects(p) => inv[p].todo = {}
    /\ sync = "cleared" /\ Collects(p) => inv[p].cfg = {} /\ inv[p].nets = {}

\* The addresses that entries ask for now.
Named(D) == {c \in Containers :
                Runs(c) /\ \E e \in D : c \in Selects[e] \ (Remote \cup HostNet)}

WantedBy(D) == (UNION {NetOf[e] : e \in {e \in D : e.kind = "net"}})
               \cup {ip[c] : c \in Named(D)}

\* The entries p has resolved.
Resolved(p) == inv[p].cfg \ inv[p].todo

\* Unless the live set was added to them, the prefixes p has collected are
\* those of the entries it has resolved, as long as no container moved.
Sound(p) ==
    Collects(p) /\ inv[p].moved = {} /\ (inv[p].verb = "split" => ~inv[p].errs)
        => Cover(inv[p].nets) \subseteq WantedBy(Resolved(p))

\* Without an error p has every prefix of the entries it has resolved, but
\* for the containers that moved.
Complete(p) ==
    Collects(p) /\ ~inv[p].errs =>
        \A e \in Resolved(p) :
            /\ e.kind = "net" => NetOf[e] \subseteq Cover(inv[p].nets)
            /\ \A c \in Selects[e] \ (Remote \cup HostNet \cup inv[p].moved) :
                  Runs(c) => ip[c] \in Cover(inv[p].nets)

\* With an error a connect --split keeps what is in the live set, if nft
\* could list it.
KeepsLive(p) ==
    /\ inv[p].pc \in {"teardown", "up"} /\ inv[p].verb = "split"
    /\ inv[p].errs /\ ~inv[p].blind
    => live \subseteq inv[p].nets

ProcInv(p) == Point(p) /\ Sound(p) /\ Complete(p) /\ KeepsLive(p)

SyncInv == SyncExact /\ NoStaleBypass /\ ClearStays

\* The inductive invariant.
SplitSetInv == TypeOK /\ SyncInv /\ \A p \in Procs : ProcInv(p)

-----------------------------------------------------------------------------
(* coalesce *)

\* A bounded set of numbers has a greatest one.
LEMMA Greatest ==
    ASSUME NEW N \in Nat, NEW T, T \subseteq 0..N, T # {}
    PROVE  \E x \in T : \A y \in T : y <= x
<1> DEFINE U == {N - x : x \in T}
<1>1. U \subseteq Nat /\ U # {}
  <2>1. \A x \in T : x \in Nat /\ N - x \in Nat OBVIOUS
  <2> QED BY <2>1
<1>2. PICK u \in U : \A v \in U : ~(<<v, u>> \in OpToRel(<, Nat))
  <2> HIDE DEF U
  <2> QED BY <1>1, WFMin, NatLessThanWellFounded
<1>3. \A v \in U : ~(v < u) BY <1>1, <1>2 DEF OpToRel
<1>4. PICK x \in T : u = N - x OBVIOUS
<1>5. ASSUME NEW y \in T PROVE y <= x
  <2>1. ~(N - y < u) BY <1>3
  <2> QED BY <1>4, <2>1
<1> QED BY <1>5

\* Every prefix is covered by one that no other prefix covers.
LEMMA Maximal ==
    ASSUME NEW ps, ps \subseteq SUBSET Addr, NEW p \in ps
    PROVE  \E q \in Coalesce(ps) : p \subseteq q
<1> DEFINE Above == {q \in ps : p \subseteq q}
           T == {Cardinality(q) : q \in Above}
           N == Cardinality(Addr)
<1>1. \A q \in Above : IsFiniteSet(q) /\ Cardinality(q) \in 0..N
  BY SplitSetAssumption, FS_Subset, FS_CardinalityType
<1>2. N \in Nat
  BY SplitSetAssumption, FS_CardinalityType
<1>3. T \subseteq 0..N /\ T # {} BY <1>1
<1>4. PICK x \in T : \A y \in T : y <= x
  <2> HIDE DEF T, N
  <2> QED BY <1>2, <1>3, Greatest
<1>5. PICK q \in Above : x = Cardinality(q) OBVIOUS
<1>6. ASSUME NEW r \in ps, q \subseteq r PROVE q = r
  <2>1. r \in Above BY <1>6
  <2>2. Cardinality(r) <= Cardinality(q) BY <2>1, <1>4, <1>5
  <2>3. IsFiniteSet(r) /\ Cardinality(r) \in Nat /\ Cardinality(q) \in Nat
    BY <1>1, <2>1, <1>2
  <2>4. Cardinality(q) <= Cardinality(r) /\ (Cardinality(r) = Cardinality(q) => r = q)
    BY <1>6, <2>3, FS_Subset
  <2> QED BY <2>2, <2>3, <2>4
<1> QED BY <1>5, <1>6 DEF Coalesce

\* Nothing is lost and nothing gained.
LEMMA CoalesceCovers ==
    ASSUME NEW ps, ps \subseteq Prefixes \cup Hosts
    PROVE  Cover(Coalesce(ps)) = Cover(ps)
<1>1. ps \subseteq SUBSET Addr BY SplitSetAssumption DEF Hosts
<1>2. Coalesce(ps) \subseteq ps BY DEF Coalesce
<1>3. ASSUME NEW a \in Cover(ps) PROVE a \in Cover(Coalesce(ps))
  <2>1. PICK p \in ps : a \in p BY DEF Cover
  <2>2. PICK q \in Coalesce(ps) : p \subseteq q BY <1>1, Maximal
  <2> QED BY <2>1, <2>2 DEF Cover
<1> QED BY <1>2, <1>3 DEF Cover

\* nft takes the result: no two of its elements overlap.
LEMMA CoalesceDisjoint ==
    ASSUME NEW ps, ps \subseteq Prefixes \cup Hosts,
           NEW n \in Coalesce(ps), NEW m \in Coalesce(ps), Overlap(n, m)
    PROVE  n = m
BY SplitSetAssumption DEF Coalesce

-----------------------------------------------------------------------------
(* Resolution *)

LEMMA KindsAre ==
    ASSUME NEW e \in Entries
    PROVE  e.kind \in {"net", "docker", "compose", "k8s"}
<1>1. \A i \in 1..4 : Kinds[i] \in {"net", "docker", "compose", "k8s"}
  BY DEF Kinds
<1> QED BY <1>1, SplitSetAssumption

LEMMA NamesOnly ==
    ASSUME NEW e \in Entries
    PROVE  /\ e.kind = "net" => Selects[e] = {}
           /\ e.kind \in {"docker", "compose"} => Selects[e] \subseteq Containers \ Pods
           /\ Selects[e] \subseteq Containers
<1>1. Selects[e] \subseteq CASE e.kind = "net" -> {}
                             [] e.kind = "k8s" -> Pods
                             [] OTHER          -> Containers \ Pods
  BY SplitSetAssumption
<1> QED BY <1>1, SplitSetAssumption

\* One entry resolves to prefixes of the containers it names, if they run
\* here, and to all of them.
LEMMA NetsOfEntry ==
    ASSUME TypeOK, NEW e \in Entries
    PROVE  /\ NetsOf(e) \subseteq Prefixes \cup Hosts
           /\ e.kind = "net" => NetsOf(e) = {NetOf[e]}
           /\ e.kind # "net" => \A n \in NetsOf(e) : \E c \in Containers :
                /\ Runs(c) /\ c \in Selects[e] \ (Remote \cup HostNet) /\ n = {ip[c]}
           /\ \A c \in Selects[e] \ (Remote \cup HostNet) :
                Runs(c) => {ip[c]} \in NetsOf(e)
<1> USE KindsAre, NamesOnly
<1>1. \A c \in Containers :
        /\ \A n : n \in DockerNets(c) <=> ip[c] # None /\ n = {ip[c]}
        /\ ip[c] # None => {ip[c]} \in Hosts
  BY DEF DockerNets, TypeOK, Hosts
<1>2. CASE e.kind = "net"
  <2>1. NetsOf(e) = {NetOf[e]} BY <1>2 DEF NetsOf
  <2> QED BY <1>2, <2>1, SplitSetAssumption
<1>3. CASE e.kind \in {"docker", "compose"}
  <2>1. NetsOf(e) = UNION {DockerNets(c) : c \in Selects[e]}
    BY <1>3 DEF NetsOf, ComposeNets
  <2>2. \A c \in Selects[e] : c \in Containers /\ c \notin Remote \cup HostNet \cup done
    BY <1>3, SplitSetAssumption DEF TypeOK
  <2>3. \A n : n \in NetsOf(e) <=> \E c \in Selects[e] : ip[c] # None /\ n = {ip[c]}
    <3>1. \A n : n \in NetsOf(e) <=> \E c \in Selects[e] : n \in DockerNets(c)
      BY <2>1
    <3> QED BY <1>1, <2>2, <3>1
  <2>4. NetsOf(e) \subseteq Hosts BY <1>1, <2>2, <2>3
  <2> QED BY <1>3, <2>2, <2>3, <2>4 DEF Runs
<1>4. CASE e.kind = "k8s"
  <2>1. NetsOf(e) = UNION {DockerNets(c) : c \in Selects[e] \ (Remote \cup HostNet \cup done)}
    BY <1>4 DEF NetsOf, K8sNets
  <2>2. \A n : n \in NetsOf(e) <=>
            \E c \in Selects[e] \ (Remote \cup HostNet \cup done) :
                ip[c] # None /\ n = {ip[c]}
    <3>1. \A n : n \in NetsOf(e) <=>
            \E c \in Selects[e] \ (Remote \cup HostNet \cup done) : n \in DockerNets(c)
      BY <2>1
    <3> QED BY <1>1, <3>1
  <2>3. NetsOf(e) \subseteq Hosts BY <1>1, <2>2
  <2> QED BY <1>4, <2>2, <2>3 DEF Runs
<1> QED BY <1>2, <1>3, <1>4

LEMMA WantedIs == Wanted = WantedBy(disk)
BY DEF Wanted, WantedBy, Named, Recorded, RecordedIn

LEMMA WantedGrows ==
    ASSUME NEW D, NEW E, D \subseteq E
    PROVE  WantedBy(D) \subseteq WantedBy(E)
BY DEF WantedBy, Named

\* What an entry resolves to is wanted.
LEMMA NetsOfWanted ==
    ASSUME TypeOK, NEW e \in Entries, NEW D, e \in D
    PROVE  Cover(NetsOf(e)) \subseteq WantedBy(D)
<1>1. CASE e.kind = "net"
  BY <1>1, NetsOfEntry DEF Cover, WantedBy
<1>2. CASE e.kind # "net"
  <2>1. SUFFICES ASSUME NEW n \in NetsOf(e) PROVE n \subseteq WantedBy(D)
    BY DEF Cover
  <2>2. PICK c \in Containers :
          Runs(c) /\ c \in Selects[e] \ (Remote \cup HostNet) /\ n = {ip[c]}
    BY <1>2, NetsOfEntry
  <2>3. c \in Named(D) BY <2>2 DEF Named
  <2>4. ip[c] \in WantedBy(D) BY <2>3 DEF WantedBy
  <2> QED BY <2>2, <2>4
<1> QED BY <1>1, <1>2

-----------------------------------------------------------------------------
(* What several steps share *)

LEMMA IdleTyped ==
    /\ Idle \in Invocation
    /\ Idle.pc = "idle" /\ Idle.tag = "no" /\ Idle.nets = {} /\ Idle.moved = {}
    /\ Idle.errs = FALSE
<1> DEFINE no == FALSE
<1>1. no \in BOOLEAN OBVIOUS
<1>2. Idle = [pc |-> "idle", verb |-> "none", arg |-> None,
              cfg |-> {}, todo |-> {}, nets |-> {}, errs |-> no, tag |-> "no",
              moved |-> {}, blind |-> no]
  BY Zenon DEF Idle
<1>3. Idle.errs = no
  <2> HIDE DEF no
  <2> QED BY <1>2
<1>4. /\ Idle \in Invocation
      /\ Idle.pc = "idle" /\ Idle.tag = "no" /\ Idle.nets = {} /\ Idle.moved = {}
  <2> HIDE DEF no
  <2> QED BY <1>1, <1>2 DEF Invocation, Verbs
<1> QED BY <1>3, <1>4

LEMMA SpendTyped ==
    ASSUME TypeOK, NEW k \in {"move", "fault"}, Spend(k)
    PROVE  budget' \in [{"move", "fault"} -> Nat]
BY DEF TypeOK, Spend

\* Who is not at work has nothing to keep.
LEMMA Quiet ==
    ASSUME NEW p \in Procs, inv'[p].pc \in {"idle", "asked"}, inv'[p].tag # "yes",
           inv'[p].pc = "asked" => inv'[p].arg \in Entries
    PROVE  ProcInv(p)'
<1>1. ~Busy(p)' /\ ~Collects(p)' BY DEF Busy, Collects
<1> QED BY <1>1 DEF ProcInv, Point, Sound, Complete, KeepsLive

\* A step of others that leaves alone what p relies on.
LEMMA Unmoved ==
    ASSUME NEW p \in Procs, ProcInv(p), inv'[p] = inv[p],
           UNCHANGED <<ip, done, live, lock>>, sync' = "cleared" => sync = "cleared"
    PROVE  ProcInv(p)'
<1>1. Point(p)' BY DEF ProcInv, Point, Busy, Collects
<1>2. Sound(p)'
  BY DEF ProcInv, Sound, Collects, Resolved, WantedBy, Named, Runs, Cover
<1>3. Complete(p)'
  BY DEF ProcInv, Complete, Collects, Resolved, Runs, Cover
<1>4. KeepsLive(p)' BY DEF ProcInv, KeepsLive
<1> QED BY <1>1, <1>2, <1>3, <1>4 DEF ProcInv

\* Nobody else is at work beside the holder of the lock.
LEMMA OthersQuiet ==
    ASSUME SplitSetInv, NEW p \in Procs, lock = p \/ lock = None,
           NEW q \in Procs, q # p, inv'[q] = inv[q]
    PROVE  ProcInv(q)'
<1>1. Point(q) BY DEF SplitSetInv, ProcInv
<1>2. q # lock BY SplitSetAssumption
<1>3. /\ inv[q].pc \in {"idle", "asked"} /\ inv[q].tag # "yes"
      /\ inv[q].pc = "asked" => inv[q].arg \in Entries
  BY <1>1, <1>2 DEF Point, Busy
<1> QED BY <1>3, Quiet

LEMMA HolderHasLock ==
    ASSUME SplitSetInv, NEW p \in Procs, inv[p].pc \notin {"idle", "asked"}
    PROVE  lock = p
BY DEF SplitSetInv, ProcInv, Point, Busy

\* The holder of the lock returns, whatever it has changed.
LEMMA HolderReturns ==
    ASSUME SplitSetInv, NEW p \in Procs, inv[p].pc \notin {"idle", "asked"}, Return(p)
    PROVE  /\ inv' \in [Procs -> Invocation] /\ lock' \in Procs \cup {None}
           /\ \A q \in Procs : ProcInv(q)'
<1>1. inv' \in [Procs -> Invocation] /\ lock' \in Procs \cup {None}
  BY IdleTyped DEF Return, Set, SplitSetInv, TypeOK
<1>2. inv'[p] = Idle /\ \A q \in Procs \ {p} : inv'[q] = inv[q]
  BY DEF Return, Set, SplitSetInv, TypeOK
<1>3. \A q \in Procs \ {p} : ProcInv(q)' BY <1>2, HolderHasLock, OthersQuiet
<1>4. ProcInv(p)' BY <1>2, IdleTyped, Quiet
<1> QED BY <1>1, <1>3, <1>4

\* The holder of the lock goes on.
LEMMA HolderGoesOn ==
    ASSUME SplitSetInv, NEW p \in Procs, inv[p].pc \notin {"idle", "asked"},
           NEW r \in Invocation, Set(p, r), UNCHANGED lock
    PROVE  /\ inv' \in [Procs -> Invocation] /\ lock' \in Procs \cup {None}
           /\ inv'[p] = r /\ lock' = p
           /\ \A q \in Procs \ {p} : ProcInv(q)'
<1>1. inv' \in [Procs -> Invocation] /\ lock' \in Procs \cup {None}
  BY DEF Set, SplitSetInv, TypeOK
<1>2. inv'[p] = r /\ \A q \in Procs \ {p} : inv'[q] = inv[q]
  BY DEF Set, SplitSetInv, TypeOK
<1>3. \A q \in Procs \ {p} : ProcInv(q)' BY <1>2, HolderHasLock, OthersQuiet
<1> QED BY <1>1, <1>2, <1>3, HolderHasLock

\* A step with the lock, of which inv' is known, keeps the types if the rest does.
LEMMA TypesFrom ==
    ASSUME ip' \in [Containers -> Addr \cup {None}], done' \subseteq Pods,
           disk' \subseteq Entries, copies' \subseteq SUBSET Entries,
           mode' \in {"none", "split", "full"},
           live' \subseteq Prefixes \cup Hosts,
           \A n, m \in live' : Overlap(n, m) => n = m,
           tagged' \subseteq Procs, lock' \in Procs \cup {None},
           inv' \in [Procs -> Invocation], \A p \in Procs : ProcInv(p)',
           sync' \in {"none", "part", "exact", "cleared"},
           budget' \in [{"move", "fault"} -> Nat]
    PROVE  TypeOK'
<1>1. \A p \in Procs : inv'[p].pc = "up" => inv'[p].tag # "yes"
  BY DEF ProcInv, Point
<1> QED BY <1>1 DEF TypeOK

LEMMA SyncSame ==
    ASSUME SyncInv, UNCHANGED <<ip, done, disk, live, sync>> PROVE SyncInv'
BY DEF SyncInv, SyncExact, NoStaleBypass, ClearStays, Cover, Wanted, Recorded,
       RecordedIn, Runs

LEMMA SyncNone == ASSUME sync' = "none" PROVE SyncInv'
BY DEF SyncInv, SyncExact, NoStaleBypass, ClearStays

-----------------------------------------------------------------------------
(* The steps *)

LEMMA InitHolds == ASSUME Init PROVE SplitSetInv
<1>1. inv \in [Procs -> Invocation] /\ \A p \in Procs : inv[p] = Idle
  BY IdleTyped DEF Init
<1>2. TypeOK
  BY <1>1, IdleTyped, SplitSetAssumption DEF Init, TypeOK
<1>3. SyncInv BY DEF Init, SyncInv, SyncExact, NoStaleBypass, ClearStays
<1>4. ASSUME NEW p \in Procs PROVE ProcInv(p)
  <2>1. inv[p].pc = "idle" /\ inv[p].tag = "no" BY <1>1, IdleTyped
  <2>2. ~Busy(p) /\ ~Collects(p) BY <2>1 DEF Busy, Collects
  <2> QED BY <2>1, <2>2 DEF ProcInv, Point, Sound, Complete, KeepsLive
<1> QED BY <1>2, <1>3, <1>4 DEF SplitSetInv

\* lock.AcquireRoot and config.Load.
LEMMA LockedHolds ==
    ASSUME SplitSetInv, NEW p \in Procs, inv[p].pc \in {"idle", "asked"},
           NEW verb \in Verbs \ {"none"}, NEW arg \in Entries \cup {None},
           verb \in {"add", "rm"} => arg \in Entries,
           Locked(p, verb, arg),
           UNCHANGED <<ip, done, disk, copies, mode, live, tagged, sync, budget>>
    PROVE  SplitSetInv'
<1> USE DEF SplitSetInv
<1>1. SyncInv' BY SyncSame
<1>2. CASE lock = None /\ lock' = p /\ Loaded(p, verb, arg)
  <2> DEFINE r == [Idle EXCEPT !.verb = verb, !.arg = arg, !.pc = First(verb),
                               !.cfg = disk, !.todo = disk,
                               !.tag = Inherited(p, verb)]
  <2>1. /\ First(verb) \in {"edit", "resolve", "flush", "escape", "teardown"}
        /\ First(verb) = "edit" => verb \in {"add", "rm"}
        /\ First(verb) = "flush" => verb = "clear"
        /\ First(verb) = "teardown" => verb = "disconnect"
        /\ verb \in {"split", "full"} <=> First(verb) = "escape"
    BY DEF First, Verbs
  <2>2. /\ Inherited(p, verb) \in {"no", "yes"}
        /\ Inherited(p, verb) = "yes" => First(verb) = "escape"
    BY DEF Inherited, First
  <2>3. disk \in SUBSET Entries BY DEF TypeOK
  <2>4. /\ r \in Invocation /\ r.verb = verb /\ r.arg = arg /\ r.pc = First(verb)
        /\ r.cfg = disk /\ r.todo = disk /\ r.tag = Inherited(p, verb)
        /\ r.nets = {} /\ r.moved = {} /\ r.errs = Idle.errs
    BY <2>1, <2>2, <2>3, IdleTyped DEF Invocation
  <2> HIDE DEF r
  <2>5. /\ inv' \in [Procs -> Invocation] /\ inv'[p] = r
        /\ \A q \in Procs \ {p} : inv'[q] = inv[q]
    BY <1>2, <2>4 DEF Loaded, Set, TypeOK, r
  <2>6. \A q \in Procs \ {p} : ProcInv(q)' BY <1>2, <2>5, OthersQuiet
  <2>7. ProcInv(p)'
    <3>1. Point(p)'
      BY <1>2, <2>1, <2>2, <2>4, <2>5 DEF Point, Busy, Collects, SyncInv, ClearStays
    <3>2. Sound(p)'
      <4>1. Cover(inv'[p].nets) = {} BY <2>4, <2>5 DEF Cover
      <4> QED BY <4>1 DEF Sound, Cover
    <3>3. Complete(p)'
      BY <2>4, <2>5 DEF Complete, Resolved
    <3>4. KeepsLive(p)'
      BY <2>1, <2>4, <2>5 DEF KeepsLive
    <3> QED BY <3>1, <3>2, <3>3, <3>4 DEF ProcInv
  <2>8. \A q \in Procs : ProcInv(q)' BY <2>6, <2>7
  <2>9. TypeOK' BY <1>2, <2>5, <2>8, TypesFrom DEF TypeOK
  <2> QED BY <1>1, <2>8, <2>9
<1>3. CASE Set(p, Idle) /\ UNCHANGED lock
  <2>1. /\ inv' \in [Procs -> Invocation] /\ inv'[p] = Idle
        /\ \A q \in Procs \ {p} : inv'[q] = inv[q]
    BY <1>3, IdleTyped DEF Set, TypeOK
  <2>2. \A q \in Procs \ {p} : ProcInv(q)' BY <1>3, <2>1, Unmoved
  <2>3. ProcInv(p)' BY <2>1, IdleTyped, Quiet
  <2>4. \A q \in Procs : ProcInv(q)' BY <2>2, <2>3
  <2>5. TypeOK' BY <1>3, <2>1, <2>4, TypesFrom DEF TypeOK
  <2> QED BY <1>1, <2>4, <2>5
<1> QED BY <1>2, <1>3 DEF Locked

LEMMA StartsHold ==
    ASSUME SplitSetInv, NEW p \in Procs,
           AddIP(p) \/ Rm(p) \/ SplitRefresh(p) \/ SplitClear(p) \/ Connect(p)
           \/ Disconnect(p) \/ Asked(p)
    PROVE  SplitSetInv'
<1>1. CASE Asked(p)
  <2>1. inv[p].arg \in Entries BY <1>1 DEF Asked, SplitSetInv, ProcInv, Point
  <2> QED BY <1>1, <2>1, LockedHolds DEF Asked, world, Verbs
<1>2. CASE AddIP(p) \/ Rm(p)
  <2>1. PICK e \in Entries, v \in {"add", "rm"} : Starts(p) /\ Locked(p, v, e)
    BY <1>2 DEF AddIP, Rm
  <2> QED BY <2>1, LockedHolds DEF Starts, world, Verbs
<1>3. CASE SplitRefresh(p) \/ SplitClear(p) \/ Connect(p) \/ Disconnect(p)
  <2>1. PICK v \in {"refresh", "clear", "split", "full", "disconnect"} :
          Starts(p) /\ Locked(p, v, None)
    BY <1>3 DEF SplitRefresh, SplitClear, Connect, Disconnect
  <2> QED BY <2>1, LockedHolds DEF Starts, world, Verbs
<1> QED BY <1>1, <1>2, <1>3

LEMMA AskHolds == ASSUME SplitSetInv, NEW p \in Procs, Ask(p) PROVE SplitSetInv'
<1> USE DEF SplitSetInv
<1>1. PICK e \in Entries :
        Set(p, [Idle EXCEPT !.verb = "add", !.arg = e, !.pc = "asked"])
  BY DEF Ask
<1>2. /\ inv' \in [Procs -> Invocation]
      /\ inv'[p].pc = "asked" /\ inv'[p].tag = "no" /\ inv'[p].arg = e
      /\ \A q \in Procs \ {p} : inv'[q] = inv[q]
  <2> DEFINE r == [Idle EXCEPT !.verb = "add", !.arg = e, !.pc = "asked"]
  <2>1. r \in Invocation /\ r.pc = "asked" /\ r.tag = "no" /\ r.arg = e
    BY IdleTyped DEF Invocation, Verbs
  <2> HIDE DEF r
  <2> QED BY <1>1, <2>1 DEF Set, TypeOK, r
<1>3. UNCHANGED <<ip, done, disk, copies, mode, live, tagged, lock, sync, budget>>
  BY DEF Ask, world
<1>4. \A q \in Procs \ {p} : ProcInv(q)' BY <1>2, <1>3, Unmoved
<1>5. ProcInv(p)' BY <1>2, Quiet
<1>6. \A q \in Procs : ProcInv(q)' BY <1>4, <1>5
<1>7. TypeOK' BY <1>2, <1>3, <1>6, TypesFrom DEF TypeOK
<1> QED BY <1>3, <1>6, <1>7, SyncSame

\* The entries change, and what was collected starts from nothing.
LEMMA EditHolds == ASSUME SplitSetInv, NEW p \in Procs, Edit(p) PROVE SplitSetInv'
<1> USE DEF SplitSetInv
<1> DEFINE i == inv[p]
           new == IF i.verb = "add" THEN i.cfg \cup {i.arg}
                                    ELSE i.cfg \ Match(i.arg)
<1>1. /\ i.pc = "edit" /\ i \in Invocation /\ i.nets = {} /\ i.tag # "yes"
      /\ new \subseteq Entries
  BY DEF Edit, TypeOK, Invocation, ProcInv, Point
<1>2. UNCHANGED <<ip, done, copies, mode, live, tagged>> BY DEF Edit, world
<1>3. budget' \in [{"move", "fault"} -> Nat] BY SpendTyped DEF Edit, TypeOK
<1>4. CASE /\ Return(p)
           /\ \/ UNCHANGED <<disk, sync>>
              \/ disk' = new /\ sync' = "none"
  <2>1. /\ inv' \in [Procs -> Invocation] /\ lock' \in Procs \cup {None}
        /\ \A q \in Procs : ProcInv(q)'
    BY <1>1, <1>4, HolderReturns
  <2>2. TypeOK' BY <1>1, <1>2, <1>3, <1>4, <2>1, TypesFrom DEF TypeOK
  <2>3. SyncInv' BY <1>2, <1>4, SyncSame, SyncNone
  <2> QED BY <2>1, <2>2, <2>3
<1>5. CASE /\ disk' = new /\ sync' = "none"
           /\ Set(p, [i EXCEPT !.pc = "resolve", !.cfg = new, !.todo = new,
                                !.arg = None])
           /\ UNCHANGED lock
  <2> DEFINE r == [i EXCEPT !.pc = "resolve", !.cfg = new, !.todo = new,
                            !.arg = None]
  <2> HIDE DEF new
  <2>1. /\ r \in Invocation /\ r.pc = "resolve" /\ r.cfg = new /\ r.todo = new
        /\ r.nets = {} /\ r.tag # "yes"
    BY <1>1 DEF Invocation
  <2> HIDE DEF r
  <2>2. Set(p, r) BY <1>5 DEF r
  <2>3. /\ inv' \in [Procs -> Invocation] /\ lock' \in Procs \cup {None}
        /\ inv'[p] = r /\ lock' = p
        /\ \A q \in Procs \ {p} : ProcInv(q)'
    BY <1>1, <1>5, <2>1, <2>2, HolderGoesOn
  <2>4. Point(p)' BY <1>5, <2>1, <2>3 DEF Point, Busy, Collects
  <2>5. Sound(p)'
    <3>1. Cover(inv'[p].nets) = {} BY <2>1, <2>3 DEF Cover
    <3> QED BY <3>1 DEF Sound, Cover
  <2>6. Complete(p)' BY <1>5, <2>1, <2>3 DEF Complete, Resolved
  <2>7. KeepsLive(p)' BY <2>1, <2>3 DEF KeepsLive
  <2>8. \A q \in Procs : ProcInv(q)' BY <2>3, <2>4, <2>5, <2>6, <2>7 DEF ProcInv
  <2>9. TypeOK' BY <1>1, <1>2, <1>3, <1>5, <2>3, <2>8, TypesFrom DEF TypeOK
  <2> QED BY <1>5, <2>8, <2>9, SyncNone
<1>6. \/ Return(p) /\ UNCHANGED <<disk, sync>>
      \/ Return(p) /\ disk' = new /\ sync' = "none"
      \/ /\ disk' = new /\ sync' = "none"
         /\ Set(p, [i EXCEPT !.pc = "resolve", !.cfg = new, !.todo = new,
                              !.arg = None])
         /\ UNCHANGED lock
  BY Zenon DEF Edit
<1> QED
  <2> HIDE DEF i, new
  <2> QED BY <1>4, <1>5, <1>6, Zenon

\* One more entry is resolved, or skipped with an error.
LEMMA ResolveHolds == ASSUME SplitSetInv, NEW p \in Procs, Resolve(p) PROVE SplitSetInv'
<1> USE DEF SplitSetInv
<1> DEFINE i == inv[p]
<1>1. /\ i.pc = "resolve" /\ i \in Invocation /\ i.tag # "yes"
      /\ i.todo \subseteq i.cfg /\ Collects(p)
  BY DEF Resolve, TypeOK, ProcInv, Point, Collects
<1>2. UNCHANGED <<ip, done, disk, copies, mode, live, tagged, lock, sync>>
  BY DEF Resolve, world
<1>3. PICK e \in i.todo :
        \/ /\ Set(p, [[i EXCEPT !.todo = @ \ {e}] EXCEPT !.nets = @ \cup NetsOf(e)])
           /\ UNCHANGED budget
        \/ /\ Set(p, [[i EXCEPT !.todo = @ \ {e}] EXCEPT !.errs = TRUE])
           /\ UNCHANGED budget \/ Spend("fault")
  BY DEF Resolve
<1>4. e \in Entries /\ e \in i.cfg BY <1>1 DEF Invocation
<1>5. sync # "cleared" BY <1>1, <1>4 DEF ProcInv, Point
<1>6. budget' \in [{"move", "fault"} -> Nat] BY <1>3, SpendTyped DEF TypeOK
<1>7. SyncInv' BY <1>2, SyncSame
<1>8. SUFFICES ASSUME NEW r \in Invocation, Set(p, r), r.pc = "resolve",
                      r.tag = i.tag, r.todo = i.todo \ {e}, r.moved = i.moved,
                      r.verb = i.verb, r.cfg = i.cfg,
                      \/ r.errs = i.errs /\ r.nets = i.nets \cup NetsOf(e)
                      \/ r.errs /\ r.nets = i.nets
               PROVE  SplitSetInv'
  <2>1. CASE Set(p, [[i EXCEPT !.todo = @ \ {e}] EXCEPT !.nets = @ \cup NetsOf(e)])
    <3> DEFINE r == [[i EXCEPT !.todo = @ \ {e}] EXCEPT !.nets = @ \cup NetsOf(e)]
    <3>1. NetsOf(e) \subseteq Prefixes \cup Hosts BY <1>4, NetsOfEntry
    <3>2. /\ r \in Invocation /\ r.pc = "resolve" /\ r.tag = i.tag
          /\ r.todo = i.todo \ {e} /\ r.moved = i.moved /\ r.verb = i.verb
          /\ r.cfg = i.cfg
          /\ r.errs = i.errs /\ r.nets = i.nets \cup NetsOf(e)
      BY <1>1, <3>1 DEF Invocation
    <3> HIDE DEF r
    <3>3. Set(p, r) BY <2>1 DEF r
    <3> QED BY <1>8, <3>2, <3>3
  <2>2. CASE Set(p, [[i EXCEPT !.todo = @ \ {e}] EXCEPT !.errs = TRUE])
    <3> DEFINE r == [[i EXCEPT !.todo = @ \ {e}] EXCEPT !.errs = TRUE]
    <3>1. /\ r \in Invocation /\ r.pc = "resolve" /\ r.tag = i.tag
          /\ r.todo = i.todo \ {e} /\ r.moved = i.moved /\ r.verb = i.verb
          /\ r.cfg = i.cfg
          /\ r.errs /\ r.nets = i.nets
      BY <1>1 DEF Invocation
    <3> HIDE DEF r
    <3>2. Set(p, r) BY <2>2 DEF r
    <3> QED BY <1>8, <3>1, <3>2
  <2> QED BY <1>3, <2>1, <2>2
<1>9. /\ inv' \in [Procs -> Invocation] /\ lock' \in Procs \cup {None}
      /\ inv'[p] = r /\ lock' = p
      /\ \A q \in Procs \ {p} : ProcInv(q)'
  BY <1>1, <1>2, <1>8, HolderGoesOn
<1>10. Point(p)'
  BY <1>1, <1>2, <1>5, <1>8, <1>9 DEF Point, Busy, Collects
<1>11. Resolved(p)' = Resolved(p) \cup {e}
  BY <1>2, <1>4, <1>8, <1>9 DEF Resolved
<1>12. Cover(i.nets \cup NetsOf(e)) = Cover(i.nets) \cup Cover(NetsOf(e))
  BY DEF Cover
<1>13. Sound(p)'
  <2>1. SUFFICES ASSUME r.moved = {}, r.verb = "split" => ~r.errs
                 PROVE  Cover(r.nets) \subseteq WantedBy(Resolved(p) \cup {e})
    <3>1. WantedBy(Resolved(p))' = WantedBy(Resolved(p) \cup {e})
      BY <1>2, <1>11 DEF WantedBy, Named, Runs
    <3> QED BY <1>9, <2>1, <3>1 DEF Sound, Cover
  <2>2. i.verb = "split" => ~i.errs BY <1>8, <2>1
  <2>3. Cover(i.nets) \subseteq WantedBy(Resolved(p))
    BY <1>1, <1>8, <2>1, <2>2 DEF ProcInv, Sound
  <2>4. WantedBy(Resolved(p)) \subseteq WantedBy(Resolved(p) \cup {e})
    BY WantedGrows
  <2>5. Cover(NetsOf(e)) \subseteq WantedBy(Resolved(p) \cup {e})
    BY <1>4, NetsOfWanted
  <2> QED BY <1>8, <1>12, <2>3, <2>4, <2>5
<1>14. Complete(p)'
  <2>1. SUFFICES ASSUME ~r.errs, NEW f \in Resolved(p) \cup {e}
                 PROVE  /\ f.kind = "net" => NetOf[f] \subseteq Cover(r.nets)
                        /\ \A c \in Selects[f] \ (Remote \cup HostNet \cup r.moved) :
                              Runs(c) => ip[c] \in Cover(r.nets)
    BY <1>2, <1>9, <1>11, <2>1 DEF Complete, Runs, Cover
  <2>2. ~i.errs /\ r.nets = i.nets \cup NetsOf(e) BY <1>8, <2>1
  <2>3. CASE f \in Resolved(p)
    BY <1>1, <1>8, <1>12, <2>2, <2>3 DEF ProcInv, Complete
  <2>4. CASE f = e
    <3>1. e.kind = "net" => NetOf[e] \in r.nets BY <1>4, <2>2, NetsOfEntry
    <3>2. \A c \in Selects[e] \ (Remote \cup HostNet) : Runs(c) => {ip[c]} \in r.nets
      BY <1>4, <2>2, NetsOfEntry
    <3> QED BY <2>4, <3>1, <3>2 DEF Cover
  <2> QED BY <2>1, <2>3, <2>4
<1>15. KeepsLive(p)' BY <1>8, <1>9 DEF KeepsLive
<1>16. \A q \in Procs : ProcInv(q)' BY <1>9, <1>10, <1>13, <1>14, <1>15 DEF ProcInv
<1>17. TypeOK' BY <1>2, <1>6, <1>9, <1>16, TypesFrom DEF TypeOK
<1> QED BY <1>7, <1>16, <1>17

LEMMA CoalesceTyped ==
    ASSUME NEW ps, ps \subseteq Prefixes \cup Hosts
    PROVE  /\ Coalesce(ps) \subseteq Prefixes \cup Hosts
           /\ \A n, m \in Coalesce(ps) : Overlap(n, m) => n = m
<1>1. Coalesce(ps) \subseteq ps BY DEF Coalesce
<1> QED BY <1>1, CoalesceDisjoint

\* Everything is resolved: what was collected is what is wanted.
LEMMA CollectedWanted ==
    ASSUME SplitSetInv, NEW p \in Procs, Collects(p), inv[p].todo = {}, Fresh(p),
           inv[p].verb = "split" => ~inv[p].errs
    PROVE  /\ Cover(Coalesce(inv[p].nets)) \subseteq WantedBy(inv[p].cfg)
           /\ ~inv[p].errs => Cover(Coalesce(inv[p].nets)) = WantedBy(inv[p].cfg)
<1> USE DEF SplitSetInv
<1> DEFINE cfg == inv[p].cfg
<1>1. inv[p].moved = {} /\ Resolved(p) = cfg BY DEF Fresh, Resolved
<1>2. Cover(inv[p].nets) \subseteq WantedBy(cfg)
  BY <1>1 DEF ProcInv, Sound
<1>3. inv[p].nets \subseteq Prefixes \cup Hosts BY DEF TypeOK, Invocation
<1>4. Cover(Coalesce(inv[p].nets)) = Cover(inv[p].nets)
  BY <1>3, CoalesceCovers
<1>5. ASSUME ~inv[p].errs, NEW a \in WantedBy(cfg) PROVE a \in Cover(inv[p].nets)
  <2>1. \A e \in cfg :
            /\ e.kind = "net" => NetOf[e] \subseteq Cover(inv[p].nets)
            /\ \A c \in Selects[e] \ (Remote \cup HostNet) :
                  Runs(c) => ip[c] \in Cover(inv[p].nets)
    BY <1>1, <1>5 DEF ProcInv, Complete
  <2>2. CASE \E e \in cfg : e.kind = "net" /\ a \in NetOf[e]
    BY <2>1, <2>2
  <2>3. CASE \E c \in Named(cfg) : a = ip[c]
    BY <2>1, <2>3 DEF Named
  <2> QED BY <1>5, <2>2, <2>3 DEF WantedBy
<1> QED BY <1>2, <1>4, <1>5

LEMMA SetNetsHolds == ASSUME SplitSetInv, NEW p \in Procs, SetNets(p) PROVE SplitSetInv'
<1> USE DEF SplitSetInv
<1>1. /\ inv[p].pc = "resolve" /\ inv[p].todo = {} /\ Collects(p) /\ Return(p)
      /\ inv[p].verb \in {"add", "rm", "refresh"}
      /\ inv[p].nets \subseteq Prefixes \cup Hosts
  BY DEF SetNets, Collects, TypeOK, Invocation
<1>2. /\ inv' \in [Procs -> Invocation] /\ lock' \in Procs \cup {None}
      /\ \A q \in Procs : ProcInv(q)'
  BY <1>1, HolderReturns
<1>3. UNCHANGED <<ip, done, disk, copies, mode, tagged>> BY DEF SetNets, world
<1>4. budget' \in [{"move", "fault"} -> Nat] BY SpendTyped DEF SetNets, TypeOK
<1>5. CASE UNCHANGED <<live, sync>>
  <2>1. TypeOK' BY <1>2, <1>3, <1>4, <1>5, TypesFrom DEF TypeOK
  <2> QED BY <1>2, <1>3, <1>5, <2>1, SyncSame
<1>6. CASE /\ ~Refuses(p) /\ live' = Coalesce(inv[p].nets)
           /\ sync' = IF Fresh(p) /\ Current(p) THEN "exact" ELSE "none"
  <2>1. TypeOK' BY <1>1, <1>2, <1>3, <1>4, <1>6, CoalesceTyped, TypesFrom DEF TypeOK
  <2>2. SyncInv'
    <3>1. CASE ~(Fresh(p) /\ Current(p)) BY <1>6, <3>1, SyncNone
    <3>2. CASE Fresh(p) /\ Current(p)
      <4>1. Cover(live') = Wanted
        BY <1>1, <1>6, <3>2, CollectedWanted, WantedIs DEF Refuses, Current
      <4>2. Wanted' = Wanted BY <1>3 DEF Wanted, Recorded, RecordedIn, Runs
      <4> QED BY <1>6, <3>2, <4>1, <4>2 DEF SyncInv, SyncExact, NoStaleBypass,
                 ClearStays, Cover
    <3> QED BY <3>1, <3>2
  <2> QED BY <1>2, <2>1, <2>2
<1> QED BY <1>5, <1>6 DEF SetNets

LEMMA FlushHolds == ASSUME SplitSetInv, NEW p \in Procs, Flush(p) PROVE SplitSetInv'
<1> USE DEF SplitSetInv
<1>1. /\ inv[p].pc = "flush" /\ inv[p] \in Invocation /\ inv[p].verb = "clear"
      /\ inv[p].tag # "yes"
  BY DEF Flush, TypeOK, ProcInv, Point
<1>2. UNCHANGED <<ip, done, disk, copies, mode, lock>> BY DEF Flush, world
<1>3. /\ live' \in {live, {}} /\ tagged' \in {tagged, {}} /\ sync' = "none"
      /\ budget' \in [{"move", "fault"} -> Nat]
  BY SpendTyped DEF Flush, TypeOK
<1>4. PICK r \in Invocation :
        /\ Set(p, r) /\ r.pc = "forget" /\ r.verb = "clear" /\ r.tag # "yes"
        /\ ~r.errs => live' = {}
  <2>1. CASE live' = {} /\ Goto(p, "forget")
    <3> DEFINE r == [inv[p] EXCEPT !.pc = "forget"]
    <3>1. r \in Invocation /\ r.pc = "forget" /\ r.verb = "clear" /\ r.tag # "yes"
      BY <1>1 DEF Invocation
    <3> HIDE DEF r
    <3>2. Set(p, r) BY <2>1 DEF r, Goto
    <3> QED BY <2>1, <3>1, <3>2
  <2>2. CASE Set(p, [inv[p] EXCEPT !.pc = "forget", !.errs = TRUE])
    <3> DEFINE r == [inv[p] EXCEPT !.pc = "forget", !.errs = TRUE]
    <3>1. /\ r \in Invocation /\ r.pc = "forget" /\ r.verb = "clear"
          /\ r.tag # "yes" /\ r.errs
      BY <1>1 DEF Invocation
    <3> HIDE DEF r
    <3>2. Set(p, r) BY <2>2 DEF r
    <3> QED BY <3>1, <3>2
  <2> QED BY <2>1, <2>2 DEF Flush
<1>5. /\ inv' \in [Procs -> Invocation] /\ lock' \in Procs \cup {None}
      /\ inv'[p] = r /\ lock' = p
      /\ \A q \in Procs \ {p} : ProcInv(q)'
  BY <1>1, <1>2, <1>4, HolderGoesOn
<1>6. ~Collects(p)' BY <1>4, <1>5 DEF Collects
<1>7. ProcInv(p)'
  BY <1>4, <1>5, <1>6 DEF ProcInv, Point, Busy, Sound, Complete, KeepsLive
<1>8. \A q \in Procs : ProcInv(q)' BY <1>5, <1>7
<1>9. TypeOK' BY <1>2, <1>3, <1>5, <1>8, TypesFrom DEF TypeOK
<1> QED BY <1>3, <1>8, <1>9, SyncNone

\* Nothing was added to the sets since they were flushed.
LEMMA ForgetHolds == ASSUME SplitSetInv, NEW p \in Procs, Forget(p) PROVE SplitSetInv'
<1> USE DEF SplitSetInv
<1>1. inv[p].pc = "forget" /\ Return(p) /\ (~inv[p].errs => live = {})
  BY DEF Forget, ProcInv, Point
<1>2. /\ inv' \in [Procs -> Invocation] /\ lock' \in Procs \cup {None}
      /\ \A q \in Procs : ProcInv(q)'
  BY <1>1, HolderReturns
<1>3. UNCHANGED <<ip, done, copies, mode, live, tagged>> BY DEF Forget, world
<1>4. /\ disk' \subseteq Entries /\ sync' \in {"none", "part", "exact", "cleared"}
      /\ budget' \in [{"move", "fault"} -> Nat]
  BY SpendTyped DEF Forget, TypeOK
<1>5. TypeOK' BY <1>2, <1>3, <1>4, TypesFrom DEF TypeOK
<1>6. SyncInv'
  <2>1. CASE UNCHANGED <<disk, sync>> BY <1>3, <2>1, SyncSame
  <2>2. CASE sync' = "none" BY <2>2, SyncNone
  <2>3. CASE disk' = {} /\ sync' = "cleared" /\ ~inv[p].errs
    BY <1>1, <1>3, <2>3 DEF SyncInv, SyncExact, NoStaleBypass, ClearStays
  <2> QED BY <2>1, <2>2, <2>3 DEF Forget
<1> QED BY <1>2, <1>5, <1>6

\* A connect goes on with what it has collected.
LEMMA CollectedKept ==
    ASSUME NEW p \in Procs, ProcInv(p), Collects(p), UNCHANGED <<ip, done>>,
           inv'[p].cfg = inv[p].cfg, inv'[p].todo = inv[p].todo, inv'[p].moved = inv[p].moved,
           inv'[p].verb = inv[p].verb, inv'[p].errs = inv[p].errs,
           \/ inv'[p].nets = inv[p].nets
           \/ inv[p].verb = "split" /\ inv[p].errs
    PROVE  Sound(p)' /\ Complete(p)'
<1>1. Resolved(p)' = Resolved(p) BY DEF Resolved
<1>2. WantedBy(Resolved(p))' = WantedBy(Resolved(p))
  BY <1>1 DEF WantedBy, Named, Runs
<1>3. Sound(p)' BY <1>2 DEF ProcInv, Sound, Cover
<1>4. Complete(p)' BY <1>1 DEF ProcInv, Complete, Runs, Cover
<1> QED BY <1>3, <1>4

LEMMA EscapeHolds == ASSUME SplitSetInv, NEW p \in Procs, Escape(p) PROVE SplitSetInv'
<1> USE DEF SplitSetInv
<1>1. inv[p].pc = "escape" /\ inv[p] \in Invocation /\ Collects(p)
  BY DEF Escape, TypeOK, Collects
<1>2. UNCHANGED <<ip, done, disk, copies, mode, live, tagged, lock, sync>>
  BY DEF Escape, world
<1>3. budget' \in [{"move", "fault"} -> Nat] BY SpendTyped DEF Escape, TypeOK
<1>4. PICK t \in {"no", "stuck"} : Set(p, [inv[p] EXCEPT !.pc = "resolve", !.tag = t])
  BY DEF Escape
<1> DEFINE r == [inv[p] EXCEPT !.pc = "resolve", !.tag = t]
<1>5. /\ r \in Invocation /\ r.pc = "resolve" /\ r.tag = t
      /\ r.cfg = inv[p].cfg /\ r.todo = inv[p].todo
      /\ r.moved = inv[p].moved /\ r.verb = inv[p].verb
      /\ r.errs = inv[p].errs /\ r.nets = inv[p].nets
  BY <1>1 DEF Invocation
<1> HIDE DEF r
<1>6. Set(p, r) BY <1>4 DEF r
<1>7. /\ inv' \in [Procs -> Invocation] /\ lock' \in Procs \cup {None}
      /\ inv'[p] = r /\ lock' = p
      /\ \A q \in Procs \ {p} : ProcInv(q)'
  BY <1>1, <1>2, <1>5, <1>6, HolderGoesOn
<1>8. Point(p)' BY <1>1, <1>2, <1>5, <1>7 DEF ProcInv, Point, Busy, Collects
<1>9. Sound(p)' /\ Complete(p)' BY <1>1, <1>2, <1>5, <1>7, CollectedKept
<1>10. KeepsLive(p)' BY <1>5, <1>7 DEF KeepsLive
<1>11. \A q \in Procs : ProcInv(q)' BY <1>7, <1>8, <1>9, <1>10 DEF ProcInv
<1>12. TypeOK' BY <1>2, <1>3, <1>7, <1>11, TypesFrom DEF TypeOK
<1> QED BY <1>2, <1>11, <1>12, SyncSame

LEMMA KeepHolds == ASSUME SplitSetInv, NEW p \in Procs, Keep(p) PROVE SplitSetInv'
<1> USE DEF SplitSetInv
<1>1. /\ inv[p].pc = "resolve" /\ inv[p] \in Invocation /\ Collects(p)
      /\ inv[p].todo = {} /\ inv[p].verb \in {"split", "full"} /\ inv[p].tag # "yes"
  BY DEF Keep, TypeOK, Collects, ProcInv, Point
<1>2. UNCHANGED <<ip, done, disk, copies, mode, live, tagged, lock, sync>>
  BY DEF Keep, world
<1>3. budget' \in [{"move", "fault"} -> Nat] BY SpendTyped DEF Keep, TypeOK
<1>4. /\ Kept(p) \subseteq Prefixes \cup Hosts
      /\ sync = "cleared" => Kept(p) = {}
      /\ Kept(p) = inv[p].nets \/ (inv[p].verb = "split" /\ inv[p].errs)
      /\ inv[p].verb = "split" /\ inv[p].errs => live \subseteq Kept(p)
  BY <1>1 DEF Kept, TypeOK, Invocation, SyncInv, ClearStays, ProcInv, Point
<1>5. PICK r \in Invocation :
        /\ Set(p, r) /\ r.pc = "teardown" /\ r.tag = inv[p].tag
        /\ r.cfg = inv[p].cfg /\ r.todo = {} /\ r.moved = inv[p].moved
        /\ r.verb = inv[p].verb /\ r.errs = inv[p].errs
        /\ \/ r.nets = Kept(p)
           \/ r.nets = inv[p].nets /\ r.errs /\ r.verb = "split" /\ r.blind
  <2>1. CASE Set(p, [inv[p] EXCEPT !.pc = "teardown", !.nets = Kept(p)])
    <3> DEFINE r == [inv[p] EXCEPT !.pc = "teardown", !.nets = Kept(p)]
    <3>1. /\ r \in Invocation /\ r.pc = "teardown" /\ r.tag = inv[p].tag
          /\ r.cfg = inv[p].cfg /\ r.todo = {} /\ r.moved = inv[p].moved
          /\ r.verb = inv[p].verb /\ r.errs = inv[p].errs /\ r.nets = Kept(p)
      BY <1>1, <1>4 DEF Invocation
    <3> HIDE DEF r
    <3>2. Set(p, r) BY <2>1 DEF r
    <3> QED BY <3>1, <3>2
  <2>2. CASE /\ inv[p].verb = "split" /\ inv[p].errs
             /\ Set(p, [inv[p] EXCEPT !.pc = "teardown", !.blind = TRUE])
    <3> DEFINE r == [inv[p] EXCEPT !.pc = "teardown", !.blind = TRUE]
    <3>1. /\ r \in Invocation /\ r.pc = "teardown" /\ r.tag = inv[p].tag
          /\ r.cfg = inv[p].cfg /\ r.todo = {} /\ r.moved = inv[p].moved
          /\ r.verb = inv[p].verb /\ r.errs = inv[p].errs
          /\ r.nets = inv[p].nets /\ r.blind
      BY <1>1 DEF Invocation
    <3> HIDE DEF r
    <3>2. Set(p, r) BY <2>2 DEF r
    <3> QED BY <2>2, <3>1, <3>2
  <2> QED BY <2>1, <2>2 DEF Keep
<1>6. /\ inv' \in [Procs -> Invocation] /\ lock' \in Procs \cup {None}
      /\ inv'[p] = r /\ lock' = p
      /\ \A q \in Procs \ {p} : ProcInv(q)'
  BY <1>1, <1>2, <1>5, HolderGoesOn
<1>7. Point(p)'
  <2>1. sync = "cleared" => inv[p].nets = {} /\ inv[p].cfg = {}
    BY <1>1 DEF ProcInv, Point
  <2>2. sync = "cleared" => r.nets = {} /\ r.cfg = {} BY <1>4, <1>5, <2>1
  <2> QED BY <1>1, <1>2, <1>5, <1>6, <2>2 DEF Point, Busy, Collects
<1>8. Sound(p)' /\ Complete(p)' BY <1>1, <1>2, <1>4, <1>5, <1>6, CollectedKept
<1>9. KeepsLive(p)' BY <1>2, <1>4, <1>5, <1>6 DEF KeepsLive
<1>10. \A q \in Procs : ProcInv(q)' BY <1>6, <1>7, <1>8, <1>9 DEF ProcInv
<1>11. TypeOK' BY <1>2, <1>3, <1>6, <1>10, TypesFrom DEF TypeOK
<1> QED BY <1>2, <1>10, <1>11, SyncSame

LEMMA TeardownHolds == ASSUME SplitSetInv, NEW p \in Procs, Teardown(p) PROVE SplitSetInv'
<1> USE DEF SplitSetInv
<1>1. inv[p].pc = "teardown" /\ inv[p] \in Invocation /\ inv[p].tag # "yes"
  BY DEF Teardown, TypeOK, ProcInv, Point
<1>2. UNCHANGED <<ip, done, disk, copies, tagged>> BY DEF Teardown, world
<1>3. /\ budget' \in [{"move", "fault"} -> Nat]
      /\ mode' \in {"none", "split", "full"} /\ live' \in {live, {}}
      /\ sync' \in {sync, "none"}
  BY SpendTyped DEF Teardown, SplitDown, Unsynced, TypeOK
<1>4. SyncInv'
  <2>1. CASE UNCHANGED <<live, sync>> BY <1>2, <2>1, SyncSame
  <2>2. CASE sync' = "none" BY <2>2, SyncNone
  <2>3. CASE live' = {} /\ sync = "cleared" /\ sync' = sync
    BY <1>2, <2>3 DEF SyncInv, SyncExact, NoStaleBypass, ClearStays
  <2> QED BY <2>1, <2>2, <2>3 DEF Teardown, SplitDown, Unsynced
<1>5. \A q \in Procs : ProcInv(q)' /\ inv' \in [Procs -> Invocation]
                       /\ lock' \in Procs \cup {None}
  <2>1. CASE Return(p) BY <1>1, <2>1, HolderReturns
  <2>2. CASE /\ inv[p].verb \in {"split", "full"} /\ Goto(p, "up") /\ UNCHANGED lock
             /\ inv[p].verb = "split" => live' = live
    <3> DEFINE r == [inv[p] EXCEPT !.pc = "up"]
    <3>1. /\ r \in Invocation /\ r.pc = "up" /\ r.tag = inv[p].tag
          /\ r.cfg = inv[p].cfg /\ r.todo = inv[p].todo
          /\ r.moved = inv[p].moved /\ r.verb = inv[p].verb
          /\ r.errs = inv[p].errs /\ r.nets = inv[p].nets /\ r.blind = inv[p].blind
      BY <1>1 DEF Invocation
    <3> HIDE DEF r
    <3>2. Set(p, r) BY <2>2 DEF r, Goto
    <3>3. /\ inv' \in [Procs -> Invocation] /\ lock' \in Procs \cup {None}
          /\ inv'[p] = r /\ lock' = p
          /\ \A q \in Procs \ {p} : ProcInv(q)'
      BY <1>1, <2>2, <3>1, <3>2, HolderGoesOn
    <3>4. Collects(p) BY <1>1, <2>2 DEF Collects
    <3>5. Point(p)'
      BY <1>1, <1>2, <1>3, <2>2, <3>1, <3>3, <3>4 DEF ProcInv, Point, Busy, Collects
    <3>6. Sound(p)' /\ Complete(p)' BY <1>2, <3>1, <3>3, <3>4, CollectedKept
    <3>7. KeepsLive(p)' BY <1>1, <2>2, <3>1, <3>3 DEF ProcInv, KeepsLive
    <3> QED BY <3>3, <3>5, <3>6, <3>7 DEF ProcInv
  <2> QED BY <2>1, <2>2 DEF Teardown
<1>6. TypeOK'
  <2>1. Procs # {} OBVIOUS
  <2> QED BY <1>2, <1>3, <1>5, <2>1, TypesFrom DEF TypeOK
<1> QED BY <1>4, <1>5, <1>6

\* A connect saves what it loaded, seeds the sets, or leaves them, or undoes it.
LEMMA UpHolds == ASSUME SplitSetInv, NEW p \in Procs, Up(p) PROVE SplitSetInv'
<1> USE DEF SplitSetInv
<1>1. /\ inv[p].pc = "up" /\ inv[p].verb \in {"split", "full"} /\ Return(p)
      /\ inv[p].todo = {} /\ Collects(p)
      /\ inv[p].nets \subseteq Prefixes \cup Hosts /\ inv[p].cfg \subseteq Entries
      /\ sync = "cleared" => inv[p].nets = {} /\ inv[p].cfg = {}
  BY DEF Up, Collects, ProcInv, Point, TypeOK, Invocation
<1>2. /\ inv' \in [Procs -> Invocation] /\ lock' \in Procs \cup {None}
      /\ \A q \in Procs : ProcInv(q)'
  BY <1>1, HolderReturns
<1>3. UNCHANGED <<ip, done, copies, tagged>> BY DEF Up, world
<1>4. /\ budget' \in [{"move", "fault"} -> Nat]
      /\ disk' \in {disk, inv[p].cfg}
  BY SpendTyped DEF Up, TypeOK
<1>5. CASE /\ Unsynced /\ mode' \in {mode, "none"}
           /\ live' \in {live, {}, Coalesce(inv[p].nets)}
  <2>1. sync' \in {"none", "cleared"} /\ (sync' = "cleared" => sync = "cleared")
    BY <1>5 DEF Unsynced
  <2>2. TypeOK'
    BY <1>1, <1>2, <1>3, <1>4, <1>5, <2>1, CoalesceTyped, TypesFrom DEF TypeOK
  <2>3. CASE sync' = "none" BY <1>2, <2>2, <2>3, SyncNone
  <2>4. CASE sync = "cleared" /\ sync' = "cleared"
    <3>1. live' = {} /\ disk' = {}
      BY <1>1, <1>4, <1>5, <2>4 DEF Coalesce, SyncInv, ClearStays
    <3> QED BY <1>2, <2>2, <2>4, <3>1 DEF SyncInv, SyncExact, NoStaleBypass, ClearStays
  <2> QED BY <2>1, <2>3, <2>4
<1>6. CASE disk' = inv[p].cfg /\ Seeded(p)
  <2>1. \/ sync = "cleared" /\ sync' = "cleared"
        \/ sync' = "none"
        \/ Fresh(p) /\ ~inv[p].errs /\ sync' = "exact"
        \/ Fresh(p) /\ inv[p].errs /\ inv[p].verb = "full" /\ sync' = "part"
    BY <1>6 DEF Seeded
  <2>2. mode' = inv[p].verb /\ live' = Coalesce(inv[p].nets) BY <1>6 DEF Seeded
  <2>3. TypeOK'
    BY <1>1, <1>2, <1>3, <1>4, <2>1, <2>2, CoalesceTyped, TypesFrom DEF TypeOK
  <2>4. Wanted' = WantedBy(inv[p].cfg)
    BY <1>3, <1>6 DEF Wanted, Recorded, RecordedIn, Runs, WantedBy, Named
  <2>5. CASE sync = "cleared" /\ sync' = "cleared"
    <3>1. live' = {} /\ disk' = {} BY <1>1, <1>6, <2>2, <2>5 DEF Coalesce
    <3> QED BY <1>2, <2>3, <2>5, <3>1 DEF SyncInv, SyncExact, NoStaleBypass, ClearStays
  <2>6. CASE sync' = "none" BY <1>2, <2>3, <2>6, SyncNone
  <2>7. CASE Fresh(p) /\ ~inv[p].errs /\ sync' = "exact"
    <3>1. Cover(live') = WantedBy(inv[p].cfg) BY <1>1, <2>2, <2>7, CollectedWanted
    <3> QED BY <1>2, <2>3, <2>4, <2>7, <3>1 DEF SyncInv, SyncExact, NoStaleBypass,
               ClearStays, Cover
  <2>8. CASE Fresh(p) /\ inv[p].errs /\ inv[p].verb = "full" /\ sync' = "part"
    <3>1. Cover(live') \subseteq WantedBy(inv[p].cfg)
      BY <1>1, <2>2, <2>8, CollectedWanted
    <3> QED BY <1>2, <2>3, <2>4, <2>8, <3>1 DEF SyncInv, SyncExact, NoStaleBypass,
               ClearStays, Cover
  <2> QED BY <2>1, <2>5, <2>6, <2>7, <2>8
<1>7. \/ disk' = inv[p].cfg /\ Seeded(p)
      \/ Unsynced /\ UNCHANGED <<mode, live>>
      \/ Unsynced /\ (SeedFails(p) \/ SplitDown)
  BY DEF Up
<1>8. SeedFails(p) \/ SplitDown =>
        mode' \in {mode, "none"} /\ live' \in {live, {}, Coalesce(inv[p].nets)}
  BY DEF SeedFails, SplitDown
<1> QED BY <1>5, <1>6, <1>7, <1>8

\* A save without the lock changes nothing that an invocation goes by.
LEMMA CopiesHold == ASSUME SplitSetInv, LoadCopy \/ SaveCopy PROVE SplitSetInv'
<1> USE DEF SplitSetInv
<1>1. UNCHANGED <<ip, done, mode, live, tagged, lock, inv>>
  BY DEF LoadCopy, SaveCopy, world
<1>2. /\ disk' \subseteq Entries /\ copies' \subseteq SUBSET Entries
      /\ budget' \in [{"move", "fault"} -> Nat]
      /\ UNCHANGED <<disk, sync>> \/ sync' = "none"
  <2>1. CASE LoadCopy BY <2>1, SpendTyped DEF LoadCopy, TypeOK
  <2>2. CASE SaveCopy BY <2>2 DEF SaveCopy, TypeOK
  <2> QED BY <2>1, <2>2
<1>3. \A q \in Procs : ProcInv(q)' BY <1>1, <1>2, Unmoved
<1>4. TypeOK' BY <1>1, <1>2, <1>3, TypesFrom DEF TypeOK
<1>5. SyncInv' BY <1>1, <1>2, SyncSame, SyncNone
<1> QED BY <1>3, <1>4, <1>5

LEMMA TagsHold ==
    ASSUME SplitSetInv, NEW p \in Procs, Tag(p) \/ Untag(p) PROVE SplitSetInv'
<1> USE DEF SplitSetInv
<1>1. UNCHANGED <<ip, done, disk, copies, mode, live, lock, inv, sync, budget>>
      /\ tagged' \subseteq Procs
  BY DEF Tag, Untag, world, TypeOK
<1>2. \A q \in Procs : ProcInv(q)' BY <1>1, Unmoved
<1>3. TypeOK' BY <1>1, <1>2, TypesFrom DEF TypeOK
<1> QED BY <1>1, <1>2, <1>3, SyncSame

\* A kill frees the lock of nobody but the killed.
LEMMA KillHolds == ASSUME SplitSetInv, NEW p \in Procs, Kill(p) PROVE SplitSetInv'
<1> USE DEF SplitSetInv
<1>1. UNCHANGED <<ip, done, disk, copies, mode, live, tagged, sync>> BY DEF Kill, world
<1>2. budget' \in [{"move", "fault"} -> Nat] BY SpendTyped DEF Kill
<1>3. /\ inv' \in [Procs -> Invocation] /\ inv'[p] = Idle
      /\ lock' = (IF lock = p THEN None ELSE lock)
      /\ \A q \in Procs \ {p} : inv'[q] = inv[q]
  BY IdleTyped DEF Kill, Return, Set, TypeOK
<1>4. ProcInv(p)' BY <1>3, IdleTyped, Quiet
<1>5. \A q \in Procs \ {p} : ProcInv(q)'
  <2>1. CASE lock = p BY <1>3, <2>1, OthersQuiet
  <2>2. CASE lock # p BY <1>1, <1>3, <2>2, Unmoved
  <2> QED BY <2>1, <2>2
<1>6. \A q \in Procs : ProcInv(q)' BY <1>4, <1>5
<1>7. TypeOK' BY <1>1, <1>2, <1>3, <1>6, TypesFrom DEF TypeOK
<1> QED BY <1>1, <1>6, <1>7, SyncSame

\* Who is at work learns of a container that moved only in history.
LEMMA MoveHolds ==
    ASSUME SplitSetInv, NEW c \in Containers, Restart(c) \/ Finish(c)
    PROVE  SplitSetInv'
<1> USE DEF SplitSetInv
<1>1. UNCHANGED <<disk, copies, mode, live, tagged, lock>>
      /\ sync' = (IF sync = "cleared" THEN sync ELSE "none")
  BY DEF Restart, Finish, Moved
<1>2. /\ ip' \in [Containers -> Addr \cup {None}] /\ done' \subseteq Pods
      /\ \A d \in Containers \ {c} : ip'[d] = ip[d] /\ (d \in done' <=> d \in done)
  BY DEF Restart, Finish, TypeOK
<1>3. budget' \in [{"move", "fault"} -> Nat] BY SpendTyped DEF Restart, Finish
<1>4. \A p \in Procs :
        /\ inv[p].pc \in {"idle", "asked"} => inv'[p] = inv[p]
        /\ inv[p].pc \notin {"idle", "asked"} =>
              inv'[p] = [inv[p] EXCEPT !.moved = @ \cup {c}]
  BY DEF Restart, Finish, Moved
<1>5. ASSUME NEW p \in Procs PROVE inv'[p] \in Invocation /\ ProcInv(p)'
  <2>1. inv[p] \in Invocation /\ ProcInv(p) BY DEF TypeOK
  <2>2. CASE inv[p].pc \in {"idle", "asked"}
    BY <1>4, <2>1, <2>2, Quiet DEF ProcInv, Point
  <2>3. CASE inv[p].pc \notin {"idle", "asked"}
    <3>1. /\ inv'[p] \in Invocation
          /\ inv'[p].moved = inv[p].moved \cup {c}
          /\ inv'[p].pc = inv[p].pc /\ inv'[p].verb = inv[p].verb
          /\ inv'[p].arg = inv[p].arg /\ inv'[p].todo = inv[p].todo
          /\ inv'[p].cfg = inv[p].cfg
          /\ inv'[p].nets = inv[p].nets /\ inv'[p].errs = inv[p].errs
          /\ inv'[p].tag = inv[p].tag /\ inv'[p].blind = inv[p].blind
      <4> DEFINE i == inv[p]
                 r == [i EXCEPT !.moved = @ \cup {c}]
      <4>1. i \in Invocation /\ inv'[p] = r BY <1>4, <2>1, <2>3
      <4> HIDE DEF i
      <4>2. r \in Invocation /\ r.moved = i.moved \cup {c} /\ r.pc = i.pc /\ r.verb = i.verb
            /\ r.arg = i.arg /\ r.todo = i.todo /\ r.nets = i.nets /\ r.errs = i.errs
            /\ r.tag = i.tag /\ r.blind = i.blind /\ r.cfg = i.cfg
        BY <4>1 DEF Invocation
      <4> HIDE DEF r
      <4> QED BY <4>1, <4>2 DEF i
    <3>2. Point(p)' BY <1>1, <2>1, <3>1 DEF ProcInv, Point, Busy, Collects
    <3>3. Sound(p)' BY <3>1 DEF Sound
    <3>4. Complete(p)'
      <4>1. SUFFICES ASSUME Collects(p), ~inv[p].errs, NEW e \in Resolved(p),
                            NEW d \in Selects[e] \ (Remote \cup HostNet \cup inv[p].moved \cup {c}),
                            ip'[d] # None, d \notin done'
                     PROVE  ip'[d] \in Cover(inv[p].nets)
        <5>1. Collects(p)' <=> Collects(p) BY <3>1 DEF Collects
        <5>2. Resolved(p)' = Resolved(p) BY <1>1, <3>1 DEF Resolved
        <5> QED BY <2>1, <3>1, <4>1, <5>1, <5>2 DEF ProcInv, Complete, Runs, Cover
      <4>2. e \in Entries BY <2>1 DEF Resolved, Invocation
      <4>3. d \in Containers \ {c} BY <4>2, NamesOnly
      <4>4. Runs(d) BY <1>2, <4>1, <4>3 DEF Runs
      <4>5. ip[d] \in Cover(inv[p].nets) BY <2>1, <4>1, <4>4 DEF ProcInv, Complete
      <4> QED BY <1>2, <4>3, <4>5
    <3>5. KeepsLive(p)' BY <1>1, <2>1, <3>1 DEF ProcInv, KeepsLive
    <3> QED BY <3>1, <3>2, <3>3, <3>4, <3>5 DEF ProcInv
  <2> QED BY <2>2, <2>3
<1>6. inv' \in [Procs -> Invocation]
  BY <1>5 DEF Restart, Finish, Moved
<1>7. TypeOK' BY <1>1, <1>2, <1>3, <1>5, <1>6, TypesFrom DEF TypeOK
<1>8. SyncInv'
  <2>1. CASE sync = "cleared"
    BY <1>1, <2>1 DEF SyncInv, SyncExact, NoStaleBypass, ClearStays
  <2>2. CASE sync # "cleared" BY <1>1, <2>2, SyncNone
  <2> QED BY <2>1, <2>2
<1> QED BY <1>5, <1>7, <1>8

LEMMA StepHolds == ASSUME SplitSetInv, [Next]_vars PROVE SplitSetInv'
<1>1. CASE UNCHANGED vars
  <2> USE DEF SplitSetInv
  <2>1. UNCHANGED <<ip, done, disk, copies, mode, live, tagged, lock, inv, sync, budget>>
    BY <1>1 DEF vars
  <2>2. \A q \in Procs : ProcInv(q)' BY <2>1, Unmoved
  <2>3. TypeOK' BY <2>1, <2>2, TypesFrom DEF TypeOK
  <2> QED BY <2>1, <2>2, <2>3, SyncSame
<1> QED
  BY <1>1, StartsHold, AskHolds, EditHolds, ResolveHolds, SetNetsHolds, FlushHolds,
     ForgetHolds, EscapeHolds, KeepHolds, TeardownHolds, UpHolds, TagsHold,
     KillHolds, MoveHolds, CopiesHold DEF Next

-----------------------------------------------------------------------------
(* The theorems *)

LEMMA SplitSetInvHolds == Spec => []SplitSetInv
<1>1. Init => SplitSetInv BY InitHolds
<1>2. SplitSetInv /\ [Next]_vars => SplitSetInv' BY StepHolds
<1> QED BY <1>1, <1>2, PTL DEF Spec

\* nft never gets conflicting intervals, whatever prefixes and containers are
\* recorded (coalesce), and no connect keeps the tag of a split shell through
\* escapeSplitCgroup unless that failed.
THEOREM SplitTyped == Spec => []TypeOK
<1>1. SplitSetInv => TypeOK BY DEF SplitSetInv
<1> QED BY <1>1, SplitSetInvHolds, PTL

\* For any entries, containers and number of concurrent invocations: a verb
\* that reconciled the split set without an error leaves exactly the addresses
\* of what is recorded and runs here (syncNets).
THEOREM SyncIsExact == Spec => []SyncExact
<1>1. SplitSetInv => SyncExact BY DEF SplitSetInv, SyncInv
<1> QED BY <1>1, SplitSetInvHolds, PTL

\* A full connect that could not resolve every entry seeds the set with
\* nothing stale (doConnect, resolveSplitNets).
THEOREM NothingStaleBypasses == Spec => []NoStaleBypass
<1>1. SplitSetInv => NoStaleBypass BY DEF SplitSetInv, SyncInv
<1> QED BY <1>1, SplitSetInvHolds, PTL

\* A split clear that succeeded stays, whichever verbs with the transition
\* lock ran beside it (splitClear, doConnect's save); only a save without the
\* lock, of entries loaded before the clear, brings them back.
THEOREM ClearIsKept == Spec => []ClearStays
<1>1. SplitSetInv => ClearStays BY DEF SplitSetInv, SyncInv
<1> QED BY <1>1, SplitSetInvHolds, PTL

\* No verb takes a running, recorded container that is protected out of the
\* tunnel of a split session (syncNets, doConnect).
THEOREM RunningStayProtected == Spec => KeepsRunning
<1> DEFINE A == \A c \in Containers :
          /\ mode = "split" /\ mode' = "split"
          /\ Recorded(c) /\ Recorded(c)'
          /\ Runs(c) /\ ip'[c] = ip[c] /\ ip[c] \in Cover(live)
          /\ lock # None => /\ c \notin inv[lock].moved
                            /\ inv[lock].verb # "clear"
                            /\ ~inv[lock].blind
                            /\ RecordedIn(c, inv[lock].cfg)
          => ip[c] \in Cover(live')
<1>1. ASSUME SplitSetInv, [Next]_vars PROVE A
  <2>1. SUFFICES ASSUME NEW c \in Containers,
                        mode = "split", mode' = "split", Recorded(c), Runs(c),
                        ip[c] \in Cover(live),
                        lock # None => /\ c \notin inv[lock].moved
                                       /\ inv[lock].verb # "clear"
                                       /\ ~inv[lock].blind
                                       /\ RecordedIn(c, inv[lock].cfg),
                        live' # live
                 PROVE  ip[c] \in Cover(live')
    OBVIOUS
  <2>2. PICK p \in Procs : SetNets(p) \/ Flush(p) \/ Teardown(p) \/ Up(p)
    BY <1>1, <2>1 DEF Next, vars, AddIP, Rm, SplitRefresh, SplitClear, Connect,
         Disconnect, Starts, Ask, Asked, Edit, Resolve, Forget, Escape, Keep, Tag,
         Untag, Kill, Restart, Finish, Moved, LoadCopy, SaveCopy
  <2>3. lock = p BY <1>1, <2>2, HolderHasLock DEF SetNets, Flush, Teardown, Up
  <2>4. /\ lock # None /\ c \notin inv[p].moved /\ inv[p].verb # "clear"
        /\ ~inv[p].blind /\ RecordedIn(c, inv[p].cfg)
    BY <2>1, <2>3, SplitSetAssumption
  <2>5. ASSUME Collects(p), inv[p].todo = {}, ~inv[p].errs
        PROVE  ip[c] \in Cover(inv[p].nets)
    <3>1. PICK e \in inv[p].cfg : c \in Selects[e] \ (Remote \cup HostNet)
      BY <2>4 DEF RecordedIn
    <3>2. e \in Resolved(p) BY <2>5 DEF Resolved
    <3> QED BY <1>1, <2>1, <2>4, <2>5, <3>1, <3>2 DEF SplitSetInv, ProcInv, Complete
  <2>6. Cover(Coalesce(inv[p].nets)) = Cover(inv[p].nets)
    BY <1>1, CoalesceCovers DEF SplitSetInv, TypeOK, Invocation
  <2>7. CASE SetNets(p)
    <3>1. /\ inv[p].todo = {} /\ Collects(p) /\ ~inv[p].errs
          /\ live' = Coalesce(inv[p].nets)
      BY <2>1, <2>7 DEF SetNets, Collects, Refuses
    <3> QED BY <2>5, <2>6, <3>1
  <2>8. CASE Flush(p)
    BY <1>1, <2>4, <2>8 DEF Flush, SplitSetInv, ProcInv, Point
  <2>9. CASE Teardown(p)
    BY <2>1, <2>9 DEF Teardown, SplitDown
  <2>10. CASE Up(p)
    <3>1. /\ inv[p].pc = "up" /\ inv[p].verb = "split"
          /\ live' = Coalesce(inv[p].nets)
      BY <1>1, <2>1, <2>10 DEF Up, Seeded, SeedFails, SplitDown, SplitSetInv, ProcInv,
         Point
    <3>2. Collects(p) /\ inv[p].todo = {}
      BY <1>1, <3>1 DEF Collects, SplitSetInv, ProcInv, Point
    <3>3. CASE ~inv[p].errs BY <2>5, <2>6, <3>1, <3>2, <3>3
    <3>4. CASE inv[p].errs
      <4>1. live \subseteq inv[p].nets
        BY <1>1, <2>4, <3>1, <3>4 DEF SplitSetInv, ProcInv, KeepsLive
      <4> QED BY <2>1, <2>6, <3>1, <4>1 DEF Cover
    <3> QED BY <3>3, <3>4
  <2> QED BY <2>2, <2>7, <2>8, <2>9, <2>10
<1>2. SplitSetInv /\ [Next]_vars => [A]_vars BY <1>1
<1>3. [][A]_vars => KeepsRunning BY DEF KeepsRunning
<1> HIDE DEF A
<1> QED BY <1>2, <1>3, SplitSetInvHolds, PTL DEF Spec
=============================================================================
