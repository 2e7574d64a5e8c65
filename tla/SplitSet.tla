------------------------------ MODULE SplitSet -------------------------------
(***************************************************************************)
(* The split set: entries recorded in the configuration, resolved through  *)
(* docker and kubectl to the source addresses of the live nft set, and the *)
(* pids of the split cgroup.  The verbs `split add-*`, `rm-*`, `refresh`,  *)
(* `clear` and `add-pid`, `run`, and what `connect` and `disconnect` do to *)
(* the set.                                                                *)
(*                                                                         *)
(* An invocation is a process; what changes entries or the live set on     *)
(* purpose does so under the transition lock, which is not waited for.     *)
(* Beside it verbs without the lock (status and relays --refresh, login,   *)
(* the GUI's settings) save the whole configuration that they loaded       *)
(* earlier, entries included.                                              *)
(* Containers stop, start with another address and finish at any time,     *)
(* also between the resolutions of two entries.  A prefix is the set of    *)
(* addresses it covers; the lists of the configuration are one set of      *)
(* entries, because add never records one twice.  What connect does beside *)
(* the set is module Session's; here a dial takes or fails as a whole.     *)
(***************************************************************************)
EXTENDS Naturals, FiniteSets

CONSTANTS
    Procs,       \* concurrent invocations
    Addr,        \* addresses
    Prefixes,    \* prefixes a user may name, sets of addresses
    Containers,  \* docker containers and pods
    Pods,        \* those of Containers that are pods
    Remote,      \* pods on other nodes
    HostNet,     \* pods that use the host's network
    Entries,     \* what may be recorded: [kind, top, sub]
    Selects,     \* the containers an entry names
    NetOf,       \* the prefix of a net entry
    FirstIp,     \* addresses the containers have at first, None if off
    None,
    Budget       \* bound: moves of containers; failing calls, kills and verbs
                 \* that save without the lock

Kinds == <<"net", "docker", "compose", "k8s">>

Hosts == {{a} : a \in Addr}

Overlap(p, q) == p \cap q # {}

ASSUME SplitSetAssumption ==
    /\ IsFiniteSet(Addr) /\ Prefixes \subseteq SUBSET Addr
    /\ \A p, q \in Prefixes \cup Hosts :
          Overlap(p, q) => p \subseteq q \/ q \subseteq p
    /\ {} \notin Prefixes
    /\ Pods \subseteq Containers
    /\ Remote \cup HostNet \subseteq Pods
    /\ \A e \in Entries : \E i \in 1..4 : e.kind = Kinds[i]
    /\ Selects \in [Entries -> SUBSET Containers]
    /\ \A e \in Entries : Selects[e] \subseteq CASE e.kind = "net" -> {}
                                             [] e.kind = "k8s" -> Pods
                                             [] OTHER          -> Containers \ Pods
    /\ NetOf \in [Entries -> Prefixes]
    /\ FirstIp \in [Containers -> Addr \cup {None}]
    /\ None \notin Addr /\ None \notin Procs /\ None \notin Entries
    /\ Budget \in [{"move", "fault"} -> Nat]

VARIABLES
    ip,      \* the address a container has or, when finished, last had
    done,    \* pods that have finished; their address is free again
    disk,    \* entries in the configuration file
    copies,  \* entries in the configurations that verbs without the lock hold
    mode,    \* the split state file: "none", "split" or "full"
    live,    \* elements of the nft sets
    tagged,  \* processes (shells) in the split cgroup
    lock,    \* holder of the transition lock
    inv,     \* the invocations
    sync,    \* history: how live relates to disk and to the containers
    budget

vars == <<ip, done, disk, copies, mode, live, tagged, lock, inv, sync, budget>>

world == <<ip, done>>

Verbs == {"add", "rm", "refresh", "clear", "split", "full", "disconnect",
          "none"}

\* cfg: the entries of the configuration as loaded and edited.  todo: those
\* left to resolve.  nets, errs: of the code.
\* tag: the process is in the cgroup.  History: moved, the containers
\* that moved since the entries were loaded; blind, liveNets saw nothing.
Invocation == [pc : {"idle", "asked", "edit", "resolve", "flush",
                     "forget", "escape", "teardown", "up"},
               verb : Verbs, arg : Entries \cup {None},
               cfg : SUBSET Entries, todo : SUBSET Entries,
               nets : SUBSET (Prefixes \cup Hosts),
               errs : BOOLEAN, tag : {"no", "yes", "stuck"},
               moved : SUBSET Containers, blind : BOOLEAN]

Idle == [pc |-> "idle", verb |-> "none", arg |-> None,
         cfg |-> {}, todo |-> {}, nets |-> {}, errs |-> FALSE, tag |-> "no",
         moved |-> {}, blind |-> FALSE]

\* nft refuses a set with conflicting intervals, so no two elements of the
\* live set overlap, also when prefixes that users named cover containers
\* (coalesce); and a connect from an `mvad run` shell that starts its
\* transport shim has left the split cgroup, whose tag the shim would
\* inherit, or could not (escapeSplitCgroup).
TypeOK ==
    /\ ip \in [Containers -> Addr \cup {None}]
    /\ done \subseteq Pods
    /\ disk \subseteq Entries /\ copies \subseteq SUBSET Entries
    /\ mode \in {"none", "split", "full"}
    /\ live \subseteq Prefixes \cup Hosts
    /\ \A n, m \in live : Overlap(n, m) => n = m
    /\ tagged \subseteq Procs
    /\ lock \in Procs \cup {None}
    /\ inv \in [Procs -> Invocation]
    /\ \A p \in Procs : inv[p].pc = "up" => inv[p].tag # "yes"
    /\ sync \in {"none", "part", "exact", "cleared"}
    /\ budget \in [{"move", "fault"} -> Nat]

Init ==
    /\ ip = FirstIp
    /\ done = {} /\ disk = {} /\ copies = {} /\ mode = "none" /\ live = {}
    /\ tagged = {} /\ lock = None
    /\ inv = [p \in Procs |-> Idle]
    /\ sync = "none"
    /\ budget = Budget

Spend(k) == budget[k] > 0 /\ budget' = [budget EXCEPT ![k] = @ - 1]

Available == mode # "none"

Cover(ps) == UNION ps

-----------------------------------------------------------------------------
(* Resolution.                                                             *)

\* docker inspect: the addresses of one container.
DockerNets(c) == IF ip[c] = None THEN {} ELSE {{ip[c]}}

ComposeNets(e) == UNION {DockerNets(c) : c \in Selects[e]}

\* Mutant: finished pods still count.
K8sNetsFinished(e) ==
    UNION {DockerNets(c) : c \in Selects[e] \ (Remote \cup HostNet)}

\* kubectl get pods: not the finished ones, other nodes' or host-network.
K8sNets(e) ==
    UNION {DockerNets(c) : c \in Selects[e] \ (Remote \cup HostNet \cup done)}

\* The prefixes of one entry; none is an error.
NetsOf(e) == CASE e.kind = "net"     -> {NetOf[e]}
               [] e.kind = "docker"  -> ComposeNets(e)
               [] e.kind = "compose" -> ComposeNets(e)
               [] e.kind = "k8s"     -> K8sNets(e)

Rank(e) == CHOOSE i \in 1..4 : Kinds[i] = e.kind

\* Mutant: overlapping prefixes stay.
CoalesceNot(ps) == ps

\* coalesce: drop prefixes that another covers.
Coalesce(ps) == {p \in ps : \A q \in ps : p \subseteq q => p = q}

\* The entries `rm arg` removes: a bare project or namespace also removes
\* the entries below it.
Match(arg) ==
    {e \in Entries :
        \/ e = arg
        \/ /\ arg.kind \in {"compose", "k8s"} /\ arg.sub = ""
           /\ e.kind = arg.kind /\ e.top = arg.top}

-----------------------------------------------------------------------------
(* An invocation.                                                          *)

Set(p, r) == inv' = [inv EXCEPT ![p] = r]

Goto(p, pc) == Set(p, [inv[p] EXCEPT !.pc = pc])

\* The process ends and the lock, if it has it, is free.
Return(p) == /\ Set(p, Idle)
             /\ lock' = IF lock = p THEN None ELSE lock

\* A process started from a shell in the cgroup is in it; it matters to
\* connect, which starts children.
Inherited(p, verb) ==
    IF p \in tagged /\ verb \in {"split", "full"} THEN "yes" ELSE "no"

First(verb) == CASE verb \in {"add", "rm"}     -> "edit"
                 [] verb = "refresh"           -> "resolve"
                 [] verb = "clear"             -> "flush"
                 [] verb \in {"split", "full"} -> "escape"
                 [] OTHER                      -> "teardown"

Loaded(p, verb, arg) ==
    Set(p, [Idle EXCEPT !.verb = verb, !.arg = arg, !.pc = First(verb),
                        !.cfg = disk, !.todo = disk,
                        !.tag = Inherited(p, verb)])

\* Mutant: the lock is taken for granted.
LockedAnyway(p, verb, arg) == lock' = p /\ Loaded(p, verb, arg)

\* lock.AcquireRoot, which fails when another has it, and config.Load.
Locked(p, verb, arg) ==
    IF lock = None THEN lock' = p /\ Loaded(p, verb, arg)
                   ELSE Set(p, Idle) /\ UNCHANGED lock

Starts(p) == inv[p].pc = "idle" /\ UNCHANGED <<world, disk, copies, mode, live, tagged,
                                             sync, budget>>

\* add-ip and the rm verbs check their arguments without a look at the host.
AddIP(p) == /\ Starts(p)
            /\ \E e \in Entries : e.kind = "net" /\ Locked(p, "add", e)

Rm(p) == Starts(p) /\ \E e \in Entries : Locked(p, "rm", e)

\* split refresh: refuses without a session.
SplitRefresh(p) == Starts(p) /\ Available /\ Locked(p, "refresh", None)

SplitClear(p) == Starts(p) /\ Locked(p, "clear", None)

Connect(p) == Starts(p) /\ \E v \in {"split", "full"} : Locked(p, v, None)

Disconnect(p) == Starts(p) /\ Locked(p, "disconnect", None)

\* add-docker, add-compose and add-k8s: a name must resolve first, without
\* the lock.
Ask(p) ==
    /\ inv[p].pc = "idle"
    /\ \E e \in Entries :
          /\ e.kind # "net" /\ NetsOf(e) # {}
          /\ Set(p, [Idle EXCEPT !.verb = "add", !.arg = e, !.pc = "asked"])
    /\ UNCHANGED <<world, disk, copies, mode, live, tagged, lock, sync, budget>>

Asked(p) ==
    /\ inv[p].pc = "asked"
    /\ Locked(p, "add", inv[p].arg)
    /\ UNCHANGED <<world, disk, copies, mode, live, tagged, sync, budget>>

\* splitAddEntry and splitRmMatch: nothing to change, or the save, and on
\* to syncNets, which does nothing without a session.
Edit(p) ==
    LET i == inv[p]
        new == IF i.verb = "add" THEN i.cfg \cup {i.arg}
                                 ELSE i.cfg \ Match(i.arg)
    IN  /\ i.pc = "edit"
        /\ \/ /\ new = i.cfg
              /\ Return(p) /\ UNCHANGED <<disk, sync, budget>>
           \/ /\ new # i.cfg
              /\ disk' = new /\ sync' = "none"
              /\ IF Available
                   THEN /\ Set(p, [i EXCEPT !.pc = "resolve", !.cfg = new,
                                             !.todo = new, !.arg = None])
                        /\ UNCHANGED lock
                   ELSE Return(p)
              /\ UNCHANGED budget
           \/ /\ new # i.cfg
              /\ Spend("fault") /\ Return(p) /\ UNCHANGED <<disk, sync>>
        /\ UNCHANGED <<world, copies, mode, live, tagged>>

\* resolveSplitNets, one entry: kind by kind, an error skips the entry.
Resolve(p) ==
    LET i == inv[p]
        Left(e) == [i EXCEPT !.todo = @ \ {e}]
    IN  /\ i.pc = "resolve" /\ i.todo # {}
        /\ \E e \in i.todo :
              /\ \A f \in i.todo : Rank(e) <= Rank(f)
              /\ \/ /\ NetsOf(e) # {}
                    /\ Set(p, [Left(e) EXCEPT !.nets = @ \cup NetsOf(e)])
                    /\ UNCHANGED budget
                 \/ /\ NetsOf(e) = {}
                    /\ Set(p, [Left(e) EXCEPT !.errs = TRUE])
                    /\ UNCHANGED budget
                 \/ /\ e.kind # "net" /\ Spend("fault")
                    /\ Set(p, [Left(e) EXCEPT !.errs = TRUE])
        /\ UNCHANGED <<world, disk, copies, mode, live, tagged, lock, sync>>

\* What p has resolved is what the containers have now.
Fresh(p) == inv[p].moved = {}

\* Nobody has saved other entries since p loaded or saved its own.
Current(p) == disk = inv[p].cfg

\* Mutant: what did resolve replaces the set.
RefusesNever(p) == FALSE

\* syncNets refuses to reconcile when an entry did not resolve.
Refuses(p) == inv[p].errs

\* setNets: one nft transaction replaces the elements.
SetNets(p) ==
    /\ inv[p].pc = "resolve" /\ inv[p].todo = {}
    /\ inv[p].verb \in {"add", "rm", "refresh"}
    /\ \/ Refuses(p) /\ UNCHANGED <<live, sync, budget>>
       \/ /\ ~Refuses(p)
          /\ live' = Coalesce(inv[p].nets)
          /\ sync' = IF Fresh(p) /\ Current(p) THEN "exact" ELSE "none"
          /\ UNCHANGED budget
       \/ ~Refuses(p) /\ Spend("fault") /\ UNCHANGED <<live, sync>>
    /\ Return(p)
    /\ UNCHANGED <<world, disk, copies, mode, tagged>>

\* split.clear: members leave the cgroup, the sets are flushed; a failure
\* is reported at the end, here as errs.
Flush(p) ==
    /\ inv[p].pc = "flush"
    /\ \/ /\ live' = {} /\ tagged' = {} /\ sync' = "none"
          /\ Goto(p, "forget") /\ UNCHANGED budget
       \/ /\ Spend("fault")
          /\ live' \in {live, {}} /\ tagged' \in {tagged, {}}
          /\ sync' = "none"
          /\ Set(p, [inv[p] EXCEPT !.pc = "forget", !.errs = TRUE])
    /\ UNCHANGED <<world, disk, copies, mode, lock>>

\* splitClear: the entries go, too.
Forget(p) ==
    /\ inv[p].pc = "forget"
    /\ \/ /\ disk' = {} /\ UNCHANGED budget
          /\ sync' = IF inv[p].errs THEN "none" ELSE "cleared"
       \/ /\ disk # {}
          /\ Spend("fault") /\ UNCHANGED <<disk, sync>>
    /\ Return(p)
    /\ UNCHANGED <<world, copies, mode, live, tagged>>

-----------------------------------------------------------------------------
(* connect and disconnect.                                                 *)

\* escapeSplitCgroup: this process, not its shell; a failure is a warning.
Escape(p) ==
    /\ inv[p].pc = "escape"
    /\ \/ /\ Set(p, [inv[p] EXCEPT !.pc = "resolve", !.tag = "no"])
          /\ UNCHANGED budget
       \/ /\ inv[p].tag = "yes" /\ Spend("fault")
          /\ Set(p, [inv[p] EXCEPT !.pc = "resolve", !.tag = "stuck"])
    /\ UNCHANGED <<world, disk, copies, mode, live, tagged, lock, sync>>

\* Mutant: full mode keeps them, too.
KeptAlways(p) == IF inv[p].errs THEN inv[p].nets \cup live ELSE inv[p].nets

\* doConnect: split mode adds the live elements when an entry failed.
Kept(p) == IF inv[p].errs /\ inv[p].verb = "split"
             THEN inv[p].nets \cup live ELSE inv[p].nets

\* Everything is resolved before anything is torn down.  liveNets takes a
\* failing nft for an empty set.
Keep(p) ==
    /\ inv[p].pc = "resolve" /\ inv[p].todo = {}
    /\ inv[p].verb \in {"split", "full"}
    /\ \/ /\ Set(p, [inv[p] EXCEPT !.pc = "teardown", !.nets = Kept(p)])
          /\ UNCHANGED budget
       \/ /\ inv[p].verb = "split" /\ inv[p].errs /\ Spend("fault")
          /\ Set(p, [inv[p] EXCEPT !.pc = "teardown", !.blind = TRUE])
    /\ UNCHANGED <<world, disk, copies, mode, live, tagged, lock, sync>>

\* split.Down: tables and state file go; the cgroup stays while it has
\* members.
SplitDown == mode' = "none" /\ live' = {}

\* What holds of the set is no longer known; cleared it still is.
Unsynced == sync' = IF sync = "cleared" THEN sync ELSE "none"

\* connect --split leaves the split routing where it is; a full connect
\* disconnects what status.Read or the kill-switch shows, if anything.
Teardown(p) ==
    /\ inv[p].pc = "teardown"
    /\ \/ /\ inv[p].verb = "split"
          /\ Goto(p, "up") /\ UNCHANGED <<mode, live, lock, sync, budget>>
       \/ /\ inv[p].verb = "full"
          /\ SplitDown /\ Unsynced
          /\ Goto(p, "up") /\ UNCHANGED <<lock, budget>>
       \/ /\ inv[p].verb = "full"
          /\ Goto(p, "up")
          /\ UNCHANGED <<mode, live, lock, sync, budget>>
       \/ /\ inv[p].verb = "disconnect"
          /\ SplitDown /\ Unsynced
          /\ Return(p) /\ UNCHANGED budget
       \/ /\ inv[p].verb # "disconnect"
          /\ Spend("fault") /\ Return(p)
          /\ UNCHANGED <<mode, live, sync>>
    /\ UNCHANGED <<world, disk, copies, tagged>>

\* The session is up and split.up has seeded the sets.
Seeded(p) ==
    /\ mode' = inv[p].verb
    /\ live' = Coalesce(inv[p].nets)
    /\ sync' = IF sync = "cleared" THEN sync
               ELSE IF ~Fresh(p) THEN "none"
               ELSE IF ~inv[p].errs THEN "exact"
               ELSE IF inv[p].verb = "full" THEN "part" ELSE "none"

\* split.up fails: it strips what it installed, unless a split session is
\* replaced by another; then the new elements may be in the sets.
SeedFails(p) ==
    IF mode = "split" /\ inv[p].verb = "split"
      THEN live' \in {live, Coalesce(inv[p].nets)} /\ UNCHANGED mode
      ELSE SplitDown

\* doConnect from its save on, which writes the entries as they were loaded.
\* A full session without a gateway does without split.Up; split mode calls
\* split.Down when its shim, which comes after split.Up, does not start.
Up(p) ==
    /\ inv[p].pc = "up"
    /\ \/ disk' = inv[p].cfg /\ Seeded(p) /\ UNCHANGED budget
       \/ /\ disk' = inv[p].cfg /\ inv[p].verb = "full" /\ Unsynced
          /\ UNCHANGED <<mode, live, budget>>
       \/ /\ Spend("fault")
          /\ disk' \in {disk, inv[p].cfg} /\ Unsynced
          /\ \/ UNCHANGED <<mode, live>>   \* before split.up has done anything
             \/ disk' = inv[p].cfg /\ SeedFails(p)
             \/ disk' = inv[p].cfg /\ inv[p].verb = "split" /\ SplitDown
    /\ Return(p)
    /\ UNCHANGED <<world, copies, tagged>>

-----------------------------------------------------------------------------
(* Pids: no lock.                                                          *)

\* `run` and add-pid.  When the session ends between the look at the state
\* file and the write, the write fails or finds the cgroup that a member
\* has kept.
Tag(p) ==
    /\ inv[p].pc = "idle" /\ p \notin tagged
    /\ Available \/ tagged # {}
    /\ tagged' = tagged \cup {p}
    /\ UNCHANGED <<world, disk, copies, mode, live, lock, inv, sync, budget>>

\* rm-pid, which also asks whether split routing is available.
Untag(p) ==
    /\ inv[p].pc = "idle" /\ p \in tagged /\ Available
    /\ tagged' = tagged \ {p}
    /\ UNCHANGED <<world, disk, copies, mode, live, lock, inv, sync, budget>>

-----------------------------------------------------------------------------
(* Verbs that save the configuration without the transition lock.          *)

\* One of them loads the configuration...
LoadCopy ==
    /\ Spend("fault")
    /\ copies' = copies \cup {disk}
    /\ UNCHANGED <<world, disk, mode, live, tagged, lock, inv, sync>>

\* ...and has changed a field of its own when it saves the whole of it.
SaveCopy ==
    /\ \E D \in copies :
          /\ disk' = D
          /\ copies' = copies \ {D}
          /\ sync' = IF D = disk THEN sync ELSE "none"
    /\ UNCHANGED <<world, mode, live, tagged, lock, inv, budget>>

-----------------------------------------------------------------------------
(* The containers, and kills.                                              *)

Runs(c) == ip[c] # None /\ c \notin done

Moved(c) ==
    /\ inv' = [p \in Procs |->
                  IF inv[p].pc \in {"idle", "asked"} THEN inv[p]
                    ELSE [inv[p] EXCEPT !.moved = @ \cup {c}]]
    /\ sync' = IF sync = "cleared" THEN sync ELSE "none"
    /\ UNCHANGED <<disk, copies, mode, live, tagged, lock>>

\* A container stops, or starts with an address that is free.
Restart(c) ==
    /\ Spend("move")
    /\ \E a \in (Addr \ {ip[d] : d \in {d \in Containers : Runs(d)}})
                \cup {None} :
          ip' = [ip EXCEPT ![c] = a]
    /\ done' = done \ {c}
    /\ Moved(c)

\* A pod succeeds or fails and still lists its address.
Finish(c) ==
    /\ c \in Pods /\ Runs(c)
    /\ Spend("move")
    /\ done' = done \cup {c}
    /\ UNCHANGED ip
    /\ Moved(c)

Kill(p) ==
    /\ inv[p].pc # "idle"
    /\ Spend("fault")
    /\ Return(p)
    /\ UNCHANGED <<world, disk, copies, mode, live, tagged, sync>>

Next ==
    \/ \E p \in Procs :
          \/ AddIP(p) \/ Rm(p) \/ SplitRefresh(p) \/ SplitClear(p)
          \/ Connect(p) \/ Disconnect(p) \/ Ask(p) \/ Asked(p) \/ Edit(p)
          \/ Resolve(p) \/ SetNets(p) \/ Flush(p) \/ Forget(p)
          \/ Escape(p) \/ Keep(p) \/ Teardown(p) \/ Up(p)
          \/ Tag(p) \/ Untag(p) \/ Kill(p)
    \/ \E c \in Containers : Restart(c) \/ Finish(c)
    \/ LoadCopy \/ SaveCopy

Spec == Init /\ [][Next]_vars
-----------------------------------------------------------------------------
(* Properties.                                                             *)

\* Is c meant by one of the entries D, by an entry on disk?
RecordedIn(c, D) == \E e \in D : c \in Selects[e] \ (Remote \cup HostNet)

Recorded(c) == RecordedIn(c, disk)

Wanted == (UNION {NetOf[e] : e \in {e \in disk : e.kind = "net"}})
          \cup {ip[c] : c \in {c \in Containers : Runs(c) /\ Recorded(c)}}

\* A verb that reconciled the set without an error leaves exactly the
\* addresses of the recorded containers that run here, until an entry or a
\* container changes (an entry also by a save without the lock, SaveCopy):
\* no address of a finished pod, of a removed entry or of a previous session
\* (resolveSplitNets, setNets, split.up).
SyncExact == sync = "exact" => Cover(live) = Wanted

\* In full mode the split set bypasses the tunnel: a connect that could not
\* resolve every entry seeds it with nothing but addresses of recorded
\* containers (doConnect: stale addresses "would bypass").
NoStaleBypass == sync = "part" => Cover(live) \subseteq Wanted

\* After a clear that succeeded nothing is recorded and nothing is in the
\* sets until an entry is added, whichever verbs that take the transition
\* lock ran at the same time: an add that has already looked its name up, a
\* refresh, a connect about to seed the sets or to save the configuration it
\* has loaded.  Left out by name: SaveCopy, a verb without the lock that
\* loaded the entries before the clear and saves them after it.
ClearStays == sync = "cleared" => disk = {} /\ live = {}

\* In split mode a running container that is protected stays protected as
\* long as it is recorded and keeps its address, through failing
\* resolutions, refreshes, redials and other entries' removal: syncNets
\* refuses to reconcile rather than "strip running containers out of the
\* tunnel".  A container that restarts in the middle is on its own, and so
\* is one whose nft set could not be listed, or whose entry is on disk only
\* because a verb without the lock has saved it (SaveCopy) since the holder
\* of the lock loaded the entries.
KeepsRunning ==
    [][\A c \in Containers :
          /\ mode = "split" /\ mode' = "split"
          /\ Recorded(c) /\ Recorded(c)'
          /\ Runs(c) /\ ip'[c] = ip[c] /\ ip[c] \in Cover(live)
          /\ lock # None => /\ c \notin inv[lock].moved
                            /\ inv[lock].verb # "clear"
                            /\ ~inv[lock].blind
                            /\ RecordedIn(c, inv[lock].cfg)
          => ip[c] \in Cover(live')]_vars
=============================================================================
