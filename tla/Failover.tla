------------------------------ MODULE Failover -------------------------------
(***************************************************************************)
(* Relay choice and failover: `reconnect --if-dead`, run by a timer, beside *)
(* connect, reconnect and disconnect by the user.                          *)
(*                                                                         *)
(* Everything runs under the transition lock, and who finds it taken does  *)
(* nothing, so one invocation at a time has state.  Relays die, recover,   *)
(* change their key and retire; the API's list reaches the cache only      *)
(* while the host can reach the API.  Relays keep their addresses.  What   *)
(* a teardown and a dial do to the host is module Session's: here a dial   *)
(* takes or is rolled back as a whole.  Transports are plain WireGuard and *)
(* "shim", a process between WireGuard and the relay.  A verb without the  *)
(* lock that saves an earlier configuration is left out (module Account).  *)
(***************************************************************************)
EXTENDS Naturals, FiniteSets

CONSTANTS
    Relays,
    Queries,   \* what a user may ask for: hostnames and prefixes
    Scope,     \* the relays a query matches
    Exact,     \* queries that are hostnames
    Asks,      \* connects of the user: [query, via, split, shim]
    NoPort,    \* relays that cannot be the exit of two hops
    FirstAlive, \* relays that pass traffic at first
    None,
    Budget     \* bound: user's verbs; changes of relays; faults

Ends == [exit : Relays, entry : Relays \cup {None}]

Mode == [query : Queries, via : Queries \cup {None}, split : BOOLEAN,
         shim : BOOLEAN]

Last == [mode : Mode, ends : Ends]

ASSUME FailoverAssumption ==
    /\ Scope \in [Queries -> (SUBSET Relays) \ {{}}]
    /\ Exact \subseteq Queries
    /\ \A q \in Exact : \E r \in Relays : Scope[q] = {r}
    /\ FirstAlive \subseteq Relays /\ NoPort \subseteq Relays
    /\ None \notin Relays \cup Queries \cup Mode \cup Last
    /\ Asks \subseteq Mode
    /\ \A m \in Asks : m.shim => m.via = None
    /\ Budget \in [{"user", "relay", "fault"} -> Nat]

VARIABLES
    alive,   \* relays that pass traffic
    server,  \* the API's relay list
    disk,    \* the configuration file: the cached list, the Last* fields
    link,    \* the interface mvad0 and its peer, None if there is none
    fw,      \* the kill-switch is installed
    shim,    \* the shim process runs
    fresh,   \* the last handshake is younger than handshakeFresh
    inv,     \* the invocation that has the lock
    asked,   \* history: what the user's last connect set out to dial
    down,    \* history: a disconnect is through and the user has not dialled
             \* since
    putBack, \* history: that connect failed and its mode was put back
    missed,  \* history: a full connect whose queries failed took the host for
             \* clean, and the link is an earlier one
    excused, \* history: a dial, teardown or save failed, or was killed
    budget

history == <<asked, down, putBack, missed, excused>>

vars == <<alive, server, disk, link, fw, shim, fresh, inv, history, budget>>

\* The list: a relay's key and Active flag, or None if not listed.
List == [Relays -> [key : {0, 1}, active : BOOLEAN] \cup {None}]

Config == [cache : List, last : Last \cup {None}]

Links == [ends : Ends, key : {0, 1}, split : BOOLEAN]

Invocation == [pc : {"idle", "probe", "fetch", "pick", "teardown", "save",
                     "dial", "down"},
               verb : {"none", "connect", "reconnect", "timer", "disconnect"},
               mode : Mode \cup {None}, avoid : [exit : Relays \cup {None},
                                                  entry : Relays \cup {None}],
               cfg : Config \cup {None}, prevSplit : BOOLEAN]

Nowhere == [exit |-> None, entry |-> None]

Idle == [pc |-> "idle", verb |-> "none", mode |-> None, avoid |-> Nowhere,
         cfg |-> None, prevSplit |-> FALSE]

TypeOK ==
    /\ alive \subseteq Relays
    /\ server \in List
    /\ disk \in Config
    /\ link \in Links \cup {None}
    /\ fw \in BOOLEAN /\ shim \in BOOLEAN /\ fresh \in BOOLEAN
    /\ inv \in Invocation
    /\ asked \in Mode \cup {None}
    /\ down \in BOOLEAN /\ putBack \in BOOLEAN /\ missed \in BOOLEAN
    /\ excused \in BOOLEAN
    /\ budget \in [{"user", "relay", "fault"} -> Nat]

Init ==
    /\ alive = FirstAlive
    /\ server = [r \in Relays |-> [key |-> 0, active |-> TRUE]]
    /\ disk = [cache |-> [r \in Relays |-> None], last |-> None]
    /\ link = None /\ fw = FALSE /\ shim = FALSE /\ fresh = FALSE
    /\ inv = Idle
    /\ asked = None /\ down = FALSE /\ putBack = FALSE /\ missed = FALSE
    /\ excused = FALSE
    /\ budget = Budget

Spend(k) == budget[k] > 0 /\ budget' = [budget EXCEPT ![k] = @ - 1]

host == <<link, fw, shim, fresh>>

world == <<alive, server>>

Goto(pc) == inv' = [inv EXCEPT !.pc = pc]

Hops(ends) == {ends.exit, ends.entry} \ {None}

\* The peer answers with the key it has now, through every hop.
Works(ends, key) ==
    /\ Hops(ends) \subseteq alive
    /\ server[ends.exit] # None /\ server[ends.exit].key = key

\* The session passes traffic.
Carries ==
    /\ link # None
    /\ Works(link.ends, link.key)
    /\ disk.last.mode.shim => shim

\* The API is reached through a full session, beside a split one, and not
\* at all past a kill-switch without a link.
Online == IF link = None \/ link.split THEN ~fw ELSE Carries

\* Half a full session: its routes may be there or not.
Half == link # None /\ ~link.split /\ ~fw

-----------------------------------------------------------------------------
(* The verbs begin.                                                        *)

\* LastSplit, false before the first connect.
PrevSplit == disk.last # None /\ disk.last.mode.split

Connect ==
    /\ inv.pc = "idle"
    /\ Spend("user")
    /\ \E m \in Asks :
         inv' = [pc |-> "fetch", verb |-> "connect", mode |-> m,
                 avoid |-> Nowhere, cfg |-> disk, prevSplit |-> PrevSplit]
    /\ UNCHANGED <<world, disk, host, history>>

\* Mutant: the entry relay is forgotten.
ReplayOneHop == [disk.last.mode EXCEPT !.via = None]

\* reconnect asks for the last query and mode again.
Replay == disk.last.mode

\* Both hops of the session that is left are avoided.
Redial(verb) ==
    [pc |-> "fetch", verb |-> verb, mode |-> Replay,
     avoid |-> disk.last.ends, cfg |-> disk, prevSplit |-> PrevSplit]

Reconnect ==
    /\ inv.pc = "idle" /\ disk.last # None
    /\ Spend("user")
    /\ inv' = Redial("reconnect")
    /\ UNCHANGED <<world, disk, host, history>>

\* The timer: with the lock held it returns without a look.
Timer ==
    /\ inv.pc = "idle"
    /\ inv' = [Idle EXCEPT !.pc = "probe", !.verb = "timer"]
    /\ UNCHANGED <<world, disk, host, history, budget>>

\* Mutant: no link is a dead tunnel.
TunnelDeadNoLink(answers) == link = None \/ (~fresh /\ ~answers)

\* Mutant: what is not there is not dead.
TunnelDeadUpOnly(answers) == link # None /\ ~fresh /\ ~answers

\* A tunnel is dead when it is gone under its kill-switch, or when nothing
\* shows that it lives: no fresh handshake, and no answer to the probe.
TunnelDead(answers) == IF link = None THEN fw ELSE ~fresh /\ ~answers

\* A resolver may be silent though the tunnel works.  When the status cannot
\* be read, or `nft list` fails (firewall.Installed then says no), nothing is
\* redialled.
Probe ==
    /\ inv.pc = "probe"
    /\ \/ \E answers \in BOOLEAN :
            /\ answers => Carries
            /\ IF Carries /\ ~answers THEN Spend("fault") ELSE UNCHANGED budget
            /\ inv' = IF TunnelDead(answers) /\ disk.last # None
                        THEN Redial("timer") ELSE Idle
       \/ Spend("fault") /\ inv' = Idle
    /\ UNCHANGED <<world, disk, host, history>>

-----------------------------------------------------------------------------
(* doConnect.                                                              *)

\* refreshRelays saves the configuration; a failed fetch or save is a
\* warning.  connect and reconnect fetch only when the cache is old.
Fetch ==
    /\ inv.pc = "fetch"
    /\ \/ /\ Online \/ Half
          /\ inv' = [inv EXCEPT !.pc = "pick", !.cfg.cache = server]
          /\ \/ disk' = [disk EXCEPT !.cache = server] /\ UNCHANGED budget
             \/ Spend("fault") /\ UNCHANGED disk
       \/ /\ IF Online /\ ~Half /\ inv.verb = "timer"
               THEN Spend("fault") ELSE UNCHANGED budget
          /\ Goto("pick") /\ UNCHANGED disk
    /\ UNCHANGED <<world, host, history>>

Listed(list, query) == {r \in Scope[query] : list[r] # None}

Active(list, query) == {r \in Listed(list, query) : list[r].active}

\* Mutant: the dead relay may be picked again.
PickExceptNothing(list, query, except) ==
    IF query \in Exact THEN Listed(list, query) ELSE Active(list, query)

\* A hostname is taken as it is; a prefix prefers active relays other than
\* the one to avoid.
PickExcept(list, query, except) ==
    LET others == Active(list, query) \ {except}
    IN  IF query \in Exact THEN Listed(list, query)
        ELSE IF others # {} THEN others ELSE Active(list, query)

\* The relay or relays of the new session.
Picks ==
    [exit : PickExcept(inv.cfg.cache, inv.mode.query, inv.avoid.exit),
     entry : IF inv.mode.via = None THEN {None}
             ELSE PickExcept(inv.cfg.cache, inv.mode.via, inv.avoid.entry)]

\* Mutant: every redial is done.
IdenticalNever(ends) == FALSE

\* An unattended redial that would rebuild the session as it is.
Identical(ends) ==
    /\ inv.verb = "timer" /\ ~inv.mode.shim
    /\ inv.cfg.last # None /\ inv.cfg.last.ends = ends
    /\ link # None /\ link.key = inv.cfg.cache[ends.exit].key

\* Two hops need the exit's multihop port.
HasPort(ends) == inv.mode.via = None \/ ends.exit \notin NoPort

Pick(ends) ==
    /\ inv.pc = "pick"
    /\ ends \in Picks /\ HasPort(ends)
    /\ inv' = IF Identical(ends) THEN Idle
              ELSE [inv EXCEPT !.pc = "teardown",
                               !.cfg.last = [mode |-> inv.mode, ends |-> ends]]
    /\ UNCHANGED <<world, disk, host, history, budget>>

\* No relay matches, or one was drawn that has no multihop port; nothing has
\* been touched.
PickFails ==
    /\ inv.pc = "pick"
    /\ Picks = {} \/ \E ends \in Picks : ~HasPort(ends)
    /\ inv' = Idle
    /\ UNCHANGED <<world, disk, host, history, budget>>

\* Any other error before something is touched: nobody is logged in, the
\* bridges cannot be fetched.
Refused ==
    /\ inv.pc \in {"fetch", "pick"}
    /\ Spend("fault")
    /\ inv' = Idle
    /\ UNCHANGED <<world, disk, host, history>>

Gone == /\ link' = None /\ fw' = FALSE /\ shim' = FALSE /\ fresh' = FALSE
        /\ missed' = FALSE

\* doTeardown goes on after an error and reports it: each part may be left.
PartlyGone ==
    /\ link' \in {None, link} /\ fw' \in {FALSE, fw} /\ shim' \in {FALSE, shim}
    /\ fresh' = (fresh /\ link' # None)
    /\ missed' = (missed /\ link' # None)

\* A full connect looks whether there is something to disconnect; queries
\* that fail say no.
Teardown ==
    /\ inv.pc = "teardown"
    /\ \/ /\ inv.mode.split \/ link # None \/ fw
          /\ Gone
          /\ Goto("save") /\ UNCHANGED <<excused, budget>>
       \/ /\ ~inv.mode.split /\ link = None /\ ~fw
          /\ Goto("save") /\ UNCHANGED <<host, missed, excused, budget>>
       \/ /\ ~inv.mode.split /\ Spend("fault")
          /\ missed' = (link # None)
          /\ Goto("save") /\ UNCHANGED <<host, excused>>
       \/ /\ Spend("fault")
          /\ PartlyGone
          /\ inv' = Idle /\ excused' = TRUE
    /\ UNCHANGED <<world, disk, asked, down, putBack>>

\* What the user asked for is what a connect saves.  A reconnect, by hand or
\* by the timer, is measured against it.
Save ==
    /\ inv.pc = "save"
    /\ \/ /\ disk' = inv.cfg
          /\ IF inv.verb = "connect"
               THEN asked' = inv.mode /\ putBack' = FALSE
               ELSE UNCHANGED <<asked, putBack>>
          /\ down' = (down /\ inv.verb = "timer")
          /\ Goto("dial") /\ UNCHANGED <<excused, budget>>
       \/ /\ Spend("fault")
          /\ inv' = Idle /\ excused' = TRUE
          /\ UNCHANGED <<disk, asked, down, putBack>>
    /\ UNCHANGED <<world, host, missed>>

NewLink == [ends |-> inv.cfg.last.ends, split |-> inv.mode.split,
            key |-> inv.cfg.cache[inv.cfg.last.ends.exit].key]

\* What a failed dial puts back of what was saved: the mode, if that save
\* does not fail too.
ModePutBack ==
    \/ /\ disk' = [disk EXCEPT !.last.mode.split = inv.prevSplit]
       /\ putBack' = (putBack \/ (inv.verb = "connect"
                                  /\ inv.prevSplit # inv.mode.split))
    \/ UNCHANGED <<disk, putBack>>

\* The session, or its rollback; `ip link add` refuses a second mvad0.
Dial ==
    /\ inv.pc = "dial"
    /\ \/ /\ link = None
          /\ link' = NewLink
          /\ fw' = ~inv.mode.split
          /\ shim' = inv.mode.shim /\ fresh' = FALSE
          /\ UNCHANGED <<disk, putBack, excused, budget>>
       \/ /\ IF link = None THEN Spend("fault") ELSE UNCHANGED budget
          /\ excused' = TRUE
          /\ ModePutBack
          /\ fw' \in {fw, fw /\ link # None}
          /\ UNCHANGED <<link, shim, fresh>>
    /\ inv' = Idle
    /\ UNCHANGED <<world, asked, down, missed>>

Disconnect ==
    /\ inv.pc = "idle"
    /\ Spend("user")
    /\ inv' = [Idle EXCEPT !.pc = "down", !.verb = "disconnect"]
    /\ UNCHANGED <<world, disk, host, history>>

Down ==
    /\ inv.pc = "down"
    /\ \/ /\ Gone /\ down' = TRUE
          /\ UNCHANGED <<excused, budget>>
       \/ /\ Spend("fault") /\ excused' = TRUE
          /\ PartlyGone /\ UNCHANGED down
    /\ inv' = Idle
    /\ UNCHANGED <<world, disk, asked, putBack>>

-----------------------------------------------------------------------------
(* The environment.                                                        *)

\* A teardown takes the kill-switch before the link, a dial installs it
\* after; a kill leaves what is between.
Kill ==
    /\ inv.pc # "idle"
    /\ Spend("fault")
    /\ \/ UNCHANGED host
       \/ /\ inv.pc \in {"teardown", "down"}
          /\ fw' = FALSE /\ shim' = FALSE /\ UNCHANGED <<link, fresh>>
       \/ /\ inv.pc = "dial" /\ link = None
          /\ link' = NewLink
          /\ fw' \in {fw, ~inv.mode.split} /\ UNCHANGED <<shim, fresh>>
    /\ inv' = Idle /\ excused' = TRUE
    /\ UNCHANGED <<world, disk, asked, down, putBack, missed>>

\* Relays stop and start to pass traffic, get a new key, are taken out of
\* service or off the list.
RelayChanges ==
    /\ Spend("relay")
    /\ \E r \in Relays :
         \/ /\ alive' = IF r \in alive THEN alive \ {r} ELSE alive \cup {r}
            /\ UNCHANGED server
         \/ /\ server[r] # None /\ server[r].key = 0
            /\ server' = [server EXCEPT ![r].key = 1] /\ UNCHANGED alive
         \/ /\ server[r] # None
            /\ server' \in {[server EXCEPT ![r] = None],
                            [server EXCEPT ![r].active = FALSE]}
            /\ alive' = alive \ {r}
    /\ UNCHANGED <<disk, host, inv, history>>

\* The interface is deleted by someone else.
LinkLost ==
    /\ link # None
    /\ Spend("fault")
    /\ link' = None /\ fresh' = FALSE /\ missed' = FALSE
    /\ UNCHANGED <<world, disk, fw, shim, inv, asked, down, putBack, excused>>

ShimDies ==
    /\ shim
    /\ Spend("fault")
    /\ shim' = FALSE
    /\ UNCHANGED <<world, disk, link, fw, fresh, inv, history>>

Handshake ==
    /\ Carries /\ ~fresh
    /\ fresh' = TRUE
    /\ UNCHANGED <<world, disk, link, fw, shim, inv, history, budget>>

\* handshakeFresh goes by; an idle tunnel has no handshakes either.
Expire ==
    /\ fresh
    /\ fresh' = FALSE
    /\ UNCHANGED <<world, disk, link, fw, shim, inv, history, budget>>

Step == Probe \/ Fetch \/ PickFails \/ Teardown \/ Save \/ Dial \/ Down

Next ==
    \/ Connect \/ Reconnect \/ Disconnect \/ Timer
    \/ Step \/ \E e \in Ends : Pick(e)
    \/ Refused \/ Kill \/ RelayChanges \/ LinkLost \/ ShimDies \/ Handshake \/ Expire

\* What may be picked at all.
Fits(r, query) == IF query = None THEN r = None ELSE r \in Scope[query]

Pairs ==
    {e \in Ends : \E m \in Asks :
        /\ Fits(e.exit, m.query) /\ Fits(e.entry, m.via)
        /\ e.entry # None => e.exit \notin NoPort}

\* The timer fires every minute, an invocation goes on (calls have
\* deadlines), the pick is uniform, handshakes age.
Fairness ==
    /\ WF_vars(Timer) /\ WF_vars(Step) /\ WF_vars(Expire)
    /\ WF_vars(\E e \in Ends : Pick(e))
    /\ \A e \in Pairs : SF_vars(Pick(e))

Spec == Init /\ [][Next]_vars /\ Fairness
-----------------------------------------------------------------------------
(* Properties.                                                             *)

\* A disconnect that is through stays down whatever the timer does, until
\* the user dials again.
StaysDown == down => link = None

\* However often a session was redialled, by the timer or by hand, and
\* whatever failed in between, its relays are among those the user's last
\* connect asked for, with as many hops and in the same mode.  Two cases are
\* left out by name: a connect that failed leaves its query to the reconnects
\* but not its mode (putBack; a failed `connect --split` may be redialled in
\* full mode); and the link is still an earlier one when a full connect did
\* not see it (missed).
InScope ==
    link # None /\ ~missed =>
        /\ asked # None
        /\ Fits(link.ends.exit, asked.query) /\ Fits(link.ends.entry, asked.via)
        /\ link.split = asked.split \/ putBack

\* Of a session that is the one the configuration remembers.
UnattendedTeardown ==
    /\ inv.verb = "timer" /\ inv.pc = "teardown" /\ inv'.pc = "save"
    /\ link # None /\ ~missed /\ link' = None

\* The timer takes a session down only for one on other relays, both hops,
\* as long as the list it goes by has any.
LeavesDead ==
    [][UnattendedTeardown =>
         \A h \in {"exit", "entry"} :
            LET q == IF h = "exit" THEN asked.query ELSE asked.via
            IN  \/ q = None \/ q \in Exact
                \/ Active(inv.cfg.cache, q) \subseteq {link.ends[h]}
                \/ inv'.cfg.last.ends[h] # link.ends[h]]_vars

\* A session by hostname has nowhere to go: the timer leaves it to the
\* kernel unless the relay's key changed or a shim needs a restart.
LeftAlone ==
    [][UnattendedTeardown /\ {asked.query, asked.via} \ {None} \subseteq Exact
         => asked.shim \/ link.key # inv.cfg.cache[link.ends.exit].key]_vars

\* The list a redial will go by: the API's where it can be reached while the
\* tunnel is dead, the cached one elsewhere.
Known == IF link # None /\ link.split THEN server ELSE disk.cache

Candidates(query) == PickExcept(Known, query, None)

\* Two relays for each of two hops are only ever tried in two of the four
\* pairs, because both hops rotate; and the only exit with a multihop port is
\* never tried twice, because another one is always drawn.
Explores ==
    LET exits == Candidates(asked.query) \ NoPort
    IN  \/ asked.via = None
        \/ /\ Cardinality(exits) # 2 \/ Cardinality(Candidates(asked.via)) # 2
           /\ Cardinality(exits) # 1 \/ Candidates(asked.query) = exits

\* The timer sees the session, a dead one included, and some session that it
\* can pick would work.
Recoverable ==
    /\ asked # None /\ ~down /\ ~excused
    /\ link # None \/ fw
    /\ Explores
    /\ \E x \in Candidates(asked.query) :
       \E n \in IF asked.via = None THEN {None} ELSE Candidates(asked.via) :
            /\ n # None => x \notin NoPort
            /\ Works([exit |-> x, entry |-> n], Known[x].key)

\* A tunnel that stopped passing traffic, or is gone under its kill-switch,
\* passes traffic again in the end and is then left alone, if there is a
\* relay for it and no redial fails.
FailsOver == <>[](Recoverable => Carries)
=============================================================================
