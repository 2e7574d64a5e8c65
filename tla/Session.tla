------------------------------- MODULE Session -------------------------------
(***************************************************************************)
(* `mvad connect`, `mvad connect --split` and `mvad disconnect` on Linux,  *)
(* one command at a time.  Any command may fail, the process may die       *)
(* between two of them, the link may vanish and the machine may reboot.    *)
(*                                                                         *)
(* An invocation goes through phases (pc); each phase runs the sequence of *)
(* commands (todo) of one package function.  In the phases that build a    *)
(* session the first failure stops the phase and starts the undo the code  *)
(* has for that point; teardowns and undos run every command and only note *)
(* the failures.  The transition lock (module RootLock) lets one           *)
(* invocation run at a time, so there is one of them here.                 *)
(*                                                                         *)
(* Not here: what is checked before anything changes (login, key, relay    *)
(* choice, lockdown), the elements of the split set, notifications, and    *)
(* `reconnect`, which is a connect with remembered options.  Nor are the   *)
(* verbs that save the whole configuration without the lock (modules       *)
(* Account and SplitSet): one that loaded it before a connect and saves it *)
(* afterwards brings back an earlier LastEndpoint and LastSplit, and the   *)
(* properties below that read them are about the time until then.          *)
(***************************************************************************)
EXTENDS Host

CONSTANTS
    Options,   \* what connect may be asked for: [relay, split, shim, lan]
    Budget     \* how many faults of each kind a behaviour may have

Faults == {"crash", "fail", "loss", "reboot"}

ConnectOpts == [relay : Relays \cup {NoRelay}, split : BOOLEAN, shim : BOOLEAN,
                lan : BOOLEAN]

\* No connect is running.
NoOpts == [relay |-> NoRelay, split |-> FALSE, shim |-> FALSE, lan |-> FALSE]

ASSUME SessionAssumption ==
    /\ Options \subseteq ConnectOpts
    /\ \A o \in Options :
          o.relay \in Relays /\ ~(o.split /\ o.lan)   \* parseConnectOpts
    /\ Budget \in [Faults -> Nat]

VARIABLES
    pc,      \* the phase of the running invocation, "idle" between two
    todo,    \* commands left in the phase
    inv,     \* locals of the running invocation, or of the last one
    sess,    \* history: the mode of the established session, or "none"; a full
             \* one ends at a teardown or at a connect whose queries missed it
    budget   \* faults left

vars == <<host, pc, todo, inv, sess, budget>>

Phases == {"idle", "disconnect", "teardown", "save", "wg", "route", "dns",
           "firewall", "shim", "lan", "split", "undo", "undoSplit", "mode"}

\* end: the endpoint given to the route commands.  prior, prevSplit: of
\* split.up.  prevMode, saved: of doConnect's deferred restore.  err: what
\* errors.Join of a teardown returns.  History: fails counts the failed
\* commands; base, whether the session was built on a clean host.
Invocation == [verb : {"none", "connect", "disconnect"}, opts : ConnectOpts,
               end : Relays \cup {NoRelay}, prior : {0, 1},
               prevSplit : BOOLEAN, prevMode : BOOLEAN, saved : BOOLEAN,
               err : BOOLEAN, ok : BOOLEAN, fails : Nat, base : BOOLEAN]

NoInvocation == [verb |-> "none", opts |-> NoOpts, end |-> NoRelay,
                 prior |-> 0, prevSplit |-> FALSE, prevMode |-> FALSE,
                 saved |-> FALSE, err |-> FALSE, ok |-> FALSE, fails |-> 0,
                 base |-> FALSE]

TypeOK ==
    /\ HostTypeOK
    /\ pc \in Phases
    /\ todo \in Seq(Command)
    /\ inv \in Invocation
    /\ sess \in {"none", "split", "full"}
    /\ budget \in [Faults -> Nat]

-----------------------------------------------------------------------------
(* The command sequences of the packages' functions.                       *)

\* split.down; nothing without a state file.
DelRules == <<Cmd("del97", "v4"), Cmd("del97", "v6"),
              Cmd("del98", "v4"), Cmd("del99", "v4"),
              Cmd("del98", "v6"), Cmd("del99", "v6")>>

DelRoutes == <<Cmd("flush", "v4"), Cmd("flush", "v6")>>

NftDel == <<Cmd("delNft", "v4"), Cmd("delNft", "v6")>>

\* The teardown of split.down, and the rollback of split.up.
StripSplit == DelRules \o DelRoutes \o NftDel \o <<One("rm"), One("markOff")>>

SplitDown == IF split.file.present THEN StripSplit ELSE <<>>

DnsRestore == IF FileDns THEN <<One("restore")>> ELSE <<One("revert")>>

RouteUnset ==
    <<Cmd("undefault", "v4"), Cmd("undefault", "v6"), One("unpin")>>

WgDown == <<One("linkDel")>>

\* Mutant: the link goes before the routes that only it makes visible.
TeardownLinkFirst == <<One("unlan"), One("stop"), One("undrop")>>
                     \o WgDown \o DnsRestore \o RouteUnset

\* doTeardown; doDisconnect runs split.Down before it.
Teardown == <<One("unlan"), One("stop"), One("undrop")>>
            \o DnsRestore \o RouteUnset \o WgDown

\* Mutant: split mode, too, tears down only what it sees.
SplitTeardownIfVisible ==
    IF link = "up" \/ fw # NoRelay THEN Teardown ELSE <<>>

\* What `connect --split` tears down: all but the split routing.
SplitTeardown == Teardown

WgUp == <<One("linkAdd"), One("linkConf"), One("linkUp")>>

RouteSet == <<One("pin"), Cmd("default", "v4"), Cmd("default", "v6")>>

DnsSet == IF FileDns THEN <<One("backup"), One("resolv")>>
                     ELSE <<One("setLink")>>

\* installRoutes.
InstallRules == <<Cmd("rule98", "v4"), Cmd("rule99", "v4"),
                  Cmd("rule98", "v6"), Cmd("rule99", "v6")>>

\* Mutant: no unreachable defaults.
InstallTunnelRoutesOnly ==
    <<Cmd("rule97", "v4"), Cmd("rule97", "v6"), Cmd("dev", "v4")>>
    \o IF HasV6 THEN <<Cmd("dev", "v6")>> ELSE <<>>

InstallTunnelRoutes ==
    <<Cmd("rule97", "v4"), Cmd("rule97", "v6"),
      Cmd("unreach", "v4"), Cmd("unreach", "v6"), Cmd("dev", "v4")>>
    \o IF HasV6 THEN <<Cmd("dev", "v6")>> ELSE <<>>

InstallPlainRoutes ==
    <<Cmd("del97", "v4"), Cmd("del97", "v6"),
      Cmd("gw", "v4"), Cmd("gw", "v6")>>

\* Mutant: the state file is written last.
SplitUpSaveLast(isSplit) ==
    <<One("nft")>> \o InstallRules
    \o (IF isSplit THEN InstallTunnelRoutes ELSE InstallPlainRoutes)
    \o <<One("markOn"), One("save")>>

\* split.up after its checks: the state file before anything it describes.
SplitUp(isSplit) ==
    <<One("save"), One("nft")>> \o InstallRules
    \o (IF isSplit THEN InstallTunnelRoutes ELSE InstallPlainRoutes)
    \o <<One("markOn")>>

-----------------------------------------------------------------------------
(* Phases.                                                                 *)

\* The commands of a phase that builds a session.
Program(p) ==
    CASE p = "save"     -> <<One("config")>>
      [] p = "wg"       -> WgUp
      [] p = "route"    -> RouteSet
      [] p = "dns"      -> DnsSet
      [] p = "firewall" -> <<One("dropAll")>>
      [] p = "shim"     -> IF inv.opts.shim THEN <<One("start")>> ELSE <<>>
      [] p = "lan"      -> IF inv.opts.lan THEN <<One("lan")>> ELSE <<>>
      [] p = "split"    -> SplitUp(inv.opts.split)

\* The phase after a building phase that went through.
After(p) ==
    CASE p = "save"     -> "wg"
      [] p = "wg"       -> IF inv.opts.split THEN "split" ELSE "route"
      [] p = "route"    -> "dns"
      [] p = "dns"      -> "firewall"
      [] p = "firewall" -> "shim"
      [] p = "shim"     -> IF inv.opts.split THEN "idle" ELSE "lan"
      [] p = "lan"      -> "split"
      [] p = "split"    -> IF inv.opts.split THEN "shim" ELSE "idle"

\* Mutant: rollback forgets the session it is replacing.
RollbackAlways(c) == IF c.op = "save" THEN <<>> ELSE StripSplit

\* rollback of split.up: nothing when the state file could not be written,
\* nothing when a split session is being replaced by another.
Rollback(c) == IF c.op = "save" \/ inv.prevSplit THEN <<>> ELSE StripSplit

\* Of a failed firewall.Up.
FirewallUndo == DnsRestore \o RouteUnset \o WgDown

\* What doConnect (and the function that failed) undoes when command c of
\* the current phase fails.
Undo(c) ==
    CASE pc = "save"     -> <<>>
      [] pc = "wg"       -> IF c.op = "linkAdd" THEN <<>> ELSE WgDown
      [] pc = "route"    -> (IF c.fam = "v6"
                               THEN <<Cmd("undefault", "v4")>> ELSE <<>>)
                            \o (IF c.op = "pin" THEN <<>> ELSE <<One("unpin")>>)
                            \o WgDown
      [] pc = "dns"      -> RouteUnset \o WgDown
      [] pc = "firewall" -> FirewallUndo
      [] pc = "shim"     -> IF inv.opts.split
                              THEN SplitDown \o WgDown
                              ELSE <<One("undrop")>> \o FirewallUndo
      [] pc = "split"    -> Rollback(c)
                            \o (IF inv.opts.split THEN WgDown ELSE <<>>)

\* Phases that go on after a failed command.
Lenient == {"disconnect", "teardown", "undo", "undoSplit", "lan", "mode"}

Building == {"save", "wg", "route", "dns", "firewall", "shim", "lan", "split"}

Do(c) ==
    \/ c.op \in WgOps /\ WgCmd(c)
    \/ c.op \in RouteOps /\ RouteCmd(c, inv.end)
    \/ c.op \in DnsOps /\ DnsCmd(c)
    \/ c.op \in FwOps /\ FirewallCmd(c, inv.end)
    \/ c.op \in ShimOps /\ ShimCmd(c)
    \/ c.op \in SplitOps /\ SplitCmd(c, inv.opts.split, inv.prior)
    \/ c.op \in CfgOps /\ ConfigCmd(c, inv.opts.relay, inv.opts.split,
                                    inv.prevMode)

\* Run the next command.  dns.restore goes on to remove the backup it has
\* written back.
Exec ==
    /\ todo # <<>>
    /\ ~Refused(Head(todo), inv.end)
    /\ Do(Head(todo))
    /\ todo' = (IF Head(todo).op = "restore" /\ dns.backup # "none"
                  THEN <<One("rmBackup")>> ELSE <<>>) \o Tail(todo)
    /\ UNCHANGED <<pc, inv, sess, budget>>

Spend(kind) ==
    /\ budget[kind] > 0
    /\ budget' = [budget EXCEPT ![kind] = @ - 1]

\* The next command fails and changes nothing.
CommandFails ==
    /\ todo # <<>>
    /\ IF Refused(Head(todo), inv.end) THEN UNCHANGED budget ELSE Spend("fail")
    /\ \/ /\ pc \in Lenient
          /\ todo' = Tail(todo)
          /\ inv' = [inv EXCEPT !.fails = @ + 1,
                        !.err = @ \/ (/\ pc \in {"teardown", "disconnect"}
                                      /\ Head(todo).op \notin
                                            SplitOps \cup {"unlan"})]
          /\ UNCHANGED pc
       \/ /\ pc \notin Lenient
          /\ todo' = Undo(Head(todo))
          /\ pc' = IF pc = "split" /\ ~inv.opts.split
                     THEN "undoSplit" ELSE "undo"
          /\ inv' = [inv EXCEPT !.fails = @ + 1]
    /\ UNCHANGED <<host, sess>>

-----------------------------------------------------------------------------
(* The verbs.                                                              *)

\* What a session leaves on the host besides its link, its tables and the
\* split package's state: host routes, resolv.conf, shims.
SessionClean ==
    /\ route = NoRoutes
    /\ dns.resolv = "orig" /\ ~dns.perLink
    /\ ~shim

\* The kernel state the README lists: link, nft tables, rules, table 60.
KernelClean ==
    /\ link = "absent"
    /\ fw = NoRelay
    /\ split.rules = {}
    /\ \A f \in Fam : split.nft[f] = "none" /\ split.tbl[f] = EmptyTable

\* A host without a session, apart from split routing that its state file
\* announces.
HostClean == /\ SessionClean /\ link = "absent" /\ fw = NoRelay
             /\ split.file.present \/ KernelClean

\* Mutant: a dead tunnel's kill-switch is not looked for.
NeedsDisconnectLinkOnly == link = "up"

\* What a full connect asks before it builds on the host as it is:
\* status.Read's Up, or firewall.Installed.  A failing query counts as "no"
\* (Connect): status.Read's error is dropped, and Installed takes any failing
\* `nft list` for no table.
NeedsDisconnect == link = "up" \/ fw # NoRelay

\* connect, up to the first command that changes anything.  When the queries
\* of a full connect fail it takes the host for clean and builds over whatever
\* is there; a full session it does not see ends here (sess).
Connect(o) ==
    /\ pc = "idle"
    /\ inv' = [verb |-> "connect", opts |-> o, end |-> cfg.LastEndpoint,
               prior |-> split.file.SrcValidMark, prevSplit |-> FALSE,
               prevMode |-> cfg.LastSplit, saved |-> FALSE, err |-> FALSE,
               ok |-> FALSE, fails |-> 0, base |-> FALSE]
    /\ \/ /\ o.split
          /\ pc' = "teardown"
          /\ todo' = SplitTeardown
          /\ sess' = IF sess = "full" THEN "none" ELSE sess
          /\ UNCHANGED budget
       \/ /\ ~o.split /\ NeedsDisconnect
          /\ pc' = "teardown"
          /\ todo' = SplitDown \o Teardown
          /\ sess' = "none"
          /\ UNCHANGED budget
       \/ /\ ~o.split
          /\ pc' = "save"
          /\ todo' = <<One("config")>>
          /\ \/ ~NeedsDisconnect /\ UNCHANGED <<sess, budget>>
             \/ /\ NeedsDisconnect /\ Spend("fail")
                /\ sess' = IF sess = "full" THEN "none" ELSE sess
    /\ UNCHANGED host

Disconnect ==
    /\ pc = "idle"
    /\ pc' = "disconnect"
    /\ todo' = SplitDown \o Teardown
    /\ inv' = [verb |-> "disconnect", opts |-> NoOpts,
               end |-> cfg.LastEndpoint, prior |-> split.file.SrcValidMark,
               prevSplit |-> FALSE, prevMode |-> FALSE, saved |-> FALSE,
               err |-> FALSE, ok |-> FALSE, fails |-> 0, base |-> FALSE]
    /\ sess' = "none"
    /\ UNCHANGED <<host, budget>>

\* An invocation returns.
Return(ok) ==
    /\ pc' = "idle"
    /\ todo' = <<>>
    /\ inv' = [inv EXCEPT !.ok = ok]

\* Mutant: the deferred restore of the mode is dropped.
FailKeepsMode == Return(FALSE) /\ UNCHANGED <<host, sess, budget>>

\* doConnect returns an error: first its deferred function puts back the
\* mode that a later reconnect replays, if this attempt saved another.
Fail ==
    /\ IF inv.saved /\ cfg.LastSplit # inv.prevMode
         THEN /\ pc' = "mode"
              /\ todo' = <<One("mode")>>
              /\ UNCHANGED inv
         ELSE Return(FALSE)
    /\ UNCHANGED <<host, sess, budget>>

\* The head of split.up: prevSplit, and the sysctl as mvad first found it.
ReadState ==
    inv' = [inv EXCEPT !.prevSplit = split.file.present /\ split.file.Split
                                     /\ inv.opts.split,
                       !.prior = IF split.file.present
                                   THEN split.file.SrcValidMark
                                   ELSE split.svm]

\* Go on to phase p.  A full session without a plain gateway skips split.Up;
\* with one, the split set now bypasses the tunnel, and a split session the
\* host still held ends here.
Enter(p) ==
    /\ pc' = p
    /\ \/ /\ todo' = Program(p)
          /\ IF p = "split"
               THEN ReadState
               ELSE inv' = [inv EXCEPT !.saved = @ \/ p = "wg",
                                       !.base = IF p = "wg" THEN HostClean
                                                            ELSE @,
                                       !.end = inv.opts.relay]
          /\ sess' = IF p = "split" /\ ~inv.opts.split THEN "none" ELSE sess
       \/ /\ p = "split" /\ ~inv.opts.split
          /\ todo' = <<>>
          /\ UNCHANGED <<inv, sess>>
    /\ UNCHANGED <<host, budget>>

Established ==
    /\ Return(TRUE)
    /\ sess' = IF inv.opts.split THEN "split" ELSE "full"
    /\ UNCHANGED <<host, budget>>

\* The phase has run out of commands.
Advance ==
    /\ todo = <<>>
    /\ \/ /\ pc = "disconnect"
          /\ Return(~inv.err)
          /\ UNCHANGED <<host, sess, budget>>
       \/ pc = "teardown" /\ inv.err /\ Fail
       \/ pc = "teardown" /\ ~inv.err /\ Enter("save")
       \/ pc \in Building /\ After(pc) # "idle" /\ Enter(After(pc))
       \/ pc \in Building /\ After(pc) = "idle" /\ Established
       \/ pc = "undo" /\ Fail
       \/ pc = "undoSplit" /\ Established
       \/ pc = "mode" /\ Return(FALSE) /\ UNCHANGED <<host, sess, budget>>

-----------------------------------------------------------------------------
(* Faults.                                                                 *)

\* The process dies (signal, panic, power button on a laptop's terminal):
\* everything it did stays.
Crash ==
    /\ pc # "idle"
    /\ Spend("crash")
    /\ pc' = "idle"
    /\ todo' = <<>>
    /\ inv' = NoInvocation
    /\ UNCHANGED <<host, sess>>

\* The link goes away without mvad: deleted by hand, module unloaded.
LinkLost ==
    /\ link # "absent"
    /\ Spend("loss")
    /\ LinkGone
    /\ UNCHANGED <<fw, shim, cfg, pc, todo, inv, sess>>

\* /run and the kernel start empty; /etc/resolv.conf and the configuration
\* are on disk.
Reboot ==
    /\ Spend("reboot")
    /\ link' = "absent"
    /\ route' = NoRoutes
    /\ dns' = [dns EXCEPT !.backup = "none", !.perLink = FALSE]
    /\ fw' = NoRelay
    /\ shim' = FALSE
    /\ split' = NoSplit
    /\ pc' = "idle"
    /\ todo' = <<>>
    /\ inv' = NoInvocation
    /\ sess' = "none"
    /\ UNCHANGED cfg

-----------------------------------------------------------------------------
Init ==
    /\ HostInit
    /\ pc = "idle"
    /\ todo = <<>>
    /\ inv = NoInvocation
    /\ sess = "none"
    /\ budget = Budget

Next ==
    \/ \E o \in Options : Connect(o)
    \/ Disconnect
    \/ Exec
    \/ CommandFails
    \/ Advance
    \/ Crash
    \/ LinkLost
    \/ Reboot

Spec == Init /\ [][Next]_vars
-----------------------------------------------------------------------------
(* Properties.                                                             *)

\* From the moment `connect --split` succeeds until a disconnect or a full
\* session's split.Up begins, no packet of the split set leaves on the plain
\* network, whatever its destination: not while the session is redialled,
\* not after a failed redial, a crash of mvad or the loss of the link.
FailClosed ==
    sess = "split" => \A f \in Fam, d \in Dest : Egress(f, d) # "plain"

\* The routing rules and table 60 do that on their own, without the guard
\* chains, for the destinations that no specific route covers and for the
\* resolver (the fail-closed route of installTunnelRoutes).  A device without
\* IPv6 is left out where the host has an IPv6 gateway: what a full session
\* put into table 60 then stays, and the guard chains are all there is.
RouteFailClosed ==
    (sess = "split" /\ (HasV6 \/ ~HasGw6)) =>
        \A f \in Fam, d \in {"inet", "resolver"} : Routed(f, d) # "plain"

\* From a successful full connect until the teardown the user asks for, the
\* kill-switch stands, lets through the relay the configuration remembers,
\* and that relay's host route is there: a dead link or a failed or crashed
\* later attempt changes none of the three alone.  One later attempt is left
\* out by name: a full connect whose queries for the session failed
\* (NeedsDisconnect) saves its own relay over the standing table, so the
\* history `sess` ends a full session there.  (And a verb without the lock
\* that saves an earlier configuration, which this module leaves out.)
KillSwitch ==
    sess = "full" => fw = cfg.LastEndpoint /\ fw \in route.pins

\* A connect that is stopped by one failing command leaves the mode that a
\* later reconnect replays as it was (the deferred function of doConnect),
\* and undoes what it built on a clean host: of the split package only an
\* earlier session's state stays, with the state file a disconnect needs.
RollbackClean ==
    (pc = "idle" /\ inv.verb = "connect" /\ ~inv.ok /\ inv.fails = 1)
        => /\ cfg.LastSplit = inv.prevMode
           /\ inv.base => HostClean

\* History, from what is left of the budget.
NoneFailed == budget["fail"] = Budget["fail"]
NoneKilled == budget["crash"] = Budget["crash"]
NoReboot == budget["reboot"] = Budget["reboot"]
NoLoss == budget["loss"] = Budget["loss"]

\* As long as no command failed, a disconnect puts the host back, from
\* wherever killed invocations, lost links and reboots left it: link, tables,
\* rules, table 60 and shim go, with the files that announce them (README,
\* Files).  So do host routes, and resolv.conf is the administrator's (unless
\* a reboot took the backup), if not both a link was lost and an invocation
\* killed: the residue of the two together can be invisible to the connect
\* that comes next.  src_valid_mark is what mvad first found unless an
\* invocation was killed, however many sessions of both modes replaced each
\* other in between.
DisconnectRestores ==
    (pc = "idle" /\ inv.verb = "disconnect" /\ inv.fails = 0 /\ NoneFailed)
        => /\ KernelClean
           /\ ~shim /\ ~dns.perLink
           /\ dns.backup = "none" /\ ~split.file.present
           /\ (NoneKilled \/ NoLoss) =>
                 route = NoRoutes /\ (NoReboot => dns.resolv = "orig")
           /\ (NoneKilled /\ ~OtherWg) => split.svm = InitSvm

\* As long as no command failed, and not both a link was lost and an
\* invocation killed, nothing of a session is on the host that mvad could
\* not find again.  At any moment, in the middle of a command
\* sequence too: the only relay with a host route is the one the saved
\* configuration names (a teardown unpins that one), and the administrator's
\* resolv.conf is in place or in the backup, unless a reboot took it.
\* Between invocations: what a full session left is announced by a link or
\* a kill-switch, the two things a full connect looks at before it builds on
\* the host as it finds it, and split routing by the state file without
\* which split.down does nothing.  The one thing neither announces is the
\* shim of a split session that has lost its link.
Traceable ==
    (NoneFailed /\ (NoneKilled \/ NoLoss)) =>
        /\ route.pins \subseteq {cfg.LastEndpoint}
        /\ NoReboot => dns.resolv = "orig" \/ dns.backup = "orig"
        /\ (pc = "idle" /\ ~NeedsDisconnect /\ NoReboot) =>
              /\ route = NoRoutes
              /\ dns.resolv = "orig" /\ ~dns.perLink
              /\ shim => sess = "split"
        /\ (pc = "idle" /\ ~split.file.present) =>
              /\ split.rules = {}
              /\ \A f \in Fam : split.nft[f] = "none"
                                /\ split.tbl[f] = EmptyTable

\* As long as no command failed and no link was lost, `connect --split`
\* succeeds from whatever state killed invocations and reboots left: its
\* teardown does not depend on what the host looks like.
SplitConnectRecovers ==
    (/\ NoneFailed /\ NoLoss
     /\ pc = "idle" /\ inv.verb = "connect" /\ inv.opts.split)
        => inv.ok
=============================================================================
