-------------------------------- MODULE Host --------------------------------
(***************************************************************************)
(* The part of a Linux host that mvad changes: the WireGuard link, routes, *)
(* DNS, nft tables, policy routing, one sysctl, its state file and its     *)
(* configuration, and what each command mvad runs does to them.  mvad has  *)
(* no daemon: this is all that outlives an invocation.                     *)
(*                                                                         *)
(* A command is a record [op, fam].  The commands of a package's function  *)
(* are sequences in module Session; here every package has one action that *)
(* says what each of its commands does when it succeeds.                   *)
(*                                                                         *)
(* Abstracted: relay endpoints are model values; an nft ruleset is its     *)
(* mode; /etc/resolv.conf is "orig" (the administrator's) or "mullvad".    *)
(* The host keeps its own default route beside the tunnel's (another       *)
(* metric), so `ip route del default dev mvad-wg0` brings it back.         *)
(***************************************************************************)
EXTENDS Integers, Sequences, FiniteSets

CONSTANTS
    Relays,    \* endpoint addresses a session may be dialled to
    NoRelay,   \* no endpoint
    FileDns,   \* TRUE: /etc/resolv.conf is a file; FALSE: systemd-resolved
    HasV6,     \* the device has an IPv6 address (Config.HasV6)
    HasGw6,    \* the plain device has an IPv6 gateway (Config.Gateway6)
    InitSvm,   \* src_valid_mark before mvad first runs
    OtherWg    \* another WireGuard interface is live

ASSUME HostAssumption ==
    /\ NoRelay \notin Relays
    /\ {FileDns, HasV6, HasGw6, OtherWg} \subseteq BOOLEAN
    /\ InitSvm \in {0, 1}

VARIABLES
    link,    \* mvad-wg0: "absent", "down" (added, not yet set up) or "up"
    route,   \* [def: families whose main default is the link, pins, lan]
    dns,     \* [resolv, backup, perLink]
    fw,      \* the relay table inet mvad lets through, or NoRelay: no table
    shim,    \* a transport shim runs, its pid file on disk
    split,   \* [file, rules, tbl, nft, svm]
    cfg      \* config.json: [LastEndpoint, LastSplit]

host == <<link, route, dns, fw, shim, split, cfg>>

Fam == {"v4", "v6"}

\* Rule priorities: dnsPri, mainPri and rulePri.
Pri == {97, 98, 99}

\* The best default of table 60 in a family is the one in low, the metric
\* that `ip route replace` uses when none is given; max is the unreachable
\* default at metric 4294967295.
Table60 == [low : {"none", "dev", "gw", "unreach"}, max : BOOLEAN]

\* /run/mvad/split-route.json.
StateFile == [present : BOOLEAN, Split : BOOLEAN, SrcValidMark : {0, 1}]

NoState == [present |-> FALSE, Split |-> FALSE, SrcValidMark |-> 0]

SplitState == [file  : StateFile,
               rules : SUBSET (Fam \X Pri),
               tbl   : [Fam -> Table60],
               nft   : [Fam -> {"none", "plain", "tunnel"}],
               svm   : {0, 1}]

EmptyTable == [low |-> "none", max |-> FALSE]

\* Nothing of the split package on the host.
NoSplit == [file  |-> NoState,
            rules |-> {},
            tbl   |-> [f \in Fam |-> EmptyTable],
            nft   |-> [f \in Fam |-> "none"],
            svm   |-> InitSvm]

NoRoutes == [def |-> {}, pins |-> {}, lan |-> FALSE]

HostTypeOK ==
    /\ link \in {"absent", "down", "up"}
    /\ route \in [def : SUBSET Fam, pins : SUBSET Relays, lan : BOOLEAN]
    /\ dns \in [resolv  : {"orig", "mullvad"},
                backup  : {"none", "orig", "mullvad"},
                perLink : BOOLEAN]
    /\ fw \in Relays \cup {NoRelay}
    /\ shim \in BOOLEAN
    /\ split \in SplitState
    /\ cfg \in [LastEndpoint : Relays \cup {NoRelay}, LastSplit : BOOLEAN]

HostInit ==
    /\ link = "absent"
    /\ route = NoRoutes
    /\ dns = [resolv |-> "orig", backup |-> "none", perLink |-> FALSE]
    /\ fw = NoRelay
    /\ shim = FALSE
    /\ split = NoSplit
    /\ cfg = [LastEndpoint |-> NoRelay, LastSplit |-> FALSE]

-----------------------------------------------------------------------------
(* Commands.                                                               *)

Cmd(op, f) == [op |-> op, fam |-> f]

\* A command of no family.
One(op) == [op |-> op, fam |-> "both"]

WgOps == {"linkAdd", "linkConf", "linkUp", "linkDel"}
RouteOps == {"pin", "unpin", "default", "undefault", "lan", "unlan"}
DnsOps == {"backup", "resolv", "restore", "rmBackup", "setLink", "revert"}
FwOps == {"dropAll", "undrop"}
ShimOps == {"start", "stop"}
SplitOps == {"save", "rm", "nft", "rule97", "rule98", "rule99", "unreach",
             "dev", "gw", "del97", "del98", "del99", "flush", "delNft",
             "markOn", "markOff"}
CfgOps == {"config", "mode"}

Ops == WgOps \cup RouteOps \cup DnsOps \cup FwOps \cup ShimOps
       \cup SplitOps \cup CfgOps

\* The commands that are run once per family.
FamOps == {"default", "undefault", "rule97", "rule98", "rule99", "unreach",
           "dev", "gw", "del97", "del98", "del99", "flush", "delNft"}

Command == {c \in [op : Ops, fam : Fam \cup {"both"}] :
               c.op \in FamOps => c.fam \in Fam}

\* The commands that cannot succeed in this state whatever else happens:
\* `ip link add` of a link that exists, `ip route add` of a pinned relay,
\* and anything that names a link that is not there.
Refused(c, end) ==
    \/ c.op = "linkAdd" /\ link # "absent"
    \/ c.op \in {"linkConf", "linkUp", "setLink"} /\ link = "absent"
    \/ c.op \in {"default", "dev"} /\ link # "up"
    \/ c.op = "pin" /\ end \in route.pins

\* The kernel drops every route through a link that goes, and resolved its
\* per-link settings.
LinkGone ==
    /\ link' = "absent"
    /\ route' = [route EXCEPT !.def = {}]
    /\ dns' = [dns EXCEPT !.perLink = FALSE]
    /\ split' = [split EXCEPT !.tbl = [f \in Fam |->
                    IF @[f].low = "dev" THEN [@[f] EXCEPT !.low = "none"]
                                        ELSE @[f]]]

\* wg.up and wg.down.
WgCmd(c) ==
    /\ \/ /\ c.op = "linkAdd"
          /\ link' = "down"
          /\ UNCHANGED <<route, dns, split>>
       \/ /\ c.op = "linkConf"     \* mtu, addresses, key and peer
          /\ UNCHANGED <<link, route, dns, split>>
       \/ /\ c.op = "linkUp"
          /\ link' = "up"
          /\ UNCHANGED <<route, dns, split>>
       \/ /\ c.op = "linkDel"      \* a missing link is no error
          /\ LinkGone
    /\ UNCHANGED <<fw, shim, cfg>>

\* pin and unpin: the host route that keeps the tunnel's own packets out of
\* the tunnel, for a valid endpoint.  `end` is what the caller passed.
RouteCmd(c, end) ==
    /\ route' =
          CASE c.op = "pin"       -> [route EXCEPT !.pins =
                                                @ \cup ({end} \ {NoRelay})]
            [] c.op = "unpin"     -> [route EXCEPT !.pins = @ \ {end}]
            [] c.op = "default"   -> [route EXCEPT !.def = @ \cup {c.fam}]
            [] c.op = "undefault" -> [route EXCEPT !.def = @ \ {c.fam}]
            [] c.op = "lan"       -> [route EXCEPT !.lan = TRUE]
            [] c.op = "unlan"     -> [route EXCEPT !.lan = FALSE]
    /\ UNCHANGED <<link, dns, fw, shim, split, cfg>>

\* Mutant: restore without a backup empties resolv.conf.
DnsCmdNoCheck(c) ==
    /\ dns' =
          CASE c.op = "backup"    -> [dns EXCEPT !.backup = dns.resolv]
            [] c.op = "resolv"    -> [dns EXCEPT !.resolv = "mullvad"]
            [] c.op = "restore"   -> [dns EXCEPT !.resolv = dns.backup]
            [] c.op = "rmBackup"  -> [dns EXCEPT !.backup = "none"]
            [] c.op = "setLink"   -> [dns EXCEPT !.perLink = TRUE]
            [] c.op = "revert"    -> [dns EXCEPT !.perLink = FALSE]
    /\ UNCHANGED <<link, route, fw, shim, split, cfg>>

\* dns.set and dns.restore.  The backup is written over whatever it held,
\* and a restore without one is no error and does nothing.
DnsCmd(c) ==
    /\ dns' =
          CASE c.op = "backup"    -> [dns EXCEPT !.backup = dns.resolv]
            [] c.op = "resolv"    -> [dns EXCEPT !.resolv = "mullvad"]
            [] c.op = "restore"   -> IF dns.backup = "none"
                                       THEN dns
                                       ELSE [dns EXCEPT !.resolv = dns.backup]
            [] c.op = "rmBackup"  -> [dns EXCEPT !.backup = "none"]
            [] c.op = "setLink"   -> [dns EXCEPT !.perLink = TRUE]
            [] c.op = "revert"    -> [dns EXCEPT !.perLink = FALSE]
    /\ UNCHANGED <<link, route, fw, shim, split, cfg>>

\* firewall.up and firewall.down: one nft transaction each.
FirewallCmd(c, end) ==
    /\ fw' = IF c.op = "dropAll" THEN end ELSE NoRelay
    /\ UNCHANGED <<link, route, dns, shim, split, cfg>>

\* udp2tcpStart or ssStart; ssStop and udp2tcpStop.
ShimCmd(c) ==
    /\ shim' = (c.op = "start")
    /\ UNCHANGED <<link, route, dns, fw, split, cfg>>

\* The commands of split.up and split.down.  nft -f replaces both families'
\* tables in one transaction; every other command is one family's.  Adding
\* a rule that is there and deleting what is not are no errors, so both are
\* set operations.  `isSplit` is Config.Split, `prior` the recorded sysctl.
SplitCmd(c, isSplit, prior) ==
    LET f == c.fam
        Low(v) == [split EXCEPT !.tbl[f].low = v]
        AddRule(p) == [split EXCEPT !.rules = @ \cup {<<f, p>>}]
        DelRule(p) == [split EXCEPT !.rules = @ \ {<<f, p>>}]
    IN  /\ split' =
              CASE c.op = "save"    -> [split EXCEPT !.file =
                        [present |-> TRUE, Split |-> isSplit,
                         SrcValidMark |-> prior]]
                [] c.op = "rm"      -> [split EXCEPT !.file = NoState]
                [] c.op = "nft"     -> [split EXCEPT !.nft = [g \in Fam |->
                        IF isSplit THEN "tunnel" ELSE "plain"]]
                [] c.op = "delNft"  -> [split EXCEPT !.nft[f] = "none"]
                [] c.op = "rule97"  -> AddRule(97)
                [] c.op = "rule98"  -> AddRule(98)
                [] c.op = "rule99"  -> AddRule(99)
                [] c.op = "del97"   -> DelRule(97)
                [] c.op = "del98"   -> DelRule(98)
                [] c.op = "del99"   -> DelRule(99)
                [] c.op = "unreach" -> [split EXCEPT !.tbl[f].max = TRUE]
                [] c.op = "dev"     -> Low("dev")
                [] c.op = "gw"      -> IF f = "v4" \/ HasGw6
                                         THEN Low("gw") ELSE Low("unreach")
                [] c.op = "flush"   -> [split EXCEPT !.tbl[f] = EmptyTable]
                [] c.op = "markOn"  -> [split EXCEPT !.svm = 1]
                [] c.op = "markOff" -> IF prior = 0 /\ ~OtherWg
                                          THEN [split EXCEPT !.svm = 0]
                                          ELSE split
        /\ UNCHANGED <<link, route, dns, fw, shim, cfg>>

\* cfg.Save of an attempt (its endpoint and mode), and the deferred save
\* that puts the mode back.
ConfigCmd(c, end, isSplit, prevMode) ==
    /\ cfg' = IF c.op = "config"
                THEN [LastEndpoint |-> end, LastSplit |-> isSplit]
                ELSE [cfg EXCEPT !.LastSplit = prevMode]
    /\ UNCHANGED <<link, route, dns, fw, shim, split>>

-----------------------------------------------------------------------------
(* Where the kernel sends a packet of the split set.                       *)

\* A destination with no route but the default; one that a specific route
\* of the main table covers (a route some other program added); and the
\* in-tunnel resolver that the DNS rewrite targets, which such a route may
\* cover too (a corporate 10/8).
Dest == {"inet", "covered", "resolver"}

\* The default of table 60: where it leads, or "none".
Lookup60(f) ==
    CASE split.tbl[f].low = "dev"     -> "tunnel"
      [] split.tbl[f].low = "gw"      -> "plain"
      [] split.tbl[f].low = "unreach" -> "dropped"
      [] OTHER -> IF split.tbl[f].max THEN "dropped" ELSE "none"

\* The main table, specific routes first.
MainRoute(f, d) ==
    IF d = "inet" /\ f \in route.def THEN "tunnel" ELSE "plain"

\* A packet is marked by the nft tables; only marked packets meet the rules,
\* in the order of their priorities.  Rule 98 suppresses the main table's
\* default, so it settles only destinations a specific route covers.
Routed(f, d) ==
    IF split.nft[f] = "none" THEN MainRoute(f, d)
    ELSE IF d = "resolver" /\ <<f, 97>> \in split.rules
            /\ Lookup60(f) # "none" THEN Lookup60(f)
    ELSE IF d # "inet" /\ <<f, 98>> \in split.rules THEN "plain"
    ELSE IF <<f, 99>> \in split.rules /\ Lookup60(f) # "none" THEN Lookup60(f)
    ELSE MainRoute(f, d)

\* The guard chains of the tunnel ruleset drop a marked packet that leaves
\* on another interface, private destinations excepted: the IPv4 resolver,
\* 10.64.0.1, is one, the IPv6 resolver is not.
Guarded(f, d) ==
    split.nft[f] = "tunnel" /\ ~(f = "v4" /\ d = "resolver")

Egress(f, d) ==
    IF Routed(f, d) = "plain" /\ Guarded(f, d) THEN "dropped" ELSE Routed(f, d)
=============================================================================
