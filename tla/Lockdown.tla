------------------------------ MODULE Lockdown -------------------------------
(***************************************************************************)
(* Package lockdown on Linux: the persistent kill-switch, which is an nft  *)
(* table, a script on disk that a boot unit loads, and a marker on tmpfs   *)
(* that tells unprivileged readers about the table.  `lockdown on`, `off`  *)
(* and `refresh` run one command at a time, under the transition lock;     *)
(* commands fail, invocations are killed and the machine boots.            *)
(*                                                                         *)
(* An allow-list is a model value.  The relay cache it is taken from is    *)
(* saved by other verbs, some without the lock.  `connect --split`, which  *)
(* lockdown and split mode exclude from each other, is one step here.      *)
(***************************************************************************)
EXTENDS Integers, Sequences

CONSTANTS
    Lists,    \* allow-lists with a valid address
    None,     \* no table, no script; a cache without relays
    Budget    \* how many faults of each kind a behaviour may have

Faults == {"crash", "fail", "boot"}

ASSUME LockdownAssumption == None \notin Lists /\ Budget \in [Faults -> Nat]

VARIABLES
    table,    \* the list table inet mvad-lockdown allows, or None
    script,   \* the list in /var/lib/mvad/lockdown.nft, or None
    marker,   \* /run/mvad/lockdown exists
    cache,    \* the list of config.RelayCache
    split,    \* split.SplitMode: a split session's state file is there
    todo,     \* commands left of the running verb
    inv,      \* the running verb, or the last one
    locked,   \* history: a `lockdown on` succeeded, no `off` began since
    offed,    \* history: an `off` began, no `on` succeeded since
    blind,    \* history: connect --split could not ask nft for the table
    budget    \* faults left

host == <<table, script, marker, cache, split>>

vars == <<host, todo, inv, locked, offed, blind, budget>>

Commands == {"writeScript", "nft", "writeMarker", "list",
             "delTable", "rmScript", "rmMarker"}

Invocation == [verb : {"none", "on", "off", "refresh"}, busy : BOOLEAN,
               ips : Lists \cup {None}, ok : BOOLEAN, fails : Nat]

TypeOK ==
    /\ table \in Lists \cup {None} /\ script \in Lists \cup {None}
    /\ cache \in Lists \cup {None}
    /\ marker \in BOOLEAN /\ split \in BOOLEAN
    /\ locked \in BOOLEAN /\ offed \in BOOLEAN /\ blind \in BOOLEAN
    /\ todo \in Seq(Commands)
    /\ inv \in Invocation
    /\ inv.verb \in {"on", "refresh"} => inv.ips # None
    /\ budget \in [Faults -> Nat]

Init ==
    /\ table = None /\ script = None /\ marker = FALSE
    /\ cache \in Lists \cup {None}
    /\ split = FALSE
    /\ todo = <<>>
    /\ inv = [verb |-> "none", busy |-> FALSE, ips |-> None, ok |-> FALSE,
              fails |-> 0]
    /\ locked = FALSE /\ offed = FALSE /\ blind = FALSE
    /\ budget = Budget

Spend(k) == budget[k] > 0 /\ budget' = [budget EXCEPT ![k] = @ - 1]

-----------------------------------------------------------------------------
(* The verbs.                                                              *)

\* A verb starts to run the commands cs.
Start(verb, cs) ==
    /\ ~inv.busy
    /\ todo' = cs
    /\ inv' = [verb |-> verb, busy |-> TRUE, ips |-> cache, ok |-> TRUE,
               fails |-> 0]
    /\ UNCHANGED <<host, blind, budget>>

\* Mutant: the table before the script.
OnProgramTableFirst == <<"nft", "writeScript", "writeMarker">>

\* on: the script is on disk before the table is in the kernel.
OnProgram == <<"writeScript", "nft", "writeMarker">>

\* `lockdown on`: not in split mode, not without relays.
On ==
    /\ ~split /\ cache # None
    /\ Start("on", OnProgram)
    /\ UNCHANGED <<locked, offed>>

\* Mutant: as refresh does, off looks for the script first.
OffProgramIfScript ==
    IF script = None THEN <<>> ELSE <<"delTable", "rmScript", "rmMarker">>

\* off.
OffProgram == <<"delTable", "rmScript", "rmMarker">>

\* `lockdown off`.
Off ==
    /\ Start("off", OffProgram)
    /\ locked' = FALSE
    /\ offed' = TRUE

\* Mutant: the old table goes before the new one comes.
RefreshProgramDelFirst ==
    IF script = None
      THEN <<>>
      ELSE <<"writeScript", "list", "delTable", "nft", "writeMarker">>

\* refresh: nothing without a script, no table where there was none.
RefreshProgram ==
    IF script = None
      THEN <<>>
      ELSE <<"writeScript", "list", "nft", "writeMarker">>

\* `lockdown refresh`.
Refresh ==
    /\ cache # None
    /\ Start("refresh", RefreshProgram)
    /\ UNCHANGED <<locked, offed>>

\* Mutant: refresh asks the marker.
PresentByMarker == marker

\* tablePresent.
Present == table # None

\* The next command succeeds.  `nft -f` replaces the table in one
\* transaction; writeScript renames a finished file.
Exec ==
    /\ todo # <<>>
    /\ LET c == Head(todo) IN
       /\ todo' = IF c = "list" /\ ~Present THEN <<>> ELSE Tail(todo)
       /\ script' = CASE c = "writeScript" -> inv.ips
                      [] c = "rmScript"    -> None
                      [] OTHER             -> script
       /\ table' = CASE c = "nft"      -> inv.ips
                     [] c = "delTable" -> None
                     [] OTHER          -> table
       /\ marker' = (c = "writeMarker" \/ (marker /\ c # "rmMarker"))
    /\ UNCHANGED <<cache, split, inv, locked, offed, blind, budget>>

\* The next command fails.  Marker failures are only logged; a table that
\* nft cannot list counts as absent; off goes on, but keeps the marker of a
\* table it could not delete; any other failure ends the verb.
CommandFails ==
    /\ todo # <<>>
    /\ Spend("fail")
    /\ LET c == Head(todo) IN
       /\ todo' = CASE c \in {"writeMarker", "rmMarker"} -> Tail(todo)
                    [] c = "delTable" /\ inv.verb = "off" -> <<"rmScript">>
                    [] c = "rmScript" -> Tail(todo)
                    [] OTHER -> <<>>
       /\ inv' = [inv EXCEPT
                    !.fails = @ + 1,
                    !.ok = @ /\ c \in {"writeMarker", "rmMarker", "list"}]
    /\ UNCHANGED <<host, locked, offed, blind>>

\* The verb returns.
Return ==
    /\ inv.busy /\ todo = <<>>
    /\ inv' = [inv EXCEPT !.busy = FALSE]
    /\ locked' = (locked \/ (inv.verb = "on" /\ inv.ok))
    /\ offed' = (offed /\ ~(inv.verb = "on" /\ inv.ok))
    /\ UNCHANGED <<host, todo, blind, budget>>

-----------------------------------------------------------------------------
(* Other verbs, kills and boots.                                           *)

\* relays --refresh, connect and the GUI save another relay list, which may
\* have no usable relay.
SaveRelays ==
    /\ cache' \in Lists \cup {None}
    /\ UNCHANGED <<table, script, marker, split, todo, inv, locked, offed,
                   blind, budget>>

\* Mutant: only the marker is looked at.
ActiveByMarker == marker

\* active, for root: the marker, or the kernel.
Active == marker \/ Present

\* connect --split, which holds the lock and gives up under lockdown.
ConnectSplit ==
    /\ ~inv.busy /\ ~split
    /\ \/ ~Active /\ blind' = FALSE /\ UNCHANGED budget
       \/ ~marker /\ Spend("fail") /\ blind' = TRUE   \* nft list fails
    /\ split' = TRUE
    /\ UNCHANGED <<table, script, marker, cache, todo, inv, locked, offed>>

\* disconnect, or a full connect, ends split mode.
Disconnect ==
    /\ ~inv.busy /\ split
    /\ split' = FALSE
    /\ UNCHANGED <<table, script, marker, cache, todo, inv, locked, offed,
                   blind, budget>>

\* The process is killed between two commands.
Crash ==
    /\ inv.busy
    /\ Spend("crash")
    /\ todo' = <<>>
    /\ inv' = [inv EXCEPT !.verb = "none", !.busy = FALSE]
    /\ UNCHANGED <<host, locked, offed, blind>>

\* The kernel and /run start empty; the boot unit loads the script.
Boot ==
    /\ Spend("boot")
    /\ table' = script
    /\ marker' = FALSE
    /\ split' = FALSE
    /\ todo' = <<>>
    /\ inv' = [inv EXCEPT !.verb = "none", !.busy = FALSE]
    /\ UNCHANGED <<script, cache, locked, offed, blind>>

Next == On \/ Off \/ Refresh \/ Exec \/ CommandFails \/ Return
        \/ SaveRelays \/ ConnectSplit \/ Disconnect \/ Crash \/ Boot

Spec == Init /\ [][Next]_vars
-----------------------------------------------------------------------------
(* Properties.                                                             *)

\* From a successful `lockdown on` until an `off` begins, the table stands
\* and the next boot will have it: through refreshes that fail or are
\* killed at any point, failed further `on`s and boots (README, Lockdown).
LockdownHolds == locked => table # None /\ script # None

\* A table is never in the kernel without the script that a boot needs,
\* unless an `off` was begun: whatever drops traffic now does so after the
\* next boot, even when the `on` that installed it was killed.
TablePersists == table # None /\ ~offed => script # None

\* Split mode and lockdown are never on together, except that connect
\* --split could not ask nft: in particular not after a boot, which brings
\* the table back without its marker.
SplitExcluded == split /\ table # None => blind

\* An `off` in which no command fails removes table, script and marker,
\* whatever kills, failed `off`s and boots came before (README, Files).
OffCleans ==
    (inv.verb = "off" /\ ~inv.busy /\ inv.fails = 0)
        => table = None /\ script = None /\ ~marker

\* A refresh in which no command fails leaves table and script with the list
\* it read, after a boot too.
RefreshTakes ==
    (inv.verb = "refresh" /\ ~inv.busy /\ inv.fails = 0 /\ locked)
        => table = inv.ips /\ script = inv.ips
=============================================================================
