# Formal model of mvad

mvad is a Mullvad VPN client without a daemon: every verb (`connect`,
`disconnect`, `reconnect`, `up`, `split ...`, `lockdown ...`) is a process
that runs a list of `ip`, `nft` and `resolvectl` commands and file operations
and exits. All state outlives it in the kernel, in `/run/mvad`, in
`/etc/resolv.conf` and in the configuration. What makes this hard is that any
of those commands may fail, that the process may be killed between two of
them, and that the next invocation has to make sense of what it finds.

The modules here describe the Linux code. Line numbers are in `PROJECT.json`
under `map`.

## Inventory

| Component | State | Operations | What makes it correct |
|---|---|---|---|
| `doConnect`, `doDisconnect`, `doTeardown` (cmd/mvad/main.go) | none of its own: calls the packages below, saves `LastEndpoint`, `LastSplit` | connect, connect --split, disconnect, reconnect | a failure or a kill leaves nothing a later disconnect cannot remove; a session in place protects until it is given up |
| internal/wg | link `mvad-wg0` | up, down | a half-built link is removed |
| internal/route | two default routes, the relay's host route, the multicast route | set, unset, pin, unpin, setLAN, unsetLAN | the pinned relay is the one the configuration remembers |
| internal/dns | resolv.conf and its backup, or resolved's per-link settings | set, restore | the administrator's file is never lost |
| internal/firewall | table `inet mvad` | up, down, installed | stands as long as the session, with or without a link |
| internal/split (routing) | state file, rules 97-99, table 60, tables `mvad-split`, `src_valid_mark` | up (with rollback), down | packets of the split set are tunnelled or dropped, from connect --split until it is given up |
| internal/split and cmd/mvad/split.go (set) | entries in the configuration, live nft set, cgroup | add, rm, refresh, clear, run | live set = resolved entries; a failed resolution changes nothing |
| internal/lock | flock on /run/mvad/lock, depth per process | AcquireRoot, AcquireRootBlock, release | one process at a time; nested calls release in any order |
| `up` (cmd/mvad/up.go, watch_linux.go) | event channel, own interface index, retry timers | connect loop, netlink reader | the tunnel follows the default route, a failed redial is retried, a signal ends it |
| relay choice, `reconnect --if-dead`, `check` | relay cache, Last* fields, last handshake, probe | failover | a live or deliberately closed tunnel is left alone; a dead one moves to relays that work, within the query |
| internal/lockdown | table, boot script, marker | on, off, refresh, active | script, table and marker agree across failures and boots |
| internal/config | config.json | Load, Save | no update is lost, the file is never torn |
| internal/mullvad, account verbs | token, device and key on disk, devices at the API | signup, login, logout, devices, rotate-key, status and relays --refresh | the key on disk is registered; a verb that fails leaves no device behind |
| internal/udp2tcp, ss-local | shim process and pid file | start, stop, copy loops | datagram boundaries survive; one shim |
| cmd/mvad-gui, loop | state struct, running verb, queues, channels of the goroutines | buttons, tray commands, loaders, results | one verb at a time; nothing stays disabled; queues are worked off |
| cmd/mvad-gui, trays | icon, menu, popup, command channel | polls, Show, Hide, Quit | what is shown converges to the host; an accepted Show opens |
| macOS variants (pf, route, dns, wg) | pf anchors, userspace WireGuard | same | same |

Interaction: the verbs call the packages in sequence under the transition lock
of internal/lock; they share the kernel state, so one verb's leftovers are the
next one's input. `up` takes the lock per rebuild and shares the host with a
failover timer's `reconnect`. The packages do not call each other. The
configuration is shared by everybody: connect writes it under the lock, the
account verbs, the refreshes and the GUI without. The GUI runs verbs as child
processes and learns about the host by polling.

## Modules

`Host` - what mvad changes on a host (variables `link`, `route`, `dns`, `fw`,
`shim`, `split`, `cfg`) and what each command does to it: one action per
package (`WgCmd`, `RouteCmd`, `DnsCmd`, `FirewallCmd`, `ShimCmd`, `SplitCmd`,
`ConfigCmd`). `Refused` are the commands that cannot succeed in a state. The
last part (`Routed`, `Guarded`, `Egress`) computes where the kernel sends a
packet of the split set from the rules, table 60, the main table and the nft
guard chains; the lookups are the kernel's, not mvad's.

`Session` - the verbs as programs over those commands. The functions of the
packages are command sequences with the names of the functions (`WgUp`,
`RouteSet`, `DnsSet`, `SplitUp`, `SplitDown`, `Teardown`...). An invocation
goes through phases; `Exec` runs the next command, `CommandFails` lets it fail
and starts the undo that the code has at that point (`Undo`, `Rollback`),
`Advance` goes on to the next phase. `Crash` kills the process between two
commands, `LinkLost` removes the link, `Reboot` empties `/run` and the kernel.
`sess` is history: which mode of session the user believes is in place. The
queries of a full connect (`NeedsDisconnect`) may fail and then count as "no".

`RootLock` - package lock, with the mutex, flock(2), depth, file and sync.Once
of its source, nested and concurrent calls, and dying processes. `Mutex` is the
abstract specification it implements.

`UpWatch` - the loop of `mvad up`, the netlink reader, retry timers, signals,
and a failover by another process. A whole doConnect is one step here; that it
may be is what `RootLock` shows (`MutualExclusion`), but the two halves of a
rebuild are steps of their own, and its teardown may fail and leave the link.
`blind` is history: the last route change came inside `Window`, or a rebuild
since then left the old link (`Kept`).

`Lockdown` - package lockdown: the nft table, the boot script and the marker,
`on`, `off` and `refresh` command by command, with failures, kills and boots.
An allow-list is one value. `Boot` loads the script, as the boot units in
examples/ do; a host without such a unit has no lockdown after a boot. It
shares no state with `Session` but split mode, of which it keeps one bit.
`locked`, `offed` and `blind` are history.

`SplitSet` - which addresses are in the split set: entries in the
configuration, their resolution through docker and kubectl (`DockerNets`,
`K8sNets`, `Coalesce`), the live nft set, `clear`, the cgroup. Invocations
interleave between the resolutions of two entries while containers restart and
pods finish. `connect` appears with what it does to the set (`Kept`: merge with
the live set after a failed resolution); its commands are `Session`'s. A verb
without the transition lock is `LoadCopy` and, any time later, `SaveCopy`: it
writes back the entries it loaded. A prefix is the set of addresses it covers.
`sync` is history: what the last verb that touched the set promises about it.

`Account` - the account verbs and the two refreshes, each a sequence of API
calls and one Load and Save of the whole configuration, of several processes
at once; the API with its devices and tokens is external. Requests and answers
get lost, the API refuses tokens for a while (authedJSON's retry), saves fail,
processes are killed. `excused`, `clobber`, `raced` and `out` are history: what
the code cannot help (of a killed verb the devices in `Pending`; a device
`Reimported` while it is about to be revoked), that one save undid another, an
overlap of rotate-key or logout with connect or of importing and removing one
device, that the last word was a logout.

`Failover` - how a relay is picked and how the timer's `reconnect --if-dead`
decides (`TunnelDead`, `Replay`, `PickExcept`, `Identical`), beside the user's
verbs; relays die, recover, retire and change keys, and the cached list is
refreshed only when the API can be reached. A dial is one step that takes or is
rolled back, which is what `RollbackClean` of `Session` says of it; a teardown
that fails may leave any part (`PartlyGone`), and queries may fail. `asked` is
history: what the user's last connect saved, and no reconnect changes it; so are
`down` (a disconnect is through), `putBack` (that connect failed and its mode
was put back), `missed` (the link is one that a full connect did not see) and
`excused`.

`Gui` - mvad-gui's event loop with and without a window, its goroutines and
their channels, the queues of the split view. `Display` - what the window and
the three kinds of tray (StatusNotifierItem, XEmbed, macOS menu bar) show of
the host through channels that drop. They split the program by concern: `Gui`
has all verbs and leaves what polls report open, `Display` has the polls and of
the verbs only lockdown, with the table and its marker: the GUI is unprivileged
and learns the marker only (`Active`). `orphaned` of `Gui` is history: the
result of a removal from the split set was taken without a window.

`MCSession`, `MCRootLock`, `MCLockdown`, `MCSplitSet`, `MCAccount` and
`MCFailover` give instances; `UpWatch`, `Gui` and `Display` are checked as they
are. `SessionProofs`, `RootLockProofs`, `LockdownProofs`, `SplitSetProofs`,
`AccountProofs`, `FailoverProofs`, `GuiProofs` and `DisplayProofs` hold the
theorems, each about the module it is named after.

How they fit: `Host` is under `Session`. `RootLock` justifies that one
invocation at a time runs in `Session` and `Failover`, and that a rebuild is not
interrupted by one in `UpWatch` and is one holder of `lock` in `SplitSet`.
`Session` justifies the dial that takes or leaves nothing. The verbs without the
lock meet in `Account`.

Definitions commented "Mutant" are plausible mistakes in the definition that
follows; substituting one must break the property `PROJECT.json` names for it.

## Runs

| Run | Instance | Checks |
|---|---|---|
| session | both modes on one relay, a full session with shim and LAN access on another; two kills, one failing command, one lost link, one reboot; resolv.conf a file, IPv6 | `TypeOK`, `FailClosed`, `RouteFailClosed`, `KillSwitch`, `RollbackClean`, `DisconnectRestores`, `Traceable`, `SplitConnectRecovers` |
| lock | two processes, two callers each, four calls | `MutualExclusion`, `IsMutex`, `AcquireReturns` |
| up | two route changes anywhere, two failed redials, a failover, a signal; a channel of two, a socket of one | `FollowsRoute`, `RedialRetried`, `StopsOnSignal` |
| lockdown | two allow-lists; two failures, two kills, two boots | `LockdownHolds`, `TablePersists`, `SplitExcluded`, `OffCleans`, `RefreshTakes` |
| splitset | two processes; a compose project and one of its services, a namespace, a prefix over two of three addresses; one container move, one fault or one save without the lock | `TypeOK` (with disjoint elements and an untagged shim), `SyncExact`, `NoStaleBypass`, `ClearStays`, `KeepsRunning` |
| account | two processes, four verbs, one account with room for two devices; one fault, one spell of refused tokens | `KeyUsable`, `NoOrphan`, `SessionKey`, `VerbReturns` |
| failover | six relays, four (one without a multihop port) and two of which match a prefix; sessions by hostname, with a shim, with two hops; two verbs of the user, one change of a relay, one fault | `StaysDown`, `InScope`, `LeavesDead`, `LeftAlone`, `FailsOver` |
| gui | every kind of button and tray command, three uses in a behaviour | `TypeOK` (with: never without window and icon), `SingleFlight`, `BusyHasWork`, `WindowServes` |
| display | four trays, a command channel of two; three clicks, changes or failures | `SwitchWaits`, `ShowOpens`, `DisplayConverges` |

What they show. `session`: whatever the fault, packets of the split set are
tunnelled or dropped until the session is given up, and the kill-switch of a
full session stands and matches its relay, until a connect or disconnect takes
it down or a connect that could not look builds over it; a failed connect undoes
itself; and as long as commands do not fail, what killed invocations leave is
found and removed. `lock`: the package is a mutex between processes and nobody
waits for ever. `up`: the tunnel follows the network except after a change in
the window that the run delimits, or a rebuild that left the old link.
`lockdown`: its three pieces agree at every boot. `splitset`: the live set is
what the entries mean, also when resolution fails in the middle or another verb
runs beside it. `account`: no order of failures loses the registered key or a
place of the account. `failover`: the timer does not fight the user and does
bring a dead session back. `gui` and `display`: no interleaving of results,
clicks and hidden windows wedges the program or makes it lie for good, with two
exceptions: a row of the split view whose removal was over without a window, and
the lockdown switch while marker and table differ.

Bounds. In `Session` and `Lockdown` the number of verbs in a behaviour is not
bounded; only faults are, by `Budget`. Two kills are enough for a kill of the
verb that cleans up after a kill; a failing command is one because every undo
list of the code assumes that the undo works. Two relays make "the wrong
relay" possible. `v_shim` runs on the other kind of host (resolved, no IPv6).
In `UpWatch` a channel of two and a socket buffer of one message fill up and
overflow within two route changes and a rebuild, as the real ones (16 events)
do in a longer burst; interface indices are reused once nothing refers to them.
In `RootLock` two callers per process give nesting, concurrency and both orders
of release. In `SplitSet` verbs are unbounded, three addresses let one be
reused and one lie outside the prefix; one copy in hand is enough for a clear or
an edit that is undone; processes are symmetric. In `Account`
four verbs are a login, a rotation, a refresh that overlaps it and one more. In
`Failover` the timer fires without bound; three relays of one prefix let a
redial leave a dead relay for another dead one, and a fourth without a multihop
port may be drawn in vain. In `Gui` and `Display` results,
polls and frames are unbounded; three uses are a verb, something beside it and
a closed window. Channel capacities are the code's (1) except for trayCmds (8).

Deadlock checking is off for `lock`, `up`, `account`, `gui`, `display` and the
violations of `UpWatch` and `Account`: calls and environment are bounded there
and the programs end. `Session`, `Lockdown`, `SplitSet` and `Failover` never
stop.

Fairness. `RootLock`: a runnable goroutine runs, a free flock goes to a
waiter, a verb calls its deferred release; nobody has to call and nothing has
to fail. `UpWatch`: loop, reader, timers and the failover's redial are weakly
fair; taking a signal is strongly fair, because Go's select chooses among
ready cases at random and cannot pass over one for ever. `Account`: an
invocation goes on, because every HTTP call has a deadline of 60 s. `Failover`:
the timer fires, an invocation goes on, handshakes age, and every relay that can
be picked again and again is picked some time, because the code draws uniformly
at random. `Gui` and `Display`: every ready channel is taken (Go's select), the
window is drawn and the poller ticks once a second, verbs and loads end. Clicks,
faults, containers, relays and terminals - the environment - are not fair.

### Where the code does not do what it says

Each of these runs checks one property and TLC shows a behaviour against it;
`PROJECT.json` quotes the text the code disagrees with.

- `v_shim`: a redial of a split session whose transport shim does not start
  strips the split routing instead of leaving it fail-closed.
- `v_route`: `up` dials before it subscribes to route messages; a change between
  the two reaches nobody, and nothing else makes `up` look. `FollowsRoute` of the
  passing run leaves it out with two more windows of the same kind (`Window`):
  between a redial and the end of the drain of `refresh`, which drops genuine
  events with its own, and while a tunnel that another invocation built has not
  been adopted.
- `v_logout`: a refresh that loaded the configuration before a logout saves it
  afterwards, and the credentials are back.

More that the models show and the properties therefore except by name:

- `split.down` removes the state file although deleting a rule, route or table
  failed (split_linux.go:116); no later disconnect finds the rest, although
  README.md:199 says it "removes all of it". `DisconnectRestores` and
  `Traceable` assume that no command failed.
- A disconnect killed between the removal of the state file and the write of
  the sysctl loses the recorded `src_valid_mark` (README.md:201-202 says it is
  "put back as found"). `DisconnectRestores` asks for it when nothing was
  killed.
- After a full session with an IPv6 gateway, `connect --split` of an IPv4-only
  device leaves that gateway as table 60's IPv6 default (split_linux.go:495).
  The guard chain still drops the packets, so `FailClosed` holds;
  `RouteFailClosed` leaves such a host out.
- A link that is lost under a connect which is then killed leaves a host route
  and perhaps mvad's resolv.conf with neither link nor kill-switch to show for
  it; the next full connect builds on that and overwrites what it would need to
  undo it. `Traceable` and `DisconnectRestores` leave the combination out.
- A split session over a transport shim that loses its link leaves the shim
  running, with neither link nor kill-switch to show for it: a full connect
  builds beside it (main.go:952) and only the next teardown stops it.
  `Traceable` excepts the shim of a split session.
- The backup of resolv.conf is on tmpfs and does not survive a reboot.
- `tablePresent` takes a failing `nft list` for an absent table (`SplitExcluded`,
  `RefreshTakes`), `liveNets` for an empty set (`KeepsRunning`).
- A full connect ignores the error of `status.Read` (main.go:952), and
  `firewall.Installed` takes a failing `nft list` for no table: with both
  failing it builds over a standing session and saves its own relay, while the
  old kill-switch and host route stay. `KillSwitch` holds until such a connect;
  in `Failover` the link that stays is `missed`.
- Verbs without the transition lock save a whole configuration loaded earlier
  (config.go:220): split entries that were removed or cleared come back. The
  claims of `SyncExact` and `ClearStays` end at such a save (`SaveCopy`), and
  `KeepsRunning` leaves out a container whose entry it brought back while a verb
  with the lock was under way. `LastEndpoint`, `LastSplit` and the other Last*
  fields can come back the same way; `Session` and `Failover` leave it out.
- An import of a device that another process has just replaced by rotate-key and
  is about to revoke leaves the revoked key on disk (`Reimported` in
  `KeyUsable`).
- A `connect --split` that fails leaves its query and puts the mode back
  (main.go:830-842): a reconnect by hand then dials that query in full mode.
  `InScope` still asks for the query and the hops, not for the mode (`putBack`).
- A rebuild of `up` that could not get the lock, or whose teardown and dial both
  failed before the link was gone, is taken for a rebuild that worked, because
  `refresh` only looks for a link (`Kept` in `FollowsRoute`).
- The loop without a window takes the result of `split rm` and leaves
  splitRemoving (main.go:532-539 of mvad-gui): when the window is back, that row
  stays disabled (main.go:3649) until another split verb ends (`orphaned` in
  `BusyHasWork` and `WindowServes`).
- After a boot under lockdown the table is there without its marker and the
  switch of the unprivileged GUI shows off, as lockdown_linux.go:67-69 concedes
  (`Unmarked` in `DisplayConverges`).
- rotate-key and logout look at the session without the lock: a connect that
  overlaps one may dial with a key that is then revoked (`SessionKey`, `raced`).
- A full session by hostname whose relay gets a new key is left alone for ever:
  the list cannot be fetched through the dead tunnel and its kill-switch, and the
  redial is identical to the session in the cache. README.md:134-136 says it is
  left alone "unless the relay or its key changed". (`Known` in `FailsOver`.)
- With exactly two relays for each of two hops, both hops rotate and only two of
  the four pairs are ever tried; the only relay of a prefix with a multihop port
  is never tried twice, because another one is always drawn (`Explores`); and a
  timer's redial that fails after its teardown looks like a deliberate
  disconnect, so the timer does not try again (`excused`).

## Proofs

TLAPS checks all of them, for every value of the constants that satisfies the
module's assumption (`HostAssumption` and `SessionAssumption` for `Session`).
The assumptions say what the sets of names are made of - options that
parseConnectOpts accepts, prefixes that nest or are disjoint, a hostname that
means one relay, `None` outside everything - and that bounds are numbers; the
bounds themselves play no part. What each theorem rests on:

- `SessionProofs!TypeCorrect`: `Spec => []TypeOK`, one lemma per package
  action and per step of an invocation.
- `SessionProofs!SplitFailClosed`: `Spec => []FailClosed` when no option
  combines split mode and a transport shim (`v_shim` shows why). `FailClosed`
  is not inductive: it says where packets go now, and a redial runs through
  many commands. `Holds` are the commands of `split.up` that hold the set - the
  state file, the rulesets, and per family the rules to table 60, its
  unreachable default and the route that replaces a gateway - and `Made(x)` says
  that the effect of one is there. The inductive invariant `HeldInv` says that
  all are made while a split session is in place, that every command left to
  run is one that cannot unmake any, and that in `split.up` each is made or
  still to come. The point where this is decided is the rollback of `split.up`:
  `prevSplit` must be what the state file says, which is why the file is part
  of the invariant.
- `SessionProofs!SplitRoutesFailClosed`: `Spec => []RouteFailClosed` from the
  same invariant, under the same condition, and from `NoGw6`: without an IPv6
  gateway table 60 never gets one.
- `SessionProofs!KillSwitchStands`: `Spec => []KillSwitch` for every set of
  options. `sess` ends a full session where a teardown begins or where a connect
  with failing queries starts to build. In `GuardInv` a full session stands only
  between invocations, and
  while one is built the saved endpoint, the host route and the kill-switch are
  there from their phase on: the commands left in a phase are its package's
  (`PhaseCmds`), and none of a later package's, nor of the rollback of a full
  session's `split.Up`, touches them.
- `SessionProofs!RollbackIsClean`, `DisconnectIsComplete`, `NothingUntraceable`,
  `SplitConnectSucceeds`: `RollbackClean`, `DisconnectRestores`, `Traceable` and
  `SplitConnectRecovers` of every behaviour of `Spec`, for any relays, options
  and number of faults, from one inductive invariant (`PromiseInv`). The four
  are about the end of an invocation, what they promise is decided command by
  command, and each needs the others: a teardown removes what the attempt
  before it built, and an attempt may build because of what the last teardown
  or undo removed. The parts of the invariant:
  - `ShapeInv`: which commands are left in which phase and in which order - the
    link goes last, the state file after everything it announces
    (`Before`) - and that the relay a teardown or undo unpins is the one that is
    saved. `ModeInv`: what `saved` and `prevMode` of doConnect's deferred
    function say of the mode on disk.
  - `FiledInv`: what the split package put on the host has a state file or is
    all about to be removed; `SvmInv`: the file keeps the sysctl as mvad first
    found it.
  - `RoutesInv`, `ResolvInv`, `TeardownInv`, `CleanInv`: what may be on the host
    in each phase, and that a teardown or an undo still has a command for each
    thing that is there. A phase that has run out of commands has therefore left
    nothing (`NothingLeft`).
  - `LinkInv`, `IdleInv`: what the absence of a link, or of a kill-switch, says
    about everything else: this is why a full connect that sees neither may
    build at once. The first needs that no link was lost, the second that no
    invocation was killed, hence the premise of `Traceable` (`Benign`).
  - `RecoverInv`: `connect --split` finds the link absent after its own teardown,
    so none of its commands is refused.

  `Rolling` marks an attempt that began on a clean host and has met at most the
  failure whose undo runs; for it these parts hold after any history, failed
  commands included, which is what `RollbackClean` claims. `NextCases` restates
  the steps of `Spec` by what they do to an invocation, and `SteppedEffect`,
  `SplitEffect`, `RemovingEffect` and `UndoParts` say once what a command does in
  the phase that runs it and what each undo contains; the preservation proofs
  cite them, with one step per action.
- `RootLockProofs!LockSafe`: `Spec => [](TypeOK /\ MutualExclusion /\
  ReleaseHasFile)` from `LockInv`: depth is the number of open acquisitions,
  flock and file are held exactly while it is not 0, and it is 0 while a caller
  waits in flock(2). Without the count, an early release cannot be told from the
  last.
- `RootLockProofs!LockIsMutex`: `Spec => IsMutex`, the refinement of `Mutex`,
  from the same invariant.
- `LockdownProofs!LockdownSafe`, `BootKeepsTable`, `SplitStaysOut`,
  `OffLeavesNothing`, `RefreshReaches`: the type invariant and all properties of
  the `lockdown` run, for any number of faults. None is inductive: each is about
  the end of a verb. `LockdownInv` says for every point of `on`, `off` and
  `refresh` - the commands that are left - what table, script and marker are by
  then, and what a failure before that point has left in `ok` and `fails`.

- `SplitSetProofs!SplitTyped`, `SyncIsExact`, `NothingStaleBypasses`,
  `ClearIsKept`, `RunningStayProtected`: the type invariant, the invariants and
  the action property of the `splitset` run for any number of processes,
  entries and containers. `SplitSetInv` adds to them, per invocation, what its
  locals still say at each point between loading the entries and replacing the
  sets, who holds the lock by then, and that while a clear stands no verb under
  way has an entry left to write. `CoalesceCovers` (what coalesce returns
  is disjoint and covers the same addresses) is the lemma about the operator
  behind the disjoint elements.
- `AccountProofs!KeyStaysUsable`, `NothingLeftBehind`, `SessionKeyStays`: the
  invariants and the action property of the `account` run for any number of
  processes, accounts and verbs. They are about what is left when a verb is
  through; `AccountInv` says for every stage of every verb (`Shape`) which
  device it holds, that device numbers are fresh, that a device on the account
  is on disk, held by a verb that still has to deal with it, or excused, and that
  a device about to be revoked by rotate-key is not on disk unless excused; and,
  as long as nothing raced, that no verb that has looked at the session is
  beside one that changes it.
- `FailoverProofs!TimerStaysDown`, `RedialsStayInScope`, `TimerLeavesDead`,
  `TimerLeavesAlone`: all but the liveness of the `failover` run. `FailoverInv`
  says that what is saved has the query and the hops the user asked for, and the
  mode unless it was put back (`HostInv`; a reconnect by hand is measured
  against the same `asked`), and what an invocation knows at each of its stages:
  that the relays it avoids are those of the link, and that what it picked fits
  (`DialInv`).
- `GuiProofs!GuiTyped`, `OneVerb`, `DisabledIsBusy`: the invariants of the `gui`
  run, which together are inductive (`GuiInv`); of a row being removed they say
  that its verb runs, or that it ended without a window. Every handler is shown
  to keep them, on a pair of state and goroutines, before the actions that call
  several handlers are.
- `DisplayProofs!SwitchHolds`: `SwitchWaits` with the capacities of the
  channels, which are inductive together.

What the proofs changed in the models. `SessionKey` held on the instance of its
run and not beyond it: with five verbs, a session runs with an imported device
that a login has since replaced on disk, `devices remove` of that device finds
it unused, and an import beside it puts it back on disk before it is revoked.
The code checks before it calls the API and without the lock, so this is one
more overlap of the kind `raced` already names, and `Overlap` in `Account`
counts it now. `Traceable` of `Session`, too, held on its run only: with an
option that the run does not have, a split session over a shim, a lost link
leaves a shim that no link and no kill-switch announces, which is what the code
does; the invariant now excepts it. In `SplitSet` and `Display` a CASE had
guards that could hold together, and TLA+ leaves open which arm is meant; they
are IF chains in the order of the code. The assumptions of `SplitSet`,
`Failover` and `Gui` now say what their instances had taken for granted.

Only model-checked: everything under fairness (`AcquireReturns`,
`FollowsRoute`, `RedialRetried`, `StopsOnSignal`, `VerbReturns`, `FailsOver`,
`WindowServes`, `ShowOpens`, `DisplayConverges`: TLAPS does not prove fairness
arguments here). The safety properties of all passing runs are proved. The
parts of `PromiseInv` were checked with TLC, on three instances of `Session`
with four options and up to two faults of a kind, before they were proved. The
type invariant of `UpWatch` documents its state; no run lists it.

## Not modelled, and simplified

- Each command succeeds or changes nothing. `resolvectl`'s three calls, the
  four that set up a link, and starting a shim with writing its pid file are
  one command each.
- The host's own default route has a metric, so `ip route replace default`
  does not overwrite it.
- `reconnect` by hand is in `Failover`; in `Session` it is a connect with
  remembered options.
- Only one `up` runs (acquireUpLock), and its waits for the transition lock
  end with the lock.
- GUI: drawing, layout, fonts, input fields and their text; the saving of
  settings (the same lost update as `v_logout`, with the window as the writer:
  the loop without a window keeps a configuration from before the verb); the
  hand-over between two instances over the socket (two that start at once may
  remove each other's, instance.go:59).
- API: bridges, the JSON of requests and answers, time left on the account.
- Configuration: the owner of the file under sudo and refused symlinks.
- udp2tcp's framing and its two copy loops; the pid file of a shim, which is
  written after the process runs.
- macOS: `pf`, userspace WireGuard, routes and DNS; the menu-bar tray is in
  `Display`.
- Notifications are output without state; docker, kubectl, HTTP, D-Bus and X11
  are I/O.

## Plan

1. `Shim`: start, pid file and stop as separate steps; udp2tcp's framing.
2. The instance hand-over of the GUI.
3. macOS: `pf` reference counting, userspace WireGuard, route watcher.
