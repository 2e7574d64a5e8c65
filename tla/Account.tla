------------------------------- MODULE Account -------------------------------
(***************************************************************************)
(* The account verbs (signup, login, logout, devices, rotate-key), the two *)
(* refreshes (`status --refresh`, `relays --refresh`), the configuration   *)
(* file they share with connect, and the Mullvad API behind them.          *)
(*                                                                         *)
(* Every verb loads the whole configuration, talks to the API and saves    *)
(* the whole configuration.  Only connect holds the transition lock while  *)
(* it does so; verbs of several processes interleave between any two       *)
(* steps.  A request or its answer may get lost, the API may refuse access *)
(* tokens, a save may fail, a process may be killed.  A device is its key, *)
(* its id and its addresses at once.  Save is one step because writeFile   *)
(* renames a temporary file over the old one.                              *)
(***************************************************************************)
EXTENDS Naturals, FiniteSets

CONSTANTS
    Procs,
    Accounts,  \* account numbers
    Cap,       \* devices an account may have, 5 at Mullvad
    MaxDev,    \* bound: devices ever registered
    None,
    Budget     \* bound: invocations; lost requests and answers, failing saves and
               \* kills together; times the API refuses tokens

Dev == 0..MaxDev

Foreign == 0   \* a device of another machine

ASSUME AccountAssumption ==
    /\ Cap \in Nat \ {0} /\ MaxDev \in Nat
    /\ None \notin Procs /\ None \notin Accounts /\ None \notin Dev
    /\ Budget \in [{"verb", "fault", "refuse"} -> Nat]

VARIABLES
    disk,     \* the configuration file
    server,   \* registered devices of each account
    open,     \* accounts that exist
    next,     \* the next device to be registered
    refuse,   \* the API answers 401
    tun,      \* the device of the running session, or None
    inv,      \* the invocations
    excused,  \* history: devices left behind by what no verb can mend
    clobber,  \* history: a save has undone another process's
    raced,    \* history: connect and a change of the device, or the import
              \* and the removal of one, overlapped
    out,      \* history: a logout has succeeded and no login since
    budget

vars == <<disk, server, open, next, refuse, tun, inv, excused, clobber,
          raced, out, budget>>

\* The credentials; of the other fields it only matters that a save writes
\* all of them.
Config == [token : Accounts \cup {None}, dev : Dev \cup {None}]

Verbs == {"signup", "login", "import", "logout", "remove", "rotate",
          "refresh", "relays", "connect", "none"}

\* cfg: the configuration in memory; acct: the token of the calls; old:
\* oldID; key: the device to import or to revoke; try: which send of
\* authedJSON.  History: stale, the file has changed since it was loaded.
Invocation == [pc : {"idle", "create", "expiry", "list", "cap", "register",
                     "save", "undo", "revoke", "revokeOld", "fetch", "up"},
               verb : Verbs, cfg : Config, stale : BOOLEAN,
               acct : Accounts \cup {None}, old : Dev \cup {None},
               key : Dev \cup {None}, try : {1, 2}]

Empty == [token |-> None, dev |-> None]

Idle == [pc |-> "idle", verb |-> "none", cfg |-> Empty, stale |-> FALSE,
         acct |-> None, old |-> None, key |-> None, try |-> 1]

TypeOK ==
    /\ disk \in Config
    /\ server \in [Accounts -> SUBSET Dev]
    /\ open \subseteq Accounts
    /\ next \in 1..(MaxDev + 1)
    /\ refuse \in BOOLEAN
    /\ tun \in Dev \cup {None}
    /\ inv \in [Procs -> Invocation]
    /\ excused \subseteq Dev
    /\ clobber \in BOOLEAN /\ raced \in BOOLEAN /\ out \in BOOLEAN
    /\ budget \in [{"verb", "fault", "refuse"} -> Nat]

\* An account that exists has a device of another machine.
Init ==
    /\ disk = Empty
    /\ open \in SUBSET Accounts
    /\ server = [a \in Accounts |-> IF a \in open THEN {Foreign} ELSE {}]
    /\ next = 1 /\ refuse = FALSE /\ tun = None
    /\ inv = [p \in Procs |-> Idle]
    /\ excused = {} /\ clobber = FALSE /\ raced = FALSE /\ out = FALSE
    /\ budget = Budget

Spend(k) == budget[k] > 0 /\ budget' = [budget EXCEPT ![k] = @ - 1]

\* The device that an invocation has registered and not saved yet, or has
\* replaced on disk and not revoked yet.
Pending(i) ==
    CASE i.verb \in {"login", "rotate"} /\ i.pc \in {"save", "undo"} -> {i.cfg.dev}
      [] i.pc = "revokeOld" -> {i.old}
      [] OTHER -> {}

history == <<excused, clobber, raced, out>>

Set(p, r) == inv' = [inv EXCEPT ![p] = r]

Goto(p, pc) == Set(p, [inv[p] EXCEPT !.pc = pc, !.try = 1])

Return(p) == Set(p, Idle)

-----------------------------------------------------------------------------
(* The verbs begin: config.Load and the checks.                            *)

\* Does a connect overlap with a verb that takes its key out of use, or the
\* import of a device with its removal?
Overlap(verb, key) ==
    \E q \in Procs :
        \/ /\ verb = "connect"
           /\ \/ inv[q].verb \in {"rotate", "logout"}
              \/ inv[q].verb = "remove" /\ inv[q].key = disk.dev
        \/ verb \in {"rotate", "logout"} /\ inv[q].verb = "connect"
        \/ {verb, inv[q].verb} = {"import", "remove"} /\ inv[q].key = key

\* The device of an import that begins between rotate-key's save and its
\* revocation of that very device: no check of the import sees it coming, and
\* the file may be left with the revoked key.
Reimported(verb, key) ==
    {d \in {key} : /\ verb = "import"
                   /\ \E q \in Procs : inv[q].pc = "revokeOld" /\ inv[q].old = d}

Begins(p, verb, acct, key, pc) ==
    /\ Set(p, [Idle EXCEPT !.verb = verb, !.pc = pc, !.cfg = disk,
                           !.acct = acct, !.old = disk.dev, !.key = key])
    /\ raced' = (raced \/ Overlap(verb, key))
    /\ excused' = excused \cup Reimported(verb, key)
    /\ Spend("verb")
    /\ UNCHANGED <<disk, server, open, next, refuse, tun, clobber, out>>

LoggedIn == disk.token # None /\ disk.dev # None

\* Mutant: the tunnel is not looked at.
MayChangeAnytime == LoggedIn

\* logout and rotate-key refuse while connected.
MayChange == LoggedIn /\ tun = None

Signup(p) ==
    /\ inv[p].pc = "idle" /\ disk.dev = None
    /\ Begins(p, "signup", None, None, "create")

\* login <token>, or with the token signup saved; --key imports a device of
\* another machine.
Login(p) ==
    /\ inv[p].pc = "idle"
    /\ \E a \in open \cup ({disk.token} \ {None}) :
          \/ Begins(p, "login", a, None, "expiry")
          \/ Begins(p, "import", a, Foreign, "expiry")

Logout(p) ==
    /\ inv[p].pc = "idle" /\ MayChange
    /\ Begins(p, "logout", disk.token, disk.dev, "revoke")

RotateKey(p) ==
    /\ inv[p].pc = "idle" /\ MayChange
    /\ Begins(p, "rotate", disk.token, None, "register")

\* devices remove: not the device this configuration has.
DevicesRemove(p) ==
    /\ inv[p].pc = "idle" /\ disk.token # None
    /\ \E d \in Dev : /\ d < next /\ d # disk.dev
                      /\ Begins(p, "remove", disk.token, d, "revoke")

\* status --refresh, and relays --refresh.
Refresh(p) ==
    /\ inv[p].pc = "idle"
    /\ \/ /\ disk.token # None
          /\ Begins(p, "refresh", disk.token, None, "expiry")
       \/ Begins(p, "relays", None, None, "fetch")

\* connect holds the transition lock: one at a time.
Connect(p) ==
    /\ inv[p].pc = "idle" /\ LoggedIn
    /\ \A q \in Procs : inv[q].verb # "connect"
    /\ Begins(p, "connect", None, None, "save")

-----------------------------------------------------------------------------
(* Calls.  ok is what an answered request does; lost, what a request does  *)
(* whose answer got lost.                                                  *)

\* Mutant: every 401 is another try.
AgainAlways(p, error) == Set(p, [inv[p] EXCEPT !.try = 2])

\* authedJSON: the first 401 drops the cached token and sends once more; the
\* second is the verb's error.
Again(p, error) ==
    IF inv[p].try = 1 THEN Set(p, [inv[p] EXCEPT !.try = 2]) ELSE error

\* A request without an answer: never sent, or carried out all the same.
Lost(p, effect, error) ==
    /\ Spend("fault")
    /\ \/ effect
       \/ UNCHANGED <<server, open, next, excused>>
    /\ error

world == <<server, open, next, excused>>

Authed(p, pc) == inv[p].pc = pc /\ ~refuse

Unauthorized(p, pc, error) ==
    /\ inv[p].pc = pc /\ refuse
    /\ Again(p, error)
    /\ UNCHANGED <<world, budget>>

Others == UNCHANGED <<disk, refuse, tun, clobber, raced, out>>

\* The bound on accounts looks like a refusal.
CreateAccount(p) ==
    /\ inv[p].pc = "create"
    /\ \/ open = Accounts /\ Return(p) /\ UNCHANGED <<world, budget>>
       \/ \E a \in Accounts \ open :
          \/ /\ open' = open \cup {a}
             /\ Set(p, [inv[p] EXCEPT !.pc = "save", !.cfg.token = a])
             /\ UNCHANGED <<server, next, excused, budget>>
          \/ Lost(p, /\ open' = open \cup {a}
                     /\ UNCHANGED <<server, next, excused>>, Return(p))
    /\ Others

AccountExpiry(p) ==
    /\ \/ /\ Authed(p, "expiry")
          /\ Goto(p, CASE inv[p].verb = "login"   -> "register"
                       [] inv[p].verb = "import"  -> "list"
                       [] inv[p].verb = "refresh" ->
                            IF inv[p].cfg.dev # None THEN "list" ELSE "save")
          /\ UNCHANGED <<world, budget>>
       \/ Unauthorized(p, "expiry", Return(p))
       \/ inv[p].pc = "expiry" /\ Lost(p, UNCHANGED world, Return(p))
    /\ Others

\* loginImport looks for the key's device; refreshAccount for its name; at
\* the cap the list is printed.
ListDevices(p) ==
    /\ \/ /\ Authed(p, "list") /\ inv[p].verb = "import"
          /\ IF inv[p].key \in server[inv[p].acct]
               THEN Set(p, [inv[p] EXCEPT !.pc = "save", !.try = 1,
                                          !.cfg.token = inv[p].acct,
                                          !.cfg.dev = inv[p].key])
               ELSE Return(p)
          /\ UNCHANGED <<world, budget>>
       \/ /\ Authed(p, "list") /\ inv[p].verb = "refresh"
          /\ Goto(p, "save") /\ UNCHANGED <<world, budget>>
       \/ /\ Authed(p, "cap")
          /\ Return(p) /\ UNCHANGED <<world, budget>>
       \/ \E pc \in {"list", "cap"} :
            \/ Unauthorized(p, pc, Return(p))
            \/ inv[p].pc = pc /\ Lost(p, UNCHANGED world, Return(p))
    /\ Others

Registered(p) ==
    /\ server' = [server EXCEPT ![inv[p].acct] = @ \cup {next}]
    /\ next' = next + 1
    /\ UNCHANGED open

Full(a) == Cardinality(server[a]) >= Cap

\* Mutant: rotate-key revokes the old device first.
AfterRegisterRevokes(p) ==
    IF inv[p].verb = "rotate" THEN "revokeOld" ELSE "save"

AfterRegister(p) == "save"

\* RegisterDevice of login and rotate-key; MAX_DEVICES_REACHED.
RegisterDevice(p) ==
    /\ \/ /\ Authed(p, "register") /\ next <= MaxDev
          /\ ~Full(inv[p].acct)
          /\ Registered(p)
          /\ Set(p, [inv[p] EXCEPT !.pc = AfterRegister(p), !.try = 1,
                                   !.cfg.token = inv[p].acct,
                                   !.cfg.dev = next])
          /\ UNCHANGED <<excused, budget>>
       \/ /\ Authed(p, "register")
          /\ Full(inv[p].acct) \/ next > MaxDev
          /\ IF inv[p].verb = "login" THEN Goto(p, "cap") ELSE Return(p)
          /\ UNCHANGED <<world, budget>>
       \/ Unauthorized(p, "register", Return(p))
       \/ /\ Authed(p, "register") /\ next <= MaxDev /\ ~Full(inv[p].acct)
          /\ Lost(p, Registered(p) /\ excused' = excused \cup {next}, Return(p))
    /\ Others

\* RevokeDevice: a device that is not there (404) is as good as revoked.
Revoked(p, d) ==
    /\ server' = [server EXCEPT ![inv[p].acct] = @ \ {d}]
    /\ UNCHANGED <<open, next>>

\* logout clears the credentials once the device is gone; devices remove is
\* done.  A device whose revocation was asked for is nobody's to keep.
Revoke(p) ==
    LET d == inv[p].key
    IN  /\ \/ /\ Authed(p, "revoke")
              /\ Revoked(p, d) /\ excused' = excused \cup {d}
              /\ IF inv[p].verb = "logout"
                   THEN Set(p, [inv[p] EXCEPT !.pc = "save", !.try = 1,
                                              !.cfg.token = None,
                                              !.cfg.dev = None])
                   ELSE Return(p)
              /\ UNCHANGED budget
           \/ Unauthorized(p, "revoke", Return(p))
           \/ /\ inv[p].pc = "revoke"
              /\ Lost(p, Revoked(p, d) /\ excused' = excused \cup {d},
                      Return(p))
        /\ Others

\* A device that is not the one on disk is left to itself.
Leave(d) == excused' = IF d = disk.dev THEN excused ELSE excused \cup {d}

\* What is revoked last: the new device after a failed save, or the old one
\* after a successful one.  If that fails the device stays behind, and
\* rotate-key says so.
RevokeLast(p, pc, d) ==
    /\ \/ /\ Authed(p, pc)
          /\ Revoked(p, d) /\ UNCHANGED budget
          /\ Leave(d)
          /\ Return(p)
       \/ /\ inv[p].pc = pc /\ refuse
          /\ Again(p, Return(p))
          /\ IF inv[p].try = 1 THEN UNCHANGED excused ELSE Leave(d)
          /\ UNCHANGED <<server, open, next, budget>>
       \/ /\ inv[p].pc = pc
          /\ Spend("fault")
          /\ Revoked(p, d) \/ UNCHANGED <<server, open, next>>
          /\ Leave(d)
          /\ Return(p)
    /\ Others

Undo(p) == RevokeLast(p, "undo", inv[p].cfg.dev)

RevokeOld(p) == RevokeLast(p, "revokeOld", inv[p].old)

\* refreshRelays: no account needed.
Relays(p) ==
    /\ inv[p].pc = "fetch"
    /\ \/ Goto(p, "save") /\ UNCHANGED <<world, budget>>
       \/ Lost(p, UNCHANGED world, Return(p))
    /\ Others

-----------------------------------------------------------------------------
(* The configuration file.                                                 *)

\* Mutant: the new device is not revoked when the save fails.
OnSaveErrorReturn(p) == "idle"

OnSaveError(p) == IF inv[p].verb \in {"login", "rotate"} THEN "undo" ELSE "idle"

AfterSave(p) == CASE inv[p].verb = "rotate"  -> "revokeOld"
                  [] inv[p].verb = "connect" -> "up"
                  [] OTHER                   -> "idle"

Finished(p, pc) ==
    IF pc = "idle" THEN Idle ELSE [inv[p] EXCEPT !.pc = pc, !.try = 1]

\* Save: the whole configuration, whatever the file holds by now.  A login
\* over an existing one leaves the old device behind.
Save(p) ==
    /\ inv[p].pc = "save"
    /\ \/ /\ disk' = inv[p].cfg
          /\ clobber' = (clobber \/ inv[p].stale)
          /\ out' = CASE inv[p].verb = "logout" -> TRUE
                      [] inv[p].verb \in {"login", "import"} -> FALSE
                      [] OTHER -> out
          /\ excused' = IF inv[p].verb \in {"login", "import"}
                          THEN excused \cup ({inv[p].old} \ {None, inv[p].cfg.dev})
                          ELSE excused
          /\ inv' = [q \in Procs |->
                        CASE q = p -> Finished(p, AfterSave(p))
                          [] q # p /\ inv[q].pc = "idle" -> Idle
                          [] OTHER -> [inv[q] EXCEPT
                                          !.stale = @ \/ disk' # disk]]
          /\ UNCHANGED budget
       \/ /\ Spend("fault")
          /\ Set(p, Finished(p, OnSaveError(p)))
          /\ UNCHANGED <<disk, clobber, out, excused>>
    /\ UNCHANGED <<server, open, next, refuse, tun, raced>>

\* The session of connect runs with the key connect loaded.
Up(p) ==
    /\ inv[p].pc = "up"
    /\ tun' = inv[p].cfg.dev
    /\ Return(p)
    /\ UNCHANGED <<disk, server, open, next, refuse, history, budget>>

Disconnect ==
    /\ tun # None /\ \A q \in Procs : inv[q].verb # "connect"
    /\ tun' = None
    /\ UNCHANGED <<disk, server, open, next, refuse, inv, history, budget>>

-----------------------------------------------------------------------------
(* The environment.                                                        *)

\* The API stops or starts to accept tokens.
Toggle ==
    /\ refuse \/ Spend("refuse")
    /\ refuse' = ~refuse
    /\ refuse => UNCHANGED budget
    /\ UNCHANGED <<disk, server, open, next, tun, inv, history>>

\* A kill leaves behind what the verb would have saved or revoked.
Kill(p) ==
    /\ inv[p].pc # "idle"
    /\ Spend("fault")
    /\ excused' = excused \cup Pending(inv[p])
    /\ Return(p)
    /\ UNCHANGED <<disk, server, open, next, refuse, tun, clobber, raced, out>>

Call(p) == \/ CreateAccount(p) \/ AccountExpiry(p) \/ ListDevices(p)
           \/ RegisterDevice(p) \/ Revoke(p) \/ Undo(p) \/ RevokeOld(p)
           \/ Relays(p) \/ Save(p) \/ Up(p)

Next ==
    \/ \E p \in Procs :
          \/ Signup(p) \/ Login(p) \/ Logout(p) \/ RotateKey(p)
          \/ DevicesRemove(p) \/ Refresh(p) \/ Connect(p)
          \/ Call(p) \/ Kill(p)
    \/ Disconnect \/ Toggle

\* Every call has a deadline (60 s), so an invocation goes on.
Spec == Init /\ [][Next]_vars /\ \A p \in Procs : WF_vars(Call(p))
-----------------------------------------------------------------------------
(* Properties.                                                             *)

\* The device on disk is registered, so connect does not dial with a key the
\* relays refuse: rotate-key registers and saves the new one before it
\* revokes the old one, whatever gets lost or fails or is killed in between.
\* Unless its revocation was asked for, or one save undid another, or an
\* import took the device back between rotate-key's save and its revocation
\* of it (Reimported): then the key on disk is a revoked one.
KeyUsable ==
    disk.dev # None /\ disk.dev \notin excused /\ ~clobber
        => disk.dev \in server[disk.token]

\* A device that a verb registered is the one on disk or about to be, or is
\* about to be revoked: a verb that fails does not use up one of the
\* account's places.  excused lists what the code cannot help: lost answers,
\* kills, a second login.
NoOrphan ==
    clobber \/ \A a \in Accounts : \A d \in server[a] \ ({Foreign} \cup excused) :
        \/ d = disk.dev
        \/ \E p \in Procs : d \in Pending(inv[p])

\* No verb revokes the device on disk while a session uses its key:
\* rotate-key and logout refuse while connected, devices remove the device
\* on disk.  Their checks exclude neither connect nor an import of the device
\* by another process, so an overlap may break it, as a lost update may.
SessionKey ==
    [][tun # None /\ tun = disk.dev /\ ~raced /\ ~clobber
       /\ tun \in server[disk.token]
       => tun \in server'[disk.token]]_vars

\* Every verb returns, also when the API keeps answering 401 (authedJSON
\* sends a request at most twice).
VerbReturns == \A p \in Procs : inv[p].pc # "idle" ~> inv[p].pc = "idle"

\* mvad's usage: logout will "revoke this device and clear stored
\* credentials".
LogoutClears == out => disk.dev = None
=============================================================================
