--------------------------------- MODULE Gui ---------------------------------
(***************************************************************************)
(* mvad-gui: one event loop that owns the state struct, with a window      *)
(* (run) or without one (the hidden loop of main), and the goroutines it   *)
(* starts: mvad verbs under pkexec, the browser opener, the loaders of     *)
(* relays, account and split processes, device removals and applications   *)
(* started outside the tunnel.  Each reports on a channel of capacity 1;   *)
(* how it ended is decided when the loop takes the report.                 *)
(*                                                                         *)
(* What polls see of the host and what config.Load returns is arbitrary:   *)
(* other programs change both at any time (Display and Account model       *)
(* them).  Clicks that have to be confirmed within five seconds are one    *)
(* click; what the window draws is left out.                               *)
(***************************************************************************)
EXTENDS Naturals, Sequences, FiniteSets

CONSTANTS
    Pids,      \* processes the split view lists
    Apps,      \* command lines of the run box and the shortcuts
    None,
    Uses,      \* bound: the buttons and tray commands that are used
    Budget     \* bound: clicks, commands of the tray, closed windows and changes
               \* of the session together

SplitVerbs == {"split-add", "split-rm", "split-clear"}

Verbs == {"connect", "reconnect", "disconnect", "lockdown", "login", "signup",
          "logout", "rotate-key"} \cup SplitVerbs

ASSUME GuiAssumption ==
    /\ Budget \in Nat
    /\ None \notin Pids \cup Apps \cup Verbs

VARIABLES
    win,     \* the loop: opening a window, run, hidden, quit
    tray,    \* startTray has found a tray
    st,      \* the state struct
    go,      \* the goroutines
    cmdDone, runDone, deviceDone,  \* channels; those of the loaders are stages
                                   \* of go.load
    orphaned,  \* history: without a window, the loop took the result of the
               \* removal that splitRemoving still names
    budget

vars == <<win, tray, st, go, cmdDone, runDone, deviceDone, orphaned, budget>>

Loaders == {"relay", "acct", "split"}

Ends == {"ok", "fail", "cap"}   \* cap: login exits with 3, too many devices

\* running: runningName, or None when running is false; up: snap.Up; cred:
\* loggedIn(cfg); toTray: ~NoCloseToTray; hide: hideRequested; busy:
\* relayLoading, acctRefreshing, splitLoading; device: deviceRemoving is set.
State ==
    [running : Verbs \cup {None}, up : BOOLEAN, cred : BOOLEAN,
     toTray : BOOLEAN, hide : BOOLEAN,
     relays : BOOLEAN, devices : BOOLEAN, atCap : BOOLEAN,
     rmQueue : Seq(Pids), addQueue : Seq(Pids), removing : Pids \cup {None},
     busy : SUBSET Loaders, device : BOOLEAN, starting : SUBSET Apps]

\* Verbs, openers, loaders and removals of devices that run or wait for room
\* in their channel; done: the loader's result is in its channel; runs of
\* applications.
Goroutine ==
    [verbs : SUBSET Verbs,
     openers : Nat,
     load : [Loaders -> {"idle", "begun", "done"}],
     removals : Nat,
     runs : SUBSET [app : Apps, n : Nat, stage : {"starting", "live"}]]

Spend ==
    /\ budget > 0
    /\ budget' = budget - 1

-----------------------------------------------------------------------------
(* The handlers are functions of the pair s = [st, go].                    *)

S == [st |-> st, go |-> go]

Becomes(s) == st' = s.st /\ go' = s.go

\* The callers check running; a click or a queue waits for it.
Start(s, v) ==
    IF s.st.running # None THEN s
    ELSE [s EXCEPT !.st.running = v,
                   !.go.verbs = @ \cup {v}]

Begin(s, l) ==
    IF l \in s.st.busy THEN s
    ELSE [s EXCEPT !.st.busy = @ \cup {l}, !.go.load[l] = "begun"]

\* loadAccount with the stored account, loadDevicesByToken with the typed one.
BeginAcct(s) == IF s.st.cred \/ s.st.atCap THEN Begin(s, "acct") ELSE s

\* startConnect gives up when the multihop entry or the bridge is wrong.
StartConnect(s, valid) ==
    IF s.st.cred /\ valid THEN Start(s, "connect") ELSE s

-----------------------------------------------------------------------------
(* One frame: the clicks in the order in which the code asks for them, and *)
(* the two queues between them.                                            *)

DrainRm(s) ==
    IF s.st.running # None \/ s.st.rmQueue = <<>> THEN s
    ELSE [Start(s, "split-rm") EXCEPT !.st.removing = Head(s.st.rmQueue),
                                      !.st.rmQueue = Tail(@)]

DrainAdd(s) ==
    IF s.st.running # None \/ s.st.addQueue = <<>> THEN s
    ELSE [Start(s, "split-add") EXCEPT !.st.addQueue = Tail(@)]

NoClick == [on |-> "none", arg |-> None]

Buttons ==
    [on : {"relays", "acct", "split", "addPid", "clear", "add", "toTray",
           "lockdown", "open", "button", "reconnect", "login", "signup",
           "logout", "rotate", "device"}, arg : {None}]
    \cup [on : {"rm", "group"}, arg : Pids]
    \cup [on : {"run"}, arg : Apps]

Clicks == {c \in Buttons : c.on \in Uses}

RunOutside(s, app) ==
    IF s.st.starting # {} THEN s
    ELSE [s EXCEPT !.st.starting = {app},
                   !.go.runs = @ \cup {[app |-> app, n |-> budget,
                                        stage |-> "starting"]}]

\* Tabs, refreshes, the pid field, the run box, clear and the list of split
\* processes come before the removal queue.
Early(s, c) ==
    CASE c.on = "relays" -> Begin(s, "relay")
      [] c.on = "acct"   -> IF s.st.cred THEN Begin(s, "acct") ELSE s
      [] c.on = "split"  -> Begin(s, "split")
      [] c.on = "addPid" -> Start(s, "split-add")
      [] c.on = "clear"  -> Start(s, "split-clear")
      [] c.on = "rm"     -> [s EXCEPT !.st.rmQueue = Append(@, c.arg)]
      [] c.on = "run"    -> RunOutside(s, c.arg)
      [] OTHER           -> s

Middle(s, c) ==
    CASE c.on = "add"   -> Start(s, "split-add")
      [] c.on = "group" -> [s EXCEPT !.st.addQueue = Append(@, c.arg)]
      [] OTHER          -> s

\* The button is Disconnect while the last poll saw a session.
Button(s, valid) ==
    IF s.st.up THEN Start(s, "disconnect") ELSE StartConnect(s, valid)

RemoveDevice(s) ==
    IF (s.st.cred \/ s.st.atCap) /\ s.st.devices /\ ~s.st.device
    THEN [s EXCEPT !.st.device = TRUE, !.go.removals = @ + 1] ELSE s

Late(s, c, valid) ==
    CASE c.on = "toTray"    -> [s EXCEPT !.st.toTray = ~@]
      [] c.on = "lockdown"  -> IF s.st.up THEN s ELSE Start(s, "lockdown")
      [] c.on = "open"      -> [s EXCEPT !.go.openers = @ + 1]
      [] c.on = "button"    -> Button(s, valid)
      [] c.on = "reconnect" -> IF s.st.up THEN Start(s, "reconnect") ELSE s
      [] c.on = "login"     -> IF valid THEN Start(s, "login") ELSE s
      [] c.on = "signup"    -> Start(s, "signup")
      [] c.on = "logout"    -> IF s.st.up THEN s ELSE Start(s, "logout")
      [] c.on = "rotate"    ->
            IF s.st.up \/ ~s.st.cred THEN s ELSE Start(s, "rotate-key")
      [] c.on = "device"    -> RemoveDevice(s)
      [] OTHER              -> s

Frame(c, valid) ==
    /\ win = "run"
    /\ IF c = NoClick THEN UNCHANGED budget ELSE Spend
    /\ Becomes(Late(DrainAdd(Middle(DrainRm(Early(S, c)), c)), c, valid))
    /\ orphaned' = (orphaned /\ st'.running # "split-rm")
    /\ UNCHANGED <<win, tray, cmdDone, runDone, deviceDone>>

-----------------------------------------------------------------------------
(* Results *)

\* Mutant: the opener's result ends the verb.
EndedAny(s, name) == [s EXCEPT !.st.running = None]

\* The opener reports on cmdDone too and must not end the verb that runs.
Ended(s, name) == IF name = "open" THEN s ELSE [s EXCEPT !.st.running = None]

\* config.Load after a verb that may have changed the account, and with it
\* the device list is out of date.
Reload(s, cred) == [s EXCEPT !.st.cred = cred]

NewAccount(s, cred) == [Reload(s, cred) EXCEPT !.st.devices = FALSE]

AfterLogin(s, end, cred) ==
    CASE end = "ok"   -> BeginAcct(NewAccount([s EXCEPT !.st.atCap = FALSE], cred))
      [] end = "cap"  -> BeginAcct([s EXCEPT !.st.atCap = TRUE, !.st.devices = FALSE])
      [] end = "fail" -> [s EXCEPT !.st.atCap = FALSE, !.st.devices = FALSE]

\* What run does with a verb's result.
Handle(s, name, end, cred) ==
    CASE name \in {"connect", "reconnect"} /\ end = "ok" -> Reload(s, cred)
      [] name = "logout" /\ end = "ok" ->
            [NewAccount(s, cred) EXCEPT !.st.device = FALSE]
      [] name = "rotate-key" /\ end = "ok" -> NewAccount(s, cred)
      [] name = "login" -> AfterLogin(s, end, cred)
      [] name = "signup" /\ end = "ok" ->
            LET t == NewAccount(s, cred) IN IF cred THEN Begin(t, "acct") ELSE t
      [] name \in SplitVerbs -> Begin([s EXCEPT !.st.removing = None], "split")
      [] OTHER -> s

TakeCmd(end, cred) ==
    /\ win = "run" /\ cmdDone # None
    /\ Becomes(Handle(Ended(S, cmdDone), cmdDone, end, cred))
    /\ cmdDone' = None
    /\ orphaned' = (orphaned /\ cmdDone \notin SplitVerbs)
    /\ UNCHANGED <<win, tray, runDone, deviceDone, budget>>

\* Mutant: no result is taken without a window.
TakeCmdHiddenNever == FALSE /\ UNCHANGED vars

\* Without a window the result only ends the verb: splitRemoving stays.
TakeCmdHidden ==
    /\ win = "hidden" /\ cmdDone # None
    /\ Becomes(Ended(S, cmdDone))
    /\ cmdDone' = None
    /\ orphaned' = (orphaned \/ cmdDone = "split-rm")
    /\ UNCHANGED <<win, tray, runDone, deviceDone, budget>>

Loaded(s, l, ok, cred) ==
    CASE l = "relay"       -> [s EXCEPT !.st.relays = TRUE]
      [] ok /\ l = "acct"  -> Reload([s EXCEPT !.st.devices = TRUE], cred)
      [] OTHER             -> s

\* Mutant: a load that failed leaves its button disabled.
IdleIfOk(s, l, ok) ==
    [s EXCEPT !.st.busy = IF ok THEN @ \ {l} ELSE @, !.go.load[l] = "idle"]

\* The flag falls whether the load worked or not.
Idle(s, l, ok) == [s EXCEPT !.st.busy = @ \ {l}, !.go.load[l] = "idle"]

TakeLoad(l, ok, cred) ==
    /\ win = "run" /\ go.load[l] = "done"
    /\ Becomes(Idle(Loaded(S, l, ok, cred), l, ok))
    /\ UNCHANGED <<win, tray, cmdDone, runDone, deviceDone, orphaned, budget>>

TakeDevice(ok) ==
    /\ win = "run" /\ deviceDone
    /\ LET s == [S EXCEPT !.st.device = FALSE] IN
       Becomes(IF ok THEN BeginAcct(s) ELSE s)
    /\ deviceDone' = FALSE
    /\ UNCHANGED <<win, tray, cmdDone, runDone, orphaned, budget>>

\* A run reports twice; what finds no entry is ignored.
TakeRun ==
    /\ win = "run" /\ runDone # None
    /\ Becomes(IF runDone \in st.starting
               THEN Begin([S EXCEPT !.st.starting = @ \ {runDone}], "split")
               ELSE S)
    /\ runDone' = None
    /\ UNCHANGED <<win, tray, cmdDone, deviceDone, orphaned, budget>>

\* view: the split view is open and has been loaded; it is loaded again.
TakePoll(up, view) ==
    /\ win \in {"run", "hidden"}
    /\ view => win = "run"
    /\ IF up = st.up THEN UNCHANGED budget ELSE Spend
    /\ LET s == [S EXCEPT !.st.up = up] IN
       Becomes(IF view THEN Begin(s, "split") ELSE s)
    /\ UNCHANGED <<win, tray, cmdDone, runDone, deviceDone, orphaned>>

-----------------------------------------------------------------------------
(* The window *)

OpenWindow ==
    /\ win = "opening"
    /\ win' = "run"
    /\ Becomes(IF st.relays THEN S ELSE Begin(S, "relay"))
    /\ UNCHANGED <<tray, cmdDone, runDone, deviceDone, orphaned, budget>>

\* Mutant: the window hides without an icon to come back by.
ClosedAnyway == IF st.hide \/ st.toTray THEN "hidden" ELSE "quit"

\* After DestroyEvent: the loop goes on without a window, or the program ends.
Closed == IF tray /\ (st.hide \/ st.toTray) THEN "hidden" ELSE "quit"

CloseWindow ==
    /\ win = "run"
    /\ IF st.hide THEN UNCHANGED budget ELSE Spend
    /\ win' = Closed
    /\ st' = IF win' = "hidden" THEN [st EXCEPT !.hide = FALSE] ELSE st
    /\ UNCHANGED <<tray, go, cmdDone, runDone, deviceDone, orphaned>>

\* Commands of the tray and of another mvad-gui; show stands for those that
\* choose a view.
TrayCmds == {"show", "hide", "quit", "favorite", "disconnect", "reconnect"}

TakeTray(c, valid) ==
    /\ win \in {"run", "hidden"} /\ (tray \/ c = "show")
    /\ Spend
    /\ Becomes(CASE c = "favorite"   -> StartConnect(S, valid)
                 [] c = "disconnect" -> Start(S, "disconnect")
                 [] c = "reconnect"  -> Start(S, "reconnect")
                 [] c = "hide" /\ win = "run" -> [S EXCEPT !.st.hide = TRUE]
                 [] OTHER -> S)
    /\ win' = CASE c = "quit" -> "quit"
                [] c \in {"show", "favorite"} /\ win = "hidden" -> "opening"
                [] OTHER -> win
    /\ UNCHANGED <<tray, cmdDone, runDone, deviceDone, orphaned>>

-----------------------------------------------------------------------------
(* Goroutines.  They end with the program. *)

Alive == win # "quit"

\* runCmd and runUserCmd: the verb has ended and there is room.
VerbReports(v) ==
    /\ Alive /\ cmdDone = None
    /\ cmdDone' = v
    /\ go' = [go EXCEPT !.verbs = @ \ {v}]
    /\ UNCHANGED <<win, tray, st, runDone, deviceDone, orphaned, budget>>

OpenerReports ==
    /\ Alive /\ go.openers > 0 /\ cmdDone = None
    /\ cmdDone' = "open"
    /\ go' = [go EXCEPT !.openers = @ - 1]
    /\ UNCHANGED <<win, tray, st, runDone, deviceDone, orphaned, budget>>

Load(l) ==
    /\ Alive /\ go.load[l] = "begun"
    /\ go' = [go EXCEPT !.load[l] = "done"]
    /\ UNCHANGED <<win, tray, st, cmdDone, runDone, deviceDone, orphaned, budget>>

DeviceReports ==
    /\ Alive /\ go.removals > 0 /\ ~deviceDone
    /\ deviceDone' = TRUE
    /\ go' = [go EXCEPT !.removals = @ - 1]
    /\ UNCHANGED <<win, tray, st, cmdDone, runDone, orphaned, budget>>

\* runOutside: an application that lives for a second is reported as started
\* and again when it exits.
RunReports(r, lives) ==
    /\ Alive /\ runDone = None
    /\ lives => r.stage = "starting"
    /\ runDone' = r.app
    /\ go' = [go EXCEPT !.runs = (@ \ {r}) \cup
                 (IF lives THEN {[r EXCEPT !.stage = "live"]} ELSE {})]
    /\ UNCHANGED <<win, tray, st, cmdDone, deviceDone, orphaned, budget>>

-----------------------------------------------------------------------------

Init ==
    /\ tray \in BOOLEAN
    /\ win \in {"opening"} \cup (IF tray THEN {"hidden"} ELSE {})
    /\ \E cred \in BOOLEAN :
         st = [running |-> None, up |-> FALSE, cred |-> cred,
               toTray |-> TRUE, hide |-> FALSE,
               relays |-> FALSE, devices |-> FALSE, atCap |-> FALSE,
               rmQueue |-> <<>>, addQueue |-> <<>>, removing |-> None,
               busy |-> {}, device |-> FALSE, starting |-> {}]
    /\ go = [verbs |-> {}, openers |-> 0, load |-> [l \in Loaders |-> "idle"],
             removals |-> 0, runs |-> {}]
    /\ cmdDone = None /\ runDone = None /\ deviceDone = FALSE /\ orphaned = FALSE
    /\ budget = Budget

Loop ==
    \/ OpenWindow
    \/ \E cred \in BOOLEAN :
          \/ \E end \in Ends : (end = "cap" => cmdDone = "login") /\ TakeCmd(end, cred)
          \/ \E l \in Loaders, ok \in BOOLEAN : TakeLoad(l, ok, cred)
    \/ TakeCmdHidden
    \/ TakeDevice(TRUE) \/ TakeDevice(FALSE)
    \/ TakeRun
    \/ \E up, view \in BOOLEAN : TakePoll(up, view)
    \/ \E c \in TrayCmds \cap Uses, valid \in BOOLEAN : TakeTray(c, valid)
    \/ Frame(NoClick, TRUE)
    \/ \E c \in Clicks : Frame(c, TRUE) \/ Frame(c, FALSE)
    \/ CloseWindow

Goroutines ==
    \/ \E v \in go.verbs : VerbReports(v)
    \/ OpenerReports
    \/ \E l \in Loaders : Load(l)
    \/ DeviceReports
    \/ \E r \in go.runs, lives \in BOOLEAN : RunReports(r, lives)

Next == Loop \/ Goroutines

\* select picks at random among the channels that are ready, and the window
\* is drawn at least once a second; API calls have timeouts, verbs end.
Fairness ==
    /\ WF_vars(OpenWindow)
    /\ WF_vars(\E end \in Ends, cred \in BOOLEAN : TakeCmd(end, cred))
    /\ WF_vars(TakeCmdHidden)
    /\ \A l \in Loaders : /\ WF_vars(\E ok, cred \in BOOLEAN : TakeLoad(l, ok, cred))
                          /\ WF_vars(Load(l))
    /\ WF_vars(\E ok \in BOOLEAN : TakeDevice(ok)) /\ WF_vars(TakeRun)
    /\ WF_vars(Frame(NoClick, TRUE))
    /\ WF_vars(\E v \in go.verbs : VerbReports(v)) /\ WF_vars(OpenerReports)
    /\ WF_vars(DeviceReports)
    /\ WF_vars(\E r \in go.runs, lives \in BOOLEAN :
                  r.stage = "starting" /\ RunReports(r, lives))

Spec == Init /\ [][Next]_vars /\ Fairness

-----------------------------------------------------------------------------
(* Properties *)

\* Types; and the program never runs without a window and without a tray
\* icon to open one with.
TypeOK ==
    /\ win \in {"opening", "run", "hidden", "quit"}
    /\ tray \in BOOLEAN
    /\ win = "hidden" => tray
    /\ st \in State
    /\ go \in Goroutine
    /\ cmdDone \in Verbs \cup {"open", None}
    /\ runDone \in Apps \cup {None}
    /\ deviceDone \in BOOLEAN /\ orphaned \in BOOLEAN
    /\ budget \in Nat

\* cmdDone holds a verb's result, not the opener's.
Waiting == cmdDone \in Verbs

\* At most one mvad verb of this window runs or waits with its result, and
\* running says which: clicks, queues and the tray never start a second one,
\* and the browser opener's result, which comes over the same channel, does
\* not make the loop believe that the verb has ended.
SingleFlight ==
    /\ go.verbs = (IF st.running = None \/ Waiting THEN {} ELSE {st.running})
    /\ Waiting => cmdDone = st.running

\* A control that is disabled because something is loading, starting or being
\* removed has a goroutine at work or a result waiting behind it, whatever
\* failed and whenever the window was closed and opened.  A row of the split
\* view is left out by name: without a window the result of its removal is
\* taken but splitRemoving stays (orphaned), and the row keeps its "removing"
\* until the window takes the result of another split verb.
BusyHasWork ==
    /\ \A l \in Loaders : l \in st.busy <=> go.load[l] # "idle"
    /\ st.device => go.removals > 0 \/ deviceDone
    /\ \A a \in st.starting :
          \/ runDone = a
          \/ \E r \in go.runs : r.app = a /\ r.stage = "starting"
    /\ st.removing # None => orphaned \/ st.running = "split-rm"

\* Something waits for the window: processes queued for the split set or for
\* their removal, controls disabled until a result has been taken; but for a
\* row whose removal was over without the window.
Waits ==
    \/ st.rmQueue # <<>> \/ st.addQueue # <<>>
    \/ st.removing # None /\ ~orphaned
    \/ st.device \/ st.starting # {} \/ st.busy \ {"split"} # {}

\* A verb that was started is over for the loop some time, with the window
\* open or hidden.  While the window is open, queues are worked off and
\* disabled controls come back; the split view, which polls load again and
\* again, too.
WindowServes ==
    /\ st.running # None ~> (st.running = None \/ ~Alive)
    /\ Waits ~> (~Waits \/ win # "run")
    /\ "split" \in st.busy ~> ("split" \notin st.busy \/ win # "run")
=============================================================================
