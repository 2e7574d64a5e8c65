------------------------------- MODULE Display -------------------------------
(***************************************************************************)
(* What mvad-gui shows of the host: the window's snapshot and lockdown     *)
(* switch, the icon and the menu of the tray.  A poller feeds the loop and *)
(* the tray through channels of capacity 1 and drops what does not fit;    *)
(* the loop tells the tray whether the window is open through a channel    *)
(* that keeps the newest value; the tray sends commands back through a     *)
(* bounded channel.  Terminals change the host at any time.                *)
(*                                                                         *)
(* Of the verbs only lockdown, which moves the switch, is told apart; Gui  *)
(* models the others.  mvad-gui runs unprivileged: `nft list` fails for it *)
(* and lockdown.Active answers from the marker alone, which a boot that    *)
(* installs the table does not write.                                      *)
(***************************************************************************)
EXTENDS Naturals, Sequences

CONSTANTS
    TrayCap,   \* capacity of trayCmds, 8 in the code
    None,
    Trays,     \* what startTray may return
    Budget     \* bound: clicks, closed windows, changes by terminals, failing
               \* verbs and failing polls together

ASSUME DisplayAssumption ==
    /\ TrayCap \in Nat \ {0} /\ Budget \in Nat
    /\ Trays \subseteq {"none", "sni", "xembed", "menubar"}

VARIABLES
    win,       \* the loop: opening a window, run, hidden, quit
    tray,      \* what startTray returned
    st,        \* of the state struct: snap.Up, lockdownOn, running, hideRequested
    verb,      \* the lockdown verb in flight or in cmdDone, or None
    pollsWin, pollsTray, windowState, trayCmds,  \* channels
    tr,        \* the tray: window shown, icon, menu, rows of the open popup
    host,      \* session up, lockdown's table in the kernel, its marker in /run
    budget

vars == <<win, tray, st, verb, pollsWin, pollsTray, windowState, trayCmds, tr,
          host, budget>>

Host == [up : BOOLEAN, table : BOOLEAN, marker : BOOLEAN]

Commands == {"show", "hide", "quit", "other"}

Spend ==
    /\ budget > 0
    /\ budget' = budget - 1

MayFail(ok) == IF ok THEN UNCHANGED budget ELSE Spend

Alive == win # "quit"

-----------------------------------------------------------------------------
(* The lockdown switch *)

\* It flips back when it may not be used; else the verb is for its new value.
Toggle ==
    /\ win = "run" /\ ~st.running /\ ~st.up
    /\ Spend
    /\ st' = [st EXCEPT !.lockdown = ~@, !.running = TRUE]
    /\ verb' = [on |-> ~st.lockdown, end |-> "none"]
    /\ UNCHANGED <<win, tray, pollsWin, pollsTray, windowState, trayCmds, tr, host>>

\* A verb that fails may have done nothing, all but the last of it, or, when
\* it is killed, the table without the marker.
VerbEnds(ok) ==
    /\ Alive /\ verb # None /\ verb.end = "none"
    /\ MayFail(ok)
    /\ verb' = [verb EXCEPT !.end = IF ok THEN "ok" ELSE "fail"]
    /\ LET done == [host EXCEPT !.table = verb.on, !.marker = verb.on] IN
       host' \in IF ok THEN {done}
                ELSE {host, done, [host EXCEPT !.table = verb.on]}
    /\ UNCHANGED <<win, tray, st, pollsWin, pollsTray, windowState, trayCmds, tr>>

\* run flips the switch back after a failure; the hidden loop does not.
TakeCmd ==
    /\ win \in {"run", "hidden"} /\ verb # None /\ verb.end # "none"
    /\ st' = [st EXCEPT !.running = FALSE,
                        !.lockdown = IF win = "run" /\ verb.end = "fail" THEN ~@ ELSE @]
    /\ verb' = None
    /\ UNCHANGED <<win, tray, pollsWin, pollsTray, windowState, trayCmds, tr,
                   host, budget>>

-----------------------------------------------------------------------------
(* Polls *)

\* A result that finds a full channel is dropped.
Offer(ch, r) == IF ch = None THEN r ELSE ch

PollStatus(ok) ==
    /\ Alive
    /\ MayFail(ok)
    /\ LET r == IF ~ok THEN "err" ELSE IF host.up THEN "up" ELSE "down" IN
       /\ pollsWin' = Offer(pollsWin, r)
       /\ pollsTray' = IF tray = "none" THEN None ELSE Offer(pollsTray, r)
    /\ UNCHANGED <<win, tray, st, verb, windowState, trayCmds, tr, host>>

\* What an unprivileged caller learns of the lockdown.
Active == host.marker

\* Mutant: a poll moves the switch while its verb runs.
PolledAlways(s, r) ==
    [s EXCEPT !.up = IF r = "err" THEN @ ELSE r = "up", !.lockdown = Active]

\* The switch follows lockdown.Active unless it waits for its own verb.
Polled(s, r) ==
    [s EXCEPT !.up = IF r = "err" THEN @ ELSE r = "up",
              !.lockdown = IF s.running THEN @ ELSE Active]

\* With a window and without; updateTrayMenu builds the menu anew when the
\* session has come or gone.
TakePoll ==
    /\ win \in {"run", "hidden"} /\ pollsWin # None
    /\ st' = Polled(st, pollsWin)
    /\ tr' = [tr EXCEPT !.menu = IF tray = "none" \/ pollsWin = "err" THEN @
                                 ELSE pollsWin = "up"]
    /\ pollsWin' = None
    /\ UNCHANGED <<win, tray, verb, pollsTray, windowState, trayCmds, host, budget>>

-----------------------------------------------------------------------------
(* The window *)

\* Mutant: an unread state is not replaced.
SetWindowStateIfEmpty(s) ==
    windowState' = IF tray = "none" THEN windowState ELSE Offer(windowState, s)

\* A full channel gives up its old value.
SetWindowState(s) == windowState' = IF tray = "none" THEN windowState ELSE s

OpenWindow ==
    /\ win = "opening"
    /\ win' = "run"
    /\ SetWindowState("shown")
    /\ UNCHANGED <<tray, st, verb, pollsWin, pollsTray, trayCmds, tr, host, budget>>

\* DestroyEvent, after the user has closed the window or Hide has asked for
\* it; closing to the tray is left on.
CloseWindow ==
    /\ win = "run"
    /\ IF st.hide THEN UNCHANGED budget ELSE Spend
    /\ win' = IF tray = "none" THEN "quit" ELSE "hidden"
    /\ st' = [st EXCEPT !.hide = FALSE]
    /\ IF tray = "none" THEN UNCHANGED windowState ELSE SetWindowState("hidden")
    /\ UNCHANGED <<tray, verb, pollsWin, pollsTray, trayCmds, tr, host>>

\* Mutant: Show is taken and forgotten.
ShownNot(c) == "hidden"

Shown(c) == IF c = "show" THEN "opening" ELSE "hidden"

\* Show also stands for the commands that choose a view, other for
\* Disconnect and Reconnect, which leave the window alone.
TakeTray ==
    /\ win \in {"run", "hidden"} /\ trayCmds # <<>>
    /\ trayCmds' = Tail(trayCmds)
    /\ LET c == Head(trayCmds) IN
       /\ st' = IF c = "hide" /\ win = "run" THEN [st EXCEPT !.hide = TRUE] ELSE st
       /\ win' = IF c = "quit" THEN "quit"
                 ELSE IF win = "hidden" THEN Shown(c) ELSE win
       /\ IF c = "show" /\ win = "run" THEN SetWindowState("shown")
                                       ELSE UNCHANGED windowState
    /\ UNCHANGED <<tray, verb, pollsWin, pollsTray, tr, host, budget>>

-----------------------------------------------------------------------------
(* The tray *)

TrayPolled ==
    /\ Alive /\ pollsTray # None
    /\ tr' = [tr EXCEPT !.icon = pollsTray = "up"]
    /\ pollsTray' = None
    /\ UNCHANGED <<win, tray, st, verb, pollsWin, windowState, trayCmds, host, budget>>

\* The menu bar of macOS always offers Show and does not read the channel.
TrayWindow ==
    /\ Alive /\ tray \in {"sni", "xembed"} /\ windowState # None
    /\ tr' = [tr EXCEPT !.shown = windowState = "shown"]
    /\ windowState' = None
    /\ UNCHANGED <<win, tray, st, verb, pollsWin, pollsTray, trayCmds, host, budget>>

\* buildTrayMenu: Show or Hide, Connect or Disconnect and Reconnect.
Menu(up, shown) ==
    {IF shown THEN "hide" ELSE "show", "show", "quit"}
    \cup (IF up THEN {"other"} ELSE {})

\* The commands after a full channel are dropped.
Send(c) ==
    trayCmds' = IF Len(trayCmds) < TrayCap THEN Append(trayCmds, c) ELSE trayCmds

\* An XEmbed popup keeps the rows it was opened with.
OpenPopup ==
    /\ Alive /\ tray = "xembed"
    /\ Spend
    /\ tr' = [tr EXCEPT !.popup = Menu(tr.menu, tr.shown)]
    /\ UNCHANGED <<win, tray, st, verb, pollsWin, pollsTray, windowState,
                   trayCmds, host>>

ClickPopup(c) ==
    /\ Alive /\ c \in tr.popup
    /\ Send(c)
    /\ tr' = [tr EXCEPT !.popup = {}]
    /\ UNCHANGED <<win, tray, st, verb, pollsWin, pollsTray, windowState, host,
                   budget>>

\* A click on the icon of XEmbed, or on the icon or the menu of the others.
ClickTray(c) ==
    /\ Alive /\ tray # "none"
    /\ c \in IF tray = "xembed" THEN {IF tr.shown THEN "hide" ELSE "show"}
             ELSE Menu(tr.menu, tr.shown)
    /\ Spend
    /\ Send(c)
    /\ UNCHANGED <<win, tray, st, verb, pollsWin, pollsTray, windowState, tr, host>>

\* Another mvad-gui has been started and asks for this one's window.
HandleInstance ==
    /\ Alive
    /\ Spend
    /\ Send("show")
    /\ UNCHANGED <<win, tray, st, verb, pollsWin, pollsTray, windowState, tr, host>>

\* Verbs from a terminal, which may be killed half-way.
Terminal(h) ==
    /\ Alive
    /\ Spend
    /\ host' = h
    /\ UNCHANGED <<win, tray, st, verb, pollsWin, pollsTray, windowState,
                   trayCmds, tr>>

-----------------------------------------------------------------------------

\* lockdownOn starts as what the configuration remembers, whatever the host
\* has: after a boot the table may be there without its marker.
Init ==
    /\ tray \in Trays
    /\ win \in {"opening"} \cup (IF tray = "none" THEN {} ELSE {"hidden"})
    /\ host \in Host
    /\ \E on \in BOOLEAN :
         st = [up |-> FALSE, lockdown |-> on, running |-> FALSE, hide |-> FALSE]
    /\ verb = None
    /\ pollsWin = None /\ pollsTray = None /\ windowState = None
    /\ trayCmds = <<>>
    /\ tr = [shown |-> FALSE, icon |-> FALSE, menu |-> FALSE, popup |-> {}]
    /\ budget = Budget

Next ==
    \/ Toggle \/ TakeCmd \/ TakePoll \/ OpenWindow \/ CloseWindow \/ TakeTray
    \/ VerbEnds(TRUE) \/ VerbEnds(FALSE)
    \/ PollStatus(TRUE) \/ PollStatus(FALSE)
    \/ TrayPolled \/ TrayWindow \/ OpenPopup \/ HandleInstance
    \/ \E c \in Commands : ClickPopup(c) \/ ClickTray(c)
    \/ \E h \in Host : Terminal(h)

\* select picks at random among the channels that are ready; the poller
\* ticks every second; verbs end; the window manager closes windows.
Fairness ==
    /\ WF_vars(TakeCmd) /\ WF_vars(TakePoll) /\ WF_vars(TakeTray)
    /\ WF_vars(OpenWindow) /\ WF_vars(st.hide /\ CloseWindow)
    /\ WF_vars(VerbEnds(TRUE) \/ VerbEnds(FALSE))
    /\ WF_vars(PollStatus(TRUE)) /\ WF_vars(TrayPolled) /\ WF_vars(TrayWindow)

Spec == Init /\ [][Next]_vars /\ Fairness

-----------------------------------------------------------------------------
(* Properties *)

Polls == {None, "up", "down", "err"}

TypeOK ==
    /\ win \in {"opening", "run", "hidden", "quit"}
    /\ tray \in Trays
    /\ st \in [up : BOOLEAN, lockdown : BOOLEAN, running : BOOLEAN, hide : BOOLEAN]
    /\ verb \in [on : BOOLEAN, end : {"none", "ok", "fail"}] \cup {None}
    /\ pollsWin \in Polls /\ pollsTray \in Polls
    /\ windowState \in {None, "shown", "hidden"}
    /\ trayCmds \in Seq(Commands) /\ Len(trayCmds) <= TrayCap
    /\ tr \in [shown : BOOLEAN, icon : BOOLEAN, menu : BOOLEAN, popup : SUBSET Commands]
    /\ host \in Host
    /\ budget \in Nat

\* As long as the lockdown verb runs or its result waits, the switch stands
\* where the user put it, whatever polls report meanwhile, with the window
\* open or hidden: so what run saves after a success is what the verb did,
\* and flipping the switch after a failure restores what it was.
SwitchWaits == verb # None => st.running /\ st.lockdown = verb.on

\* A Show that was accepted, from the tray or from another mvad-gui, opens the
\* window, unless the program ends.
ShowOpens ==
    (\E i \in 1..Len(trayCmds) : trayCmds[i] = "show") ~> (win \in {"run", "quit"})

\* The table and its marker differ: a boot has loaded the table, or a verb was
\* killed between the two.
Unmarked == host.table # host.marker

\* Once the host settles, the window, the lockdown switch, the tray's icon,
\* its menu and its Show or Hide tell the truth, although polls are dropped
\* when the loop is slow, results are taken by a loop without a window, and
\* the switch was filled from a configuration that may be wrong.  The switch
\* is left out by name while the marker does not agree with the table
\* (Unmarked): after a boot under lockdown it shows off until a verb writes
\* the marker again.
DisplayConverges ==
    <>[](Alive =>
           /\ st.up = host.up
           /\ st.lockdown = host.table \/ Unmarked
           /\ tray # "none" => tr.icon = host.up /\ tr.menu = host.up
           /\ tray \in {"sni", "xembed"} => (tr.shown <=> win = "run"))
=============================================================================
