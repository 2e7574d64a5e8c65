---------------------------- MODULE DisplayProofs ----------------------------
(* Proofs about module Display.                                            *)
EXTENDS Display, TLAPS

\* The inductive invariant.
DisplayInv == TypeOK /\ SwitchWaits

LEMMA InitHolds == ASSUME Init PROVE DisplayInv
<1>1. /\ win \in {"opening", "run", "hidden", "quit"} /\ tray \in Trays
      /\ verb = None /\ host \in Host /\ budget \in Nat
  BY DisplayAssumption DEF Init
<1>2. /\ pollsWin \in Polls /\ pollsTray \in Polls
      /\ windowState \in {None, "shown", "hidden"}
  BY DEF Init, Polls
<1>3. trayCmds \in Seq(Commands) /\ Len(trayCmds) <= TrayCap
  BY DisplayAssumption DEF Init
<1>4. st \in [up : BOOLEAN, lockdown : BOOLEAN, running : BOOLEAN, hide : BOOLEAN]
  BY DEF Init
<1>5. tr \in [shown : BOOLEAN, icon : BOOLEAN, menu : BOOLEAN, popup : SUBSET Commands]
  BY DEF Init
<1> QED BY <1>1, <1>2, <1>3, <1>4, <1>5 DEF DisplayInv, TypeOK, SwitchWaits

LEMMA SendKeeps ==
    ASSUME TypeOK, NEW c \in Commands, Send(c)
    PROVE  trayCmds' \in Seq(Commands) /\ Len(trayCmds') <= TrayCap
BY DisplayAssumption DEF TypeOK, Send

LEMMA SpendKeeps == ASSUME TypeOK, Spend PROVE budget' \in Nat
BY DEF TypeOK, Spend

\* Each action of the loop, of the tray and of the terminals.
LEMMA StepHolds == ASSUME DisplayInv, [Next]_vars PROVE DisplayInv'
<1> USE DEF DisplayInv
<1>1. CASE Toggle
  BY <1>1, SpendKeeps DEF Toggle, TypeOK, SwitchWaits
<1>2. ASSUME NEW ok \in BOOLEAN, VerbEnds(ok) PROVE DisplayInv'
  <2>1. budget' \in Nat
    BY <1>2, SpendKeeps DEF VerbEnds, MayFail, TypeOK
  <2>2. verb' \in [on : BOOLEAN, end : {"none", "ok", "fail"}] /\ verb'.on = verb.on
    BY <1>2 DEF VerbEnds, TypeOK
  <2>3. host' \in Host
    BY <1>2 DEF VerbEnds, TypeOK, Host
  <2> QED BY <1>2, <2>1, <2>2, <2>3 DEF VerbEnds, TypeOK, SwitchWaits
<1>3. CASE TakeCmd
  BY <1>3 DEF TakeCmd, TypeOK, SwitchWaits
<1>4. ASSUME NEW ok \in BOOLEAN, PollStatus(ok) PROVE DisplayInv'
  <2>1. budget' \in Nat
    BY <1>4, SpendKeeps DEF PollStatus, MayFail, TypeOK
  <2>2. pollsWin' \in Polls /\ pollsTray' \in Polls
    BY <1>4 DEF PollStatus, Offer, Polls, TypeOK
  <2> QED BY <1>4, <2>1, <2>2 DEF PollStatus, TypeOK, SwitchWaits
<1>5. CASE TakePoll
  <2>1. st' \in [up : BOOLEAN, lockdown : BOOLEAN, running : BOOLEAN, hide : BOOLEAN]
    BY <1>5 DEF TakePoll, Polled, Active, TypeOK, Host
  <2>2. tr' \in [shown : BOOLEAN, icon : BOOLEAN, menu : BOOLEAN, popup : SUBSET Commands]
    BY <1>5 DEF TakePoll, TypeOK
  <2>3. verb # None => st'.running /\ st'.lockdown = st.lockdown
    BY <1>5 DEF TakePoll, Polled, TypeOK, SwitchWaits
  <2> QED BY <1>5, <2>1, <2>2, <2>3 DEF TakePoll, TypeOK, SwitchWaits, Polls
<1>6. CASE OpenWindow
  BY <1>6 DEF OpenWindow, SetWindowState, TypeOK, SwitchWaits
<1>7. CASE CloseWindow
  BY <1>7, SpendKeeps DEF CloseWindow, SetWindowState, TypeOK, SwitchWaits
<1>8. CASE TakeTray
  <2>1. trayCmds' \in Seq(Commands) /\ Len(trayCmds') <= TrayCap
        /\ Head(trayCmds) \in Commands
    BY <1>8, DisplayAssumption DEF TakeTray, TypeOK
  <2>2. win' \in {"opening", "run", "hidden", "quit"}
    BY <1>8, <2>1 DEF TakeTray, TypeOK, Shown
  <2>3. windowState' \in {None, "shown", "hidden"}
    BY <1>8 DEF TakeTray, TypeOK, SetWindowState
  <2> QED BY <1>8, <2>1, <2>2, <2>3 DEF TakeTray, TypeOK, SwitchWaits
<1>9. CASE TrayPolled
  <2> DEFINE icon == pollsTray = "up"
  <2>1. icon \in BOOLEAN OBVIOUS
  <2>2. tr' = [tr EXCEPT !.icon = icon] BY <1>9 DEF TrayPolled
  <2> HIDE DEF icon
  <2>3. tr' \in [shown : BOOLEAN, icon : BOOLEAN, menu : BOOLEAN, popup : SUBSET Commands]
    BY <2>1, <2>2 DEF TypeOK
  <2> QED BY <1>9, <2>3 DEF TrayPolled, TypeOK, SwitchWaits, Polls
<1>10. CASE TrayWindow
  BY <1>10 DEF TrayWindow, TypeOK, SwitchWaits
<1>11. CASE OpenPopup
  <2>1. Menu(tr.menu, tr.shown) \subseteq Commands
    BY DEF Menu, Commands
  <2> QED BY <1>11, <2>1, SpendKeeps DEF OpenPopup, TypeOK, SwitchWaits
<1>12. CASE HandleInstance
  <2>1. "show" \in Commands BY DEF Commands
  <2> QED BY <1>12, <2>1, SendKeeps, SpendKeeps DEF HandleInstance, TypeOK, SwitchWaits
<1>13. ASSUME NEW c \in Commands, ClickPopup(c) PROVE DisplayInv'
  BY <1>13, SendKeeps DEF ClickPopup, TypeOK, SwitchWaits
<1>14. ASSUME NEW c \in Commands, ClickTray(c) PROVE DisplayInv'
  BY <1>14, SendKeeps, SpendKeeps DEF ClickTray, TypeOK, SwitchWaits
<1>15. ASSUME NEW h \in Host, Terminal(h) PROVE DisplayInv'
  BY <1>15, SpendKeeps DEF Terminal, TypeOK, SwitchWaits
<1>16. CASE UNCHANGED vars
  BY <1>16 DEF vars, TypeOK, SwitchWaits
<1> QED
  BY <1>1, <1>2, <1>3, <1>4, <1>5, <1>6, <1>7, <1>8, <1>9, <1>10, <1>11, <1>12,
     <1>13, <1>14, <1>15, <1>16 DEF Next

\* Whatever the order in which the loop takes polls, commands of the tray and
\* results, the lockdown switch of mvad-gui stands where the user put it as
\* long as its verb runs or its result waits; and the channels keep within
\* their capacity, the tray's commands for every capacity of trayCmds.
THEOREM SwitchHolds == Spec => [](TypeOK /\ SwitchWaits)
<1>1. Init => DisplayInv BY InitHolds
<1>2. DisplayInv /\ [Next]_vars => DisplayInv' BY StepHolds
<1>3. DisplayInv => TypeOK /\ SwitchWaits BY DEF DisplayInv
<1> QED BY <1>1, <1>2, <1>3, PTL DEF Spec
=============================================================================
