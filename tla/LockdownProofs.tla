--------------------------- MODULE LockdownProofs ---------------------------
(* Proofs about module Lockdown.                                           *)
EXTENDS Lockdown, TLAPS

\* Where each verb can be, and what it has done by then.  The commands left
\* determine the point; a failure leaves ok or fails behind.
OnPoint ==
    inv.verb = "on" =>
        /\ todo \in {<<"writeScript", "nft", "writeMarker">>,
                     <<"nft", "writeMarker">>, <<"writeMarker">>, <<>>}
        /\ inv.busy => ~split
        /\ todo = <<"nft", "writeMarker">> => script # None
        /\ todo = <<"writeMarker">> => script # None /\ table # None
        /\ (inv.busy /\ inv.ok /\ todo = <<>>) => script # None /\ table # None

RefreshPoint ==
    inv.verb = "refresh" =>
        /\ todo \in {<<"writeScript", "list", "nft", "writeMarker">>,
                     <<"list", "nft", "writeMarker">>,
                     <<"nft", "writeMarker">>, <<"writeMarker">>, <<>>}
        /\ todo # <<>> => script # None
        /\ todo = <<"nft", "writeMarker">> => table # None
        /\ (locked /\ inv.fails = 0 /\ todo \in {<<"list", "nft", "writeMarker">>,
                                   <<"nft", "writeMarker">>, <<"writeMarker">>, <<>>})
              => script = inv.ips
        /\ (locked /\ inv.fails = 0 /\ todo \in {<<"writeMarker">>, <<>>})
              => table = inv.ips

OffPoint ==
    inv.verb = "off" =>
        /\ todo \in {<<"delTable", "rmScript", "rmMarker">>,
                     <<"rmScript", "rmMarker">>, <<"rmScript">>,
                     <<"rmMarker">>, <<>>}
        /\ offed /\ ~locked
        /\ (inv.fails = 0 /\ todo # <<"delTable", "rmScript", "rmMarker">>)
              => table = None /\ todo # <<"rmScript">>
        /\ (inv.fails = 0 /\ todo \in {<<"rmMarker">>, <<>>}) => script = None
        /\ (inv.fails = 0 /\ todo = <<>>) => ~marker

\* Only a running verb has commands left.
Idle == /\ ~inv.busy => todo = <<>>
        /\ inv.verb = "none" => ~inv.busy

\* The inductive invariant.
LockdownInv == /\ TypeOK /\ Idle /\ OnPoint /\ RefreshPoint /\ OffPoint
               /\ LockdownHolds /\ TablePersists /\ SplitExcluded

\* What is left of a program after its next command.
LEMMA Programs ==
    /\ \A a, b, c, d : /\ Head(<<a, b, c, d>>) = a
                       /\ Tail(<<a, b, c, d>>) = <<b, c, d>>
                       /\ <<a, b, c, d>> # <<>>
    /\ \A a, b, c : /\ Head(<<a, b, c>>) = a /\ Tail(<<a, b, c>>) = <<b, c>>
                    /\ <<a, b, c>> # <<>>
    /\ \A a, b : /\ Head(<<a, b>>) = a /\ Tail(<<a, b>>) = <<b>>
                 /\ <<a, b>> # <<>>
    /\ \A a : Head(<<a>>) = a /\ Tail(<<a>>) = <<>> /\ <<a>> # <<>>
OBVIOUS

\* The programs are programs.
LEMMA Typed == /\ <<>> \in Seq(Commands)
               /\ OnProgram \in Seq(Commands)
               /\ OffProgram \in Seq(Commands)
               /\ RefreshProgram \in Seq(Commands)
               /\ <<"rmScript">> \in Seq(Commands)
<1>1. \A a, b, c, d \in Commands :
         /\ <<>> \in Seq(Commands)
         /\ <<a>> \in Seq(Commands)
         /\ <<a, b, c>> \in Seq(Commands)
         /\ <<a, b, c, d>> \in Seq(Commands)
  OBVIOUS
<1>2. {"writeScript", "nft", "writeMarker", "list",
       "delTable", "rmScript", "rmMarker"} = Commands
  BY DEF Commands
<1>3. /\ "writeScript" \in Commands /\ "nft" \in Commands
      /\ "writeMarker" \in Commands /\ "list" \in Commands
      /\ "delTable" \in Commands /\ "rmScript" \in Commands
      /\ "rmMarker" \in Commands
  BY <1>2
<1>4. OnProgram \in Seq(Commands) /\ OffProgram \in Seq(Commands)
  BY <1>1, <1>3, Zenon DEF OnProgram, OffProgram
<1>5. RefreshProgram \in Seq(Commands)
  <2>1. RefreshProgram \in {<<>>, <<"writeScript", "list", "nft", "writeMarker">>}
    BY DEF RefreshProgram
  <2>2. <<"writeScript", "list", "nft", "writeMarker">> \in Seq(Commands)
    BY <1>1, <1>3, Zenon
  <2>3. <<>> \in Seq(Commands)
    OBVIOUS
  <2> QED BY <2>1, <2>2, <2>3, Zenon
<1> QED BY <1>1, <1>3, <1>4, <1>5

\* A fault is counted.
LEMMA SpendType ==
    ASSUME TypeOK, NEW k \in Faults, Spend(k)
    PROVE  budget' \in [Faults -> Nat]
BY DEF TypeOK, Spend

\* Initially.
LEMMA LockdownInit == Init => LockdownInv
<1> SUFFICES ASSUME Init PROVE LockdownInv
  OBVIOUS
<1>1. TypeOK
  BY LockdownAssumption, Typed DEF Init, TypeOK, Invocation
<1> QED BY <1>1, Programs DEF Init, LockdownInv, Idle, OnPoint, RefreshPoint,
                              OffPoint, LockdownHolds, TablePersists,
                              SplitExcluded

\* The start of on.
LEMMA OnStep == LockdownInv /\ On => LockdownInv'
<1> SUFFICES ASSUME LockdownInv, On PROVE LockdownInv'
  OBVIOUS
<1>1. TypeOK /\ TypeOK'
  BY LockdownAssumption, Typed
     DEF On, Start, host, LockdownInv, TypeOK, Invocation
<1>2. Idle' /\ OnPoint' /\ RefreshPoint' /\ OffPoint'
  BY <1>1, Programs
     DEF On, Start, OnProgram, host, TypeOK, Invocation, LockdownInv, Idle,
         OnPoint, RefreshPoint, OffPoint, LockdownHolds, TablePersists,
         SplitExcluded
<1>3. LockdownHolds' /\ TablePersists' /\ SplitExcluded'
  BY <1>1 DEF On, Start, host, TypeOK, Invocation, LockdownInv, Idle, OnPoint,
              RefreshPoint, OffPoint, LockdownHolds, TablePersists,
              SplitExcluded
<1> QED BY <1>1, <1>2, <1>3 DEF LockdownInv

\* The start of off.
LEMMA OffStep == LockdownInv /\ Off => LockdownInv'
<1> SUFFICES ASSUME LockdownInv, Off PROVE LockdownInv'
  OBVIOUS
<1>1. TypeOK /\ TypeOK'
  BY LockdownAssumption, Typed
     DEF Off, Start, host, LockdownInv, TypeOK, Invocation
<1>2. Idle' /\ OnPoint' /\ RefreshPoint' /\ OffPoint'
  BY <1>1, Programs
     DEF Off, Start, OffProgram, host, TypeOK, Invocation, LockdownInv, Idle,
         OnPoint, RefreshPoint, OffPoint, LockdownHolds, TablePersists,
         SplitExcluded
<1>3. LockdownHolds' /\ TablePersists' /\ SplitExcluded'
  BY <1>1 DEF Off, Start, host, TypeOK, Invocation, LockdownInv, Idle,
              OnPoint, RefreshPoint, OffPoint, LockdownHolds, TablePersists,
              SplitExcluded
<1> QED BY <1>1, <1>2, <1>3 DEF LockdownInv

\* The start of refresh.
LEMMA RefreshStep == LockdownInv /\ Refresh => LockdownInv'
<1> SUFFICES ASSUME LockdownInv, Refresh PROVE LockdownInv'
  OBVIOUS
<1>1. TypeOK /\ TypeOK'
  BY LockdownAssumption, Typed
     DEF Refresh, Start, host, LockdownInv, TypeOK, Invocation
<1>2. Idle' /\ OnPoint' /\ RefreshPoint' /\ OffPoint'
  BY <1>1, Programs
     DEF Refresh, Start, RefreshProgram, host, TypeOK, Invocation,
         LockdownInv, Idle, OnPoint, RefreshPoint, OffPoint, LockdownHolds,
         TablePersists, SplitExcluded
<1>3. LockdownHolds' /\ TablePersists' /\ SplitExcluded'
  BY <1>1 DEF Refresh, Start, host, TypeOK, Invocation, LockdownInv, Idle,
              OnPoint, RefreshPoint, OffPoint, LockdownHolds, TablePersists,
              SplitExcluded
<1> QED BY <1>1, <1>2, <1>3 DEF LockdownInv

\* The verb returns.
LEMMA ReturnStep == LockdownInv /\ Return => LockdownInv'
<1> SUFFICES ASSUME LockdownInv, Return PROVE LockdownInv'
  OBVIOUS
<1>1. TypeOK /\ TypeOK'
  BY LockdownAssumption, Typed
     DEF Return, host, LockdownInv, TypeOK, Invocation
<1>2. Idle' /\ OnPoint' /\ RefreshPoint' /\ OffPoint'
  BY <1>1, Programs
     DEF Return, host, TypeOK, Invocation, LockdownInv, Idle, OnPoint,
         RefreshPoint, OffPoint, LockdownHolds, TablePersists, SplitExcluded
<1>3. LockdownHolds' /\ TablePersists' /\ SplitExcluded'
  BY <1>1 DEF Return, host, TypeOK, Invocation, LockdownInv, Idle, OnPoint,
              RefreshPoint, OffPoint, LockdownHolds, TablePersists,
              SplitExcluded
<1> QED BY <1>1, <1>2, <1>3 DEF LockdownInv

\* Another relay list.
LEMMA SaveRelaysStep == LockdownInv /\ SaveRelays => LockdownInv'
<1> SUFFICES ASSUME LockdownInv, SaveRelays PROVE LockdownInv'
  OBVIOUS
<1>1. TypeOK /\ TypeOK'
  BY LockdownAssumption, Typed
     DEF SaveRelays, LockdownInv, TypeOK, Invocation
<1>2. Idle' /\ OnPoint' /\ RefreshPoint' /\ OffPoint'
  BY <1>1, Programs
     DEF SaveRelays, TypeOK, Invocation, LockdownInv, Idle, OnPoint,
         RefreshPoint, OffPoint, LockdownHolds, TablePersists, SplitExcluded
<1>3. LockdownHolds' /\ TablePersists' /\ SplitExcluded'
  BY <1>1 DEF SaveRelays, TypeOK, Invocation, LockdownInv, Idle, OnPoint,
              RefreshPoint, OffPoint, LockdownHolds, TablePersists,
              SplitExcluded
<1> QED BY <1>1, <1>2, <1>3 DEF LockdownInv

\* connect --split asks active.
LEMMA ConnectSplitStep == LockdownInv /\ ConnectSplit => LockdownInv'
<1> SUFFICES ASSUME LockdownInv, ConnectSplit PROVE LockdownInv'
  OBVIOUS
<1>1. TypeOK /\ TypeOK'
  <2>1. TypeOK
    BY DEF LockdownInv
  <2>2. budget' \in [Faults -> Nat] /\ blind' \in BOOLEAN
    BY <2>1, SpendType DEF ConnectSplit, Faults, TypeOK
  <2> QED BY <2>1, <2>2 DEF ConnectSplit, TypeOK
<1>2. Idle' /\ OnPoint' /\ RefreshPoint' /\ OffPoint'
  BY <1>1, Programs
     DEF ConnectSplit, Spend, Faults, Active, Present, TypeOK, Invocation,
         LockdownInv, Idle, OnPoint, RefreshPoint, OffPoint, LockdownHolds,
         TablePersists, SplitExcluded
<1>3. LockdownHolds' /\ TablePersists' /\ SplitExcluded'
  BY <1>1 DEF ConnectSplit, Spend, Faults, Active, Present, TypeOK,
              Invocation, LockdownInv, Idle, OnPoint, RefreshPoint, OffPoint,
              LockdownHolds, TablePersists, SplitExcluded
<1> QED BY <1>1, <1>2, <1>3 DEF LockdownInv

\* The end of split mode.
LEMMA DisconnectStep == LockdownInv /\ Disconnect => LockdownInv'
<1> SUFFICES ASSUME LockdownInv, Disconnect PROVE LockdownInv'
  OBVIOUS
<1>1. TypeOK /\ TypeOK'
  BY LockdownAssumption, Typed
     DEF Disconnect, LockdownInv, TypeOK, Invocation
<1>2. Idle' /\ OnPoint' /\ RefreshPoint' /\ OffPoint'
  BY <1>1, Programs
     DEF Disconnect, TypeOK, Invocation, LockdownInv, Idle, OnPoint,
         RefreshPoint, OffPoint, LockdownHolds, TablePersists, SplitExcluded
<1>3. LockdownHolds' /\ TablePersists' /\ SplitExcluded'
  BY <1>1 DEF Disconnect, TypeOK, Invocation, LockdownInv, Idle, OnPoint,
              RefreshPoint, OffPoint, LockdownHolds, TablePersists,
              SplitExcluded
<1> QED BY <1>1, <1>2, <1>3 DEF LockdownInv

\* A kill at any point.
LEMMA CrashStep == LockdownInv /\ Crash => LockdownInv'
<1> SUFFICES ASSUME LockdownInv, Crash PROVE LockdownInv'
  OBVIOUS
<1>1. TypeOK /\ TypeOK'
  <2>1. TypeOK
    BY DEF LockdownInv
  <2>2. budget' \in [Faults -> Nat]
    BY <2>1, SpendType DEF Crash, Faults
  <2>3. inv' \in Invocation /\ inv'.verb = "none"
    BY <2>1 DEF Crash, TypeOK, Invocation
  <2> QED BY <2>1, <2>2, <2>3, Typed DEF Crash, TypeOK, host
<1>2. Idle' /\ OnPoint' /\ RefreshPoint' /\ OffPoint'
  BY <1>1, Programs
     DEF Crash, Spend, Faults, host, TypeOK, Invocation, LockdownInv, Idle,
         OnPoint, RefreshPoint, OffPoint, LockdownHolds, TablePersists,
         SplitExcluded
<1>3. LockdownHolds' /\ TablePersists' /\ SplitExcluded'
  BY <1>1 DEF Crash, Spend, Faults, host, TypeOK, Invocation, LockdownInv,
              Idle, OnPoint, RefreshPoint, OffPoint, LockdownHolds,
              TablePersists, SplitExcluded
<1> QED BY <1>1, <1>2, <1>3 DEF LockdownInv

\* A boot at any point.
LEMMA BootStep == LockdownInv /\ Boot => LockdownInv'
<1> SUFFICES ASSUME LockdownInv, Boot PROVE LockdownInv'
  OBVIOUS
<1>1. TypeOK /\ TypeOK'
  <2>1. TypeOK
    BY DEF LockdownInv
  <2>2. budget' \in [Faults -> Nat]
    BY <2>1, SpendType DEF Boot, Faults
  <2>3. inv' \in Invocation /\ inv'.verb = "none"
    BY <2>1 DEF Boot, TypeOK, Invocation
  <2> QED BY <2>1, <2>2, <2>3, Typed DEF Boot, TypeOK
<1>2. Idle' /\ OnPoint' /\ RefreshPoint' /\ OffPoint'
  BY <1>1, Programs
     DEF Boot, Spend, Faults, TypeOK, Invocation, LockdownInv, Idle, OnPoint,
         RefreshPoint, OffPoint, LockdownHolds, TablePersists, SplitExcluded
<1>3. LockdownHolds' /\ TablePersists' /\ SplitExcluded'
  BY <1>1 DEF Boot, Spend, Faults, TypeOK, Invocation, LockdownInv, Idle,
              OnPoint, RefreshPoint, OffPoint, LockdownHolds, TablePersists,
              SplitExcluded
<1> QED BY <1>1, <1>2, <1>3 DEF LockdownInv

\* A verb with commands left is at one of the points of its program.
LEMMA Points ==
    ASSUME LockdownInv, todo # <<>>
    PROVE  /\ inv.busy
           /\ \/ /\ inv.verb = "on"
                 /\ todo \in {<<"writeScript", "nft", "writeMarker">>,
                             <<"nft", "writeMarker">>, <<"writeMarker">>}
              \/ /\ inv.verb = "refresh"
                 /\ todo \in {<<"writeScript", "list", "nft", "writeMarker">>,
                             <<"list", "nft", "writeMarker">>,
                             <<"nft", "writeMarker">>, <<"writeMarker">>}
              \/ /\ inv.verb = "off"
                 /\ todo \in {<<"delTable", "rmScript", "rmMarker">>,
                             <<"rmScript", "rmMarker">>, <<"rmScript">>, <<"rmMarker">>}
BY DEF LockdownInv, Idle, OnPoint, RefreshPoint, OffPoint, TypeOK, Invocation

\* A command that succeeds keeps the invariant at every point.
LEMMA ExecStep == LockdownInv /\ Exec => LockdownInv'
<1> SUFFICES ASSUME LockdownInv, Exec PROVE LockdownInv'
  OBVIOUS
<1>1. TypeOK /\ TypeOK'
  <2>1. TypeOK /\ todo # <<>>
    BY DEF LockdownInv, Exec
  <2>2. todo' \in Seq(Commands)
    <3>1. Tail(todo) \in Seq(Commands)
      BY <2>1 DEF TypeOK
    <3> QED BY <3>1, Typed DEF Exec
  <2>3. inv.ips \in Lists \cup {None}
    BY <2>1 DEF TypeOK, Invocation
  <2> QED BY <2>1, <2>2, <2>3 DEF Exec, TypeOK
<1>2. CASE inv.verb = "on" /\ todo = <<"writeScript", "nft", "writeMarker">>
  <2>1. Head(todo) = "writeScript" /\ todo' = <<"nft", "writeMarker">>
    BY <1>2, Programs DEF Exec, Present
  <2>2. script' = inv.ips /\ table' = table
    BY <2>1 DEF Exec
  <2>3. UNCHANGED <<cache, split, inv, locked, offed, blind>>
    BY DEF Exec
  <2> QED BY <1>2, <1>1, <2>1, <2>2, <2>3, Programs
          DEF TypeOK, Invocation, LockdownInv, Idle, OnPoint, RefreshPoint,
              OffPoint, LockdownHolds, TablePersists, SplitExcluded
<1>3. CASE inv.verb = "on" /\ todo = <<"nft", "writeMarker">>
  <2>1. Head(todo) = "nft" /\ todo' = <<"writeMarker">>
    BY <1>3, Programs DEF Exec, Present
  <2>2. script' = script /\ table' = inv.ips
    BY <2>1 DEF Exec
  <2>3. UNCHANGED <<cache, split, inv, locked, offed, blind>>
    BY DEF Exec
  <2> QED BY <1>3, <1>1, <2>1, <2>2, <2>3, Programs
          DEF TypeOK, Invocation, LockdownInv, Idle, OnPoint, RefreshPoint,
              OffPoint, LockdownHolds, TablePersists, SplitExcluded
<1>4. CASE inv.verb = "on" /\ todo = <<"writeMarker">>
  <2>1. Head(todo) = "writeMarker" /\ todo' = <<>>
    BY <1>4, Programs DEF Exec, Present
  <2>2. script' = script /\ table' = table
    BY <2>1 DEF Exec
  <2>3. UNCHANGED <<cache, split, inv, locked, offed, blind>>
    BY DEF Exec
  <2> QED BY <1>4, <1>1, <2>1, <2>2, <2>3, Programs
          DEF TypeOK, Invocation, LockdownInv, Idle, OnPoint, RefreshPoint,
              OffPoint, LockdownHolds, TablePersists, SplitExcluded
<1>5. CASE inv.verb = "refresh" /\ todo = <<"writeScript", "list", "nft", "writeMarker">>
  <2>1. Head(todo) = "writeScript" /\ todo' = <<"list", "nft", "writeMarker">>
    BY <1>5, Programs DEF Exec, Present
  <2>2. script' = inv.ips /\ table' = table
    BY <2>1 DEF Exec
  <2>3. UNCHANGED <<cache, split, inv, locked, offed, blind>>
    BY DEF Exec
  <2> QED BY <1>5, <1>1, <2>1, <2>2, <2>3, Programs
          DEF TypeOK, Invocation, LockdownInv, Idle, OnPoint, RefreshPoint,
              OffPoint, LockdownHolds, TablePersists, SplitExcluded
<1>6. CASE inv.verb = "refresh" /\ todo = <<"list", "nft", "writeMarker">>
  <2>1. Head(todo) = "list" /\ todo' = (IF table # None THEN <<"nft", "writeMarker">> ELSE <<>>)
    BY <1>6, Programs DEF Exec, Present
  <2>2. script' = script /\ table' = table
    BY <2>1 DEF Exec
  <2>3. UNCHANGED <<cache, split, inv, locked, offed, blind>>
    BY DEF Exec
  <2> QED BY <1>6, <1>1, <2>1, <2>2, <2>3, Programs
          DEF TypeOK, Invocation, LockdownInv, Idle, OnPoint, RefreshPoint,
              OffPoint, LockdownHolds, TablePersists, SplitExcluded
<1>7. CASE inv.verb = "refresh" /\ todo = <<"nft", "writeMarker">>
  <2>1. Head(todo) = "nft" /\ todo' = <<"writeMarker">>
    BY <1>7, Programs DEF Exec, Present
  <2>2. script' = script /\ table' = inv.ips
    BY <2>1 DEF Exec
  <2>3. UNCHANGED <<cache, split, inv, locked, offed, blind>>
    BY DEF Exec
  <2> QED BY <1>7, <1>1, <2>1, <2>2, <2>3, Programs
          DEF TypeOK, Invocation, LockdownInv, Idle, OnPoint, RefreshPoint,
              OffPoint, LockdownHolds, TablePersists, SplitExcluded
<1>8. CASE inv.verb = "refresh" /\ todo = <<"writeMarker">>
  <2>1. Head(todo) = "writeMarker" /\ todo' = <<>>
    BY <1>8, Programs DEF Exec, Present
  <2>2. script' = script /\ table' = table
    BY <2>1 DEF Exec
  <2>3. UNCHANGED <<cache, split, inv, locked, offed, blind>>
    BY DEF Exec
  <2> QED BY <1>8, <1>1, <2>1, <2>2, <2>3, Programs
          DEF TypeOK, Invocation, LockdownInv, Idle, OnPoint, RefreshPoint,
              OffPoint, LockdownHolds, TablePersists, SplitExcluded
<1>9. CASE inv.verb = "off" /\ todo = <<"delTable", "rmScript", "rmMarker">>
  <2>1. Head(todo) = "delTable" /\ todo' = <<"rmScript", "rmMarker">>
    BY <1>9, Programs DEF Exec, Present
  <2>2. script' = script /\ table' = None
    BY <2>1 DEF Exec
  <2>3. UNCHANGED <<cache, split, inv, locked, offed, blind>>
    BY DEF Exec
  <2> QED BY <1>9, <1>1, <2>1, <2>2, <2>3, Programs
          DEF TypeOK, Invocation, LockdownInv, Idle, OnPoint, RefreshPoint,
              OffPoint, LockdownHolds, TablePersists, SplitExcluded
<1>10. CASE inv.verb = "off" /\ todo = <<"rmScript", "rmMarker">>
  <2>1. Head(todo) = "rmScript" /\ todo' = <<"rmMarker">>
    BY <1>10, Programs DEF Exec, Present
  <2>2. script' = None /\ table' = table
    BY <2>1 DEF Exec
  <2>3. UNCHANGED <<cache, split, inv, locked, offed, blind>>
    BY DEF Exec
  <2> QED BY <1>10, <1>1, <2>1, <2>2, <2>3, Programs
          DEF TypeOK, Invocation, LockdownInv, Idle, OnPoint, RefreshPoint,
              OffPoint, LockdownHolds, TablePersists, SplitExcluded
<1>11. CASE inv.verb = "off" /\ todo = <<"rmScript">>
  <2>1. Head(todo) = "rmScript" /\ todo' = <<>>
    BY <1>11, Programs DEF Exec, Present
  <2>2. script' = None /\ table' = table
    BY <2>1 DEF Exec
  <2>3. UNCHANGED <<cache, split, inv, locked, offed, blind>>
    BY DEF Exec
  <2> QED BY <1>11, <1>1, <2>1, <2>2, <2>3, Programs
          DEF TypeOK, Invocation, LockdownInv, Idle, OnPoint, RefreshPoint,
              OffPoint, LockdownHolds, TablePersists, SplitExcluded
<1>12. CASE inv.verb = "off" /\ todo = <<"rmMarker">>
  <2>1. Head(todo) = "rmMarker" /\ todo' = <<>>
    BY <1>12, Programs DEF Exec, Present
  <2>2. script' = script /\ table' = table /\ ~marker'
    BY <2>1 DEF Exec
  <2>3. UNCHANGED <<cache, split, inv, locked, offed, blind>>
    BY DEF Exec
  <2> QED BY <1>12, <1>1, <2>1, <2>2, <2>3, Programs
          DEF TypeOK, Invocation, LockdownInv, Idle, OnPoint, RefreshPoint,
              OffPoint, LockdownHolds, TablePersists, SplitExcluded
<1> QED
  <2>1. todo # <<>>
    BY DEF Exec
  <2> QED BY <2>1, Points, <1>2, <1>3, <1>4, <1>5, <1>6, <1>7,
             <1>8, <1>9, <1>10, <1>11, <1>12

\* A command that fails keeps the invariant at every point.
LEMMA CommandFailsStep == LockdownInv /\ CommandFails => LockdownInv'
<1> SUFFICES ASSUME LockdownInv, CommandFails PROVE LockdownInv'
  OBVIOUS
<1>1. /\ TypeOK /\ TypeOK'
      /\ inv'.verb = inv.verb /\ inv'.busy = inv.busy /\ inv'.ips = inv.ips
      /\ inv'.fails # 0
      /\ inv'.ok => Head(todo) \in {"writeMarker", "rmMarker", "list"} /\ inv.ok
  <2>1. TypeOK /\ todo # <<>>
    BY DEF LockdownInv, CommandFails
  <2>2. todo' \in Seq(Commands)
    <3>1. Tail(todo) \in Seq(Commands)
      BY <2>1 DEF TypeOK
    <3> QED BY <3>1, Typed DEF CommandFails
  <2>3. budget' \in [Faults -> Nat]
    BY <2>1, SpendType DEF CommandFails, Faults
  <2>4. /\ inv' \in Invocation
        /\ inv'.verb = inv.verb /\ inv'.busy = inv.busy /\ inv'.ips = inv.ips
        /\ inv'.fails # 0
        /\ inv'.ok => Head(todo) \in {"writeMarker", "rmMarker", "list"} /\ inv.ok
    <3> DEFINE e == inv.ok /\ Head(todo) \in {"writeMarker", "rmMarker",
            "list"}
    <3>1. inv \in Invocation
      BY <2>1 DEF TypeOK
    <3>2. inv' = [inv EXCEPT !.fails = inv.fails + 1, !.ok = e]
      BY DEF CommandFails
    <3>3. e \in BOOLEAN /\ inv.fails + 1 \in Nat
      BY <3>1 DEF Invocation
    <3>4. e => Head(todo) \in {"writeMarker", "rmMarker", "list"} /\ inv.ok
      OBVIOUS
    <3> HIDE DEF e
    <3>5. /\ inv' \in Invocation /\ inv'.ok = e /\ inv'.fails = inv.fails + 1
          /\ inv'.verb = inv.verb /\ inv'.busy = inv.busy /\ inv'.ips = inv.ips
      BY <3>1, <3>2, <3>3 DEF Invocation
    <3>6. inv.fails + 1 # 0
      BY <3>1 DEF Invocation
    <3> QED BY <3>4, <3>5, <3>6
  <2>5. TypeOK'
    BY <2>1, <2>2, <2>3, <2>4 DEF CommandFails, TypeOK, host
  <2> QED BY <2>1, <2>4, <2>5
<1>u. UNCHANGED <<table, script, marker, cache, split, locked, offed, blind>>
  BY DEF CommandFails, host
<1>2. CASE inv.verb = "on" /\ todo = <<"writeScript", "nft", "writeMarker">>
  <2>1. Head(todo) = "writeScript" /\ todo' = <<>>
    BY <1>2, Programs DEF CommandFails
  <2> QED BY <1>2, <1>1, <1>u, <2>1, Programs
          DEF TypeOK, Invocation, LockdownInv, Idle, OnPoint, RefreshPoint,
              OffPoint, LockdownHolds, TablePersists, SplitExcluded
<1>3. CASE inv.verb = "on" /\ todo = <<"nft", "writeMarker">>
  <2>1. Head(todo) = "nft" /\ todo' = <<>>
    BY <1>3, Programs DEF CommandFails
  <2> QED BY <1>3, <1>1, <1>u, <2>1, Programs
          DEF TypeOK, Invocation, LockdownInv, Idle, OnPoint, RefreshPoint,
              OffPoint, LockdownHolds, TablePersists, SplitExcluded
<1>4. CASE inv.verb = "on" /\ todo = <<"writeMarker">>
  <2>1. Head(todo) = "writeMarker" /\ todo' = <<>>
    BY <1>4, Programs DEF CommandFails
  <2> QED BY <1>4, <1>1, <1>u, <2>1, Programs
          DEF TypeOK, Invocation, LockdownInv, Idle, OnPoint, RefreshPoint,
              OffPoint, LockdownHolds, TablePersists, SplitExcluded
<1>5. CASE inv.verb = "refresh" /\ todo = <<"writeScript", "list", "nft", "writeMarker">>
  <2>1. Head(todo) = "writeScript" /\ todo' = <<>>
    BY <1>5, Programs DEF CommandFails
  <2> QED BY <1>5, <1>1, <1>u, <2>1, Programs
          DEF TypeOK, Invocation, LockdownInv, Idle, OnPoint, RefreshPoint,
              OffPoint, LockdownHolds, TablePersists, SplitExcluded
<1>6. CASE inv.verb = "refresh" /\ todo = <<"list", "nft", "writeMarker">>
  <2>1. Head(todo) = "list" /\ todo' = <<>>
    BY <1>6, Programs DEF CommandFails
  <2> QED BY <1>6, <1>1, <1>u, <2>1, Programs
          DEF TypeOK, Invocation, LockdownInv, Idle, OnPoint, RefreshPoint,
              OffPoint, LockdownHolds, TablePersists, SplitExcluded
<1>7. CASE inv.verb = "refresh" /\ todo = <<"nft", "writeMarker">>
  <2>1. Head(todo) = "nft" /\ todo' = <<>>
    BY <1>7, Programs DEF CommandFails
  <2> QED BY <1>7, <1>1, <1>u, <2>1, Programs
          DEF TypeOK, Invocation, LockdownInv, Idle, OnPoint, RefreshPoint,
              OffPoint, LockdownHolds, TablePersists, SplitExcluded
<1>8. CASE inv.verb = "refresh" /\ todo = <<"writeMarker">>
  <2>1. Head(todo) = "writeMarker" /\ todo' = <<>>
    BY <1>8, Programs DEF CommandFails
  <2> QED BY <1>8, <1>1, <1>u, <2>1, Programs
          DEF TypeOK, Invocation, LockdownInv, Idle, OnPoint, RefreshPoint,
              OffPoint, LockdownHolds, TablePersists, SplitExcluded
<1>9. CASE inv.verb = "off" /\ todo = <<"delTable", "rmScript", "rmMarker">>
  <2>1. Head(todo) = "delTable" /\ todo' = <<"rmScript">>
    BY <1>9, Programs DEF CommandFails
  <2> QED BY <1>9, <1>1, <1>u, <2>1, Programs
          DEF TypeOK, Invocation, LockdownInv, Idle, OnPoint, RefreshPoint,
              OffPoint, LockdownHolds, TablePersists, SplitExcluded
<1>10. CASE inv.verb = "off" /\ todo = <<"rmScript", "rmMarker">>
  <2>1. Head(todo) = "rmScript" /\ todo' = <<"rmMarker">>
    BY <1>10, Programs DEF CommandFails
  <2> QED BY <1>10, <1>1, <1>u, <2>1, Programs
          DEF TypeOK, Invocation, LockdownInv, Idle, OnPoint, RefreshPoint,
              OffPoint, LockdownHolds, TablePersists, SplitExcluded
<1>11. CASE inv.verb = "off" /\ todo = <<"rmScript">>
  <2>1. Head(todo) = "rmScript" /\ todo' = <<>>
    BY <1>11, Programs DEF CommandFails
  <2> QED BY <1>11, <1>1, <1>u, <2>1, Programs
          DEF TypeOK, Invocation, LockdownInv, Idle, OnPoint, RefreshPoint,
              OffPoint, LockdownHolds, TablePersists, SplitExcluded
<1>12. CASE inv.verb = "off" /\ todo = <<"rmMarker">>
  <2>1. Head(todo) = "rmMarker" /\ todo' = <<>>
    BY <1>12, Programs DEF CommandFails
  <2> QED BY <1>12, <1>1, <1>u, <2>1, Programs
          DEF TypeOK, Invocation, LockdownInv, Idle, OnPoint, RefreshPoint,
              OffPoint, LockdownHolds, TablePersists, SplitExcluded
<1> QED
  <2>1. todo # <<>>
    BY DEF CommandFails
  <2> QED BY <2>1, Points, <1>2, <1>3, <1>4, <1>5, <1>6, <1>7,
             <1>8, <1>9, <1>10, <1>11, <1>12

\* Every step keeps the invariant.
LEMMA LockdownNext == LockdownInv /\ [Next]_vars => LockdownInv'
<1> SUFFICES ASSUME LockdownInv, [Next]_vars PROVE LockdownInv'
  OBVIOUS
<1>1. CASE UNCHANGED vars
  BY <1>1 DEF vars, host, LockdownInv, TypeOK, Idle, OnPoint, RefreshPoint,
              OffPoint, LockdownHolds, TablePersists, SplitExcluded
<1> QED BY <1>1, OnStep, OffStep, RefreshStep, ExecStep, CommandFailsStep,
           ReturnStep, SaveRelaysStep, ConnectSplitStep, DisconnectStep,
           CrashStep, BootStep DEF Next

LEMMA LockdownAlways == Spec => []LockdownInv
BY LockdownInit, LockdownNext, PTL DEF Spec

\* For any allow-lists and any number of failures, kills and boots: a
\* lockdown that was switched on stands, and the next boot brings it back,
\* until an `off` begins (on, off and refresh of lockdown_linux.go).
THEOREM LockdownSafe == Spec => [](TypeOK /\ LockdownHolds)
BY LockdownAlways, PTL DEF LockdownInv

\* A table in the kernel has the boot script that installs it again unless
\* an `off` was begun: no boot loses what an `on` or `refresh` installed, even
\* one that was killed (both write the script first).
THEOREM BootKeepsTable == Spec => []TablePersists
BY LockdownAlways, PTL DEF LockdownInv

\* Split mode and a lockdown never stand together, also after a boot that
\* brought the table back without its marker (active asks the kernel too),
\* unless connect --split could not ask nft.
THEOREM SplitStaysOut == Spec => []SplitExcluded
BY LockdownAlways, PTL DEF LockdownInv

\* An `off` in which nothing fails leaves neither table nor script nor
\* marker, whatever failed, was killed or rebooted before it.
THEOREM OffLeavesNothing == Spec => []OffCleans
<1>1. LockdownInv => OffCleans
  BY Programs DEF LockdownInv, Idle, OffPoint, OffCleans
<1> QED BY <1>1, LockdownAlways, PTL

\* A `refresh` of a lockdown in which nothing fails puts the new allow-list
\* into the kernel and into the boot script.
THEOREM RefreshReaches == Spec => []RefreshTakes
<1>1. LockdownInv => RefreshTakes
  BY DEF LockdownInv, Idle, RefreshPoint, RefreshTakes
<1> QED BY <1>1, LockdownAlways, PTL
=============================================================================
