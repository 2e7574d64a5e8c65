---------------------------- MODULE SessionProofs ----------------------------
(* Proofs about module Session.                                            *)
EXTENDS Session, SequenceTheorems, TLAPS

\* The commands a sequence holds.
Elems(s) == {s[i] : i \in 1..Len(s)}

-----------------------------------------------------------------------------
(* Sequences of commands.                                                  *)

LEMMA ElemsEmpty == Elems(<<>>) = {}
BY DEF Elems

LEMMA ElemsTuple1 == ASSUME NEW a PROVE Elems(<<a>>) = {a}
BY DEF Elems

LEMMA ElemsConcat ==
    ASSUME NEW S, NEW s \in Seq(S), NEW t \in Seq(S)
    PROVE  Elems(s \o t) = Elems(s) \cup Elems(t)
<1>1. ASSUME NEW x \in Elems(s \o t) PROVE x \in Elems(s) \cup Elems(t)
  <2>1. PICK i \in 1..(Len(s) + Len(t)) : x = (s \o t)[i]
    BY <1>1 DEF Elems
  <2>2. CASE i <= Len(s)
    BY <2>1, <2>2 DEF Elems
  <2>3. CASE i > Len(s)
    <3>1. x = t[i - Len(s)] /\ i - Len(s) \in 1..Len(t)
      BY <2>1, <2>3
    <3> QED BY <3>1 DEF Elems
  <2> QED BY <2>1, <2>2, <2>3
<1>2. ASSUME NEW x \in Elems(s) PROVE x \in Elems(s \o t)
  <2>1. PICK i \in 1..Len(s) : x = s[i]
    BY <1>2 DEF Elems
  <2>2. i \in 1..Len(s \o t) /\ x = (s \o t)[i]
    BY <2>1
  <2> QED BY <2>2 DEF Elems
<1>3. ASSUME NEW x \in Elems(t) PROVE x \in Elems(s \o t)
  <2>1. PICK i \in 1..Len(t) : x = t[i]
    BY <1>3 DEF Elems
  <2>2. i + Len(s) \in 1..Len(s \o t) /\ x = (s \o t)[i + Len(s)]
    BY <2>1
  <2> QED BY <2>2 DEF Elems
<1> QED BY <1>1, <1>2, <1>3

LEMMA ElemsHeadTail ==
    ASSUME NEW S, NEW s \in Seq(S), s # <<>>
    PROVE  /\ Head(s) \in S
           /\ Tail(s) \in Seq(S)
           /\ Elems(s) = {Head(s)} \cup Elems(Tail(s))
<1>1. Head(s) \in S /\ Tail(s) \in Seq(S)
  OBVIOUS
<1>2. ASSUME NEW x \in Elems(s) PROVE x \in {Head(s)} \cup Elems(Tail(s))
  <2>1. PICK i \in 1..Len(s) : x = s[i]
    BY <1>2 DEF Elems
  <2>2. CASE i = 1
    BY <2>1, <2>2
  <2>3. CASE i # 1
    <3>1. i - 1 \in 1..Len(Tail(s)) /\ Tail(s)[i - 1] = s[i]
      BY <2>1, <2>3
    <3> QED BY <3>1, <2>1 DEF Elems
  <2> QED BY <2>2, <2>3
<1>3. Head(s) \in Elems(s)
  <2>1. 1 \in 1..Len(s) /\ Head(s) = s[1]
    OBVIOUS
  <2> QED BY <2>1 DEF Elems
<1>4. ASSUME NEW x \in Elems(Tail(s)) PROVE x \in Elems(s)
  <2>1. PICK i \in 1..Len(Tail(s)) : x = Tail(s)[i]
    BY <1>4 DEF Elems
  <2>2. i + 1 \in 1..Len(s) /\ x = s[i + 1]
    BY <2>1
  <2> QED BY <2>2 DEF Elems
<1> QED BY <1>1, <1>2, <1>3, <1>4

LEMMA SeqMonotone ==
    ASSUME NEW S, NEW T, S \subseteq T, NEW s \in Seq(S)
    PROVE  s \in Seq(T)
OBVIOUS

-----------------------------------------------------------------------------
(* The command sequences.                                                  *)

\* Commands that take away what holds the split set.
Strip == {"rm", "delNft", "del97", "del98", "del99", "flush", "gw"}

\* Commands that do not, and commands that are not split.up's or
\* split.down's at all.
Keep == {c \in Command : c.op \notin Strip}

Other == {c \in Command : c.op \notin SplitOps}

LEMMA OtherKeepCommand == Other \subseteq Keep /\ Keep \subseteq Command
BY DEF Other, Keep, Strip, SplitOps

LEMMA OtherOne ==
    ASSUME NEW op \in Ops, op \notin SplitOps, op \notin FamOps
    PROVE  One(op) \in Other
BY DEF One, Other, Command

LEMMA OtherCmd ==
    ASSUME NEW op \in Ops, op \notin SplitOps, NEW f \in Fam
    PROVE  Cmd(op, f) \in Other
BY DEF Cmd, Other, Command

LEMMA KeepOne ==
    ASSUME NEW op \in Ops, op \notin Strip, op \notin FamOps
    PROVE  One(op) \in Keep
BY DEF One, Keep, Command

LEMMA KeepCmd ==
    ASSUME NEW op \in Ops, op \notin Strip, NEW f \in Fam
    PROVE  Cmd(op, f) \in Keep
BY DEF Cmd, Keep, Command

LEMMA AnyOne ==
    ASSUME NEW op \in Ops, op \notin FamOps
    PROVE  One(op) \in Command
BY DEF One, Command

LEMMA AnyCmd ==
    ASSUME NEW op \in Ops, NEW f \in Fam
    PROVE  Cmd(op, f) \in Command
BY DEF Cmd, Command

\* The sequences without split commands.
LEMMA OtherPrograms ==
    /\ DnsRestore \in Seq(Other) /\ RouteUnset \in Seq(Other)
    /\ WgDown \in Seq(Other) /\ Teardown \in Seq(Other)
    /\ WgUp \in Seq(Other) /\ RouteSet \in Seq(Other)
    /\ DnsSet \in Seq(Other) /\ FirewallUndo \in Seq(Other)
    /\ <<One("config")>> \in Seq(Other) /\ <<One("dropAll")>> \in Seq(Other)
    /\ <<One("start")>> \in Seq(Other) /\ <<One("lan")>> \in Seq(Other)
    /\ <<One("unpin")>> \in Seq(Other) /\ <<One("undrop")>> \in Seq(Other)
    /\ <<One("mode")>> \in Seq(Other) /\ <<One("rmBackup")>> \in Seq(Other)
    /\ <<Cmd("undefault", "v4")>> \in Seq(Other)
<1>1. \A op \in {"unlan", "stop", "undrop", "restore", "revert", "unpin", "pin",
                 "linkDel", "linkAdd", "linkConf", "linkUp", "backup",
                 "resolv", "setLink", "config", "dropAll", "start", "lan",
                 "mode", "rmBackup"} :
            op \in Ops /\ op \notin SplitOps /\ op \notin FamOps
  BY DEF Ops, WgOps, RouteOps, DnsOps, FwOps, ShimOps, CfgOps, SplitOps, FamOps
<1>2. \A op \in {"unlan", "stop", "undrop", "restore", "revert", "unpin", "pin",
                 "linkDel", "linkAdd", "linkConf", "linkUp", "backup",
                 "resolv", "setLink", "config", "dropAll", "start", "lan",
                 "mode", "rmBackup"} : One(op) \in Other
  BY <1>1, OtherOne
<1>3. \A op \in {"default", "undefault"} : op \in Ops /\ op \notin SplitOps
  BY DEF Ops, RouteOps, SplitOps
<1>4. \A op \in {"default", "undefault"}, f \in {"v4", "v6"} :
            Cmd(op, f) \in Other
  BY <1>3, OtherCmd DEF Fam
<1>5. /\ DnsRestore \in Seq(Other) /\ RouteUnset \in Seq(Other)
      /\ WgDown \in Seq(Other)
  BY <1>2, <1>4 DEF DnsRestore, RouteUnset, WgDown
<1>6. <<One("unlan"), One("stop"), One("undrop")>> \in Seq(Other)
  BY <1>2
<1>7. Teardown \in Seq(Other) /\ FirewallUndo \in Seq(Other)
  BY <1>5, <1>6 DEF Teardown, FirewallUndo
<1>8. /\ WgUp \in Seq(Other) /\ RouteSet \in Seq(Other)
      /\ DnsSet \in Seq(Other)
  BY <1>2, <1>4 DEF WgUp, RouteSet, DnsSet
<1> QED BY <1>2, <1>4, <1>5, <1>7, <1>8

\* The sequences of split commands.
LEMMA SplitPrograms ==
    /\ StripSplit \in Seq(Command)
    /\ SplitUp(FALSE) \in Seq(Command)
    /\ SplitUp(TRUE) \in Seq(Keep)
    /\ <<One("save"), One("nft")>> \in Seq(Keep)
    /\ InstallRules \in Seq(Keep)
    /\ InstallTunnelRoutes \in Seq(Keep)
    /\ <<One("markOn")>> \in Seq(Keep)
    /\ <<Cmd("rule97", "v4"), Cmd("rule97", "v6"), Cmd("unreach", "v4"),
         Cmd("unreach", "v6"), Cmd("dev", "v4")>> \in Seq(Keep)
    /\ <<Cmd("dev", "v6")>> \in Seq(Keep)
<1>1. \A op \in {"save", "nft", "markOn"} :
            op \in Ops /\ op \notin Strip /\ op \notin FamOps
  BY DEF Ops, SplitOps, Strip, FamOps
<1>2. \A op \in {"save", "nft", "markOn"} : One(op) \in Keep
  BY <1>1, KeepOne
<1>3. \A op \in {"rule97", "rule98", "rule99", "unreach", "dev"} :
            op \in Ops /\ op \notin Strip
  BY DEF Ops, SplitOps, Strip
<1>4. \A op \in {"rule97", "rule98", "rule99", "unreach", "dev"} :
        \A f \in {"v4", "v6"} : Cmd(op, f) \in Keep
  BY <1>3, KeepCmd DEF Fam
<1>5. \A op \in {"del97", "del98", "del99", "flush", "delNft", "gw"} :
        \A f \in {"v4", "v6"} : Cmd(op, f) \in Command
  BY AnyCmd DEF Fam, Ops, SplitOps
<1>6. One("rm") \in Command /\ One("markOff") \in Command
  BY AnyOne DEF Ops, SplitOps, FamOps
<1>7. StripSplit \in Seq(Command)
  <2>1. DelRules \in Seq(Command)
    BY <1>5 DEF DelRules
  <2>2. DelRoutes \in Seq(Command) /\ NftDel \in Seq(Command)
    BY <1>5 DEF DelRoutes, NftDel
  <2>3. <<One("rm"), One("markOff")>> \in Seq(Command)
    BY <1>6
  <2> QED BY <2>1, <2>2, <2>3 DEF StripSplit
<1>8. /\ <<One("save"), One("nft")>> \in Seq(Keep)
      /\ InstallRules \in Seq(Keep)
      /\ <<One("markOn")>> \in Seq(Keep)
  BY <1>2, <1>4 DEF InstallRules
<1>0. /\ <<Cmd("rule97", "v4"), Cmd("rule97", "v6"), Cmd("unreach", "v4"),
           Cmd("unreach", "v6"), Cmd("dev", "v4")>> \in Seq(Keep)
      /\ <<Cmd("dev", "v6")>> \in Seq(Keep)
  BY <1>4
<1>9. InstallTunnelRoutes \in Seq(Keep)
  BY <1>0 DEF InstallTunnelRoutes
<1>10. InstallPlainRoutes \in Seq(Command)
  BY <1>5 DEF InstallPlainRoutes
<1>11. SplitUp(TRUE) \in Seq(Keep)
  BY <1>8, <1>9 DEF SplitUp
<1>12. /\ <<One("save"), One("nft")>> \in Seq(Command)
       /\ InstallRules \in Seq(Command)
       /\ <<One("markOn")>> \in Seq(Command)
  BY <1>8, SeqMonotone, OtherKeepCommand
<1>13. SplitUp(FALSE) \in Seq(Command)
  BY <1>10, <1>12 DEF SplitUp
<1> QED BY <1>0, <1>7, <1>8, <1>9, <1>11, <1>13

-----------------------------------------------------------------------------
(* Types.                                                                  *)

LEMMA LinkGoneType ==
    ASSUME HostTypeOK, LinkGone, UNCHANGED <<fw, shim, cfg>>
    PROVE  HostTypeOK'
<1>1. split' \in SplitState
  BY DEF HostTypeOK, LinkGone, SplitState, Table60, Fam
<1> QED BY <1>1 DEF HostTypeOK, LinkGone

LEMMA WgType ==
    ASSUME HostTypeOK, NEW c, WgCmd(c)
    PROVE  HostTypeOK'
BY LinkGoneType DEF HostTypeOK, WgCmd

LEMMA RouteType ==
    ASSUME HostTypeOK, NEW c \in Command, c.op \in RouteOps,
           NEW e \in Relays \cup {NoRelay}, RouteCmd(c, e)
    PROVE  HostTypeOK'
<1>1. route' \in [def : SUBSET Fam, pins : SUBSET Relays, lan : BOOLEAN]
  BY DEF HostTypeOK, RouteCmd, RouteOps, Command, FamOps
<1> QED BY <1>1 DEF HostTypeOK, RouteCmd

LEMMA DnsType ==
    ASSUME HostTypeOK, NEW c, c.op \in DnsOps, DnsCmd(c)
    PROVE  HostTypeOK'
BY DEF HostTypeOK, DnsCmd, DnsOps

LEMMA FwType ==
    ASSUME HostTypeOK, NEW c, NEW e \in Relays \cup {NoRelay}, FirewallCmd(c, e)
    PROVE  HostTypeOK'
BY DEF HostTypeOK, FirewallCmd

LEMMA ShimType ==
    ASSUME HostTypeOK, NEW c, ShimCmd(c)
    PROVE  HostTypeOK'
BY DEF HostTypeOK, ShimCmd

LEMMA CfgType ==
    ASSUME HostTypeOK, NEW c, NEW r \in Relays \cup {NoRelay}, NEW b \in BOOLEAN,
           NEW m \in BOOLEAN, ConfigCmd(c, r, b, m)
    PROVE  HostTypeOK'
BY DEF HostTypeOK, ConfigCmd

LEMMA SplitType ==
    ASSUME HostTypeOK, NEW c \in Command, c.op \in SplitOps,
           NEW b \in BOOLEAN, NEW p \in {0, 1}, SplitCmd(c, b, p)
    PROVE  HostTypeOK'
<1> SUFFICES split' \in SplitState
  BY DEF HostTypeOK, SplitCmd
<1>0. split \in SplitState
  BY DEF HostTypeOK
<1>1. c.op \in FamOps => c.fam \in Fam
  BY DEF Command
<1>2. CASE c.op = "save"
  <2>1. split' = [split EXCEPT !.file = [present |-> TRUE, Split |-> b, SrcValidMark |-> p]]
    BY <1>2 DEF SplitCmd
  <2> QED BY <1>0, <2>1 DEF SplitState, StateFile
<1>3. CASE c.op = "rm"
  <2>1. split' = [split EXCEPT !.file = NoState]
    BY <1>3 DEF SplitCmd
  <2> QED BY <1>0, <2>1 DEF SplitState, StateFile, NoState
<1>4. CASE c.op = "nft"
  <2>1. split' = [split EXCEPT !.nft = [g \in Fam |-> IF b THEN "tunnel" ELSE "plain"]]
    BY <1>4 DEF SplitCmd
  <2> QED BY <1>0, <2>1 DEF SplitState
<1>5. CASE c.op = "delNft"
  <2>1. split' = [split EXCEPT !.nft[c.fam] = "none"]
    BY <1>5 DEF SplitCmd
  <2>2. c.fam \in Fam
    BY <1>1, <1>5 DEF FamOps
  <2> QED BY <1>0, <2>1, <2>2 DEF SplitState
<1>6. CASE c.op = "rule97"
  <2>1. split' = [split EXCEPT !.rules = @ \cup {<<c.fam, 97>>}]
    BY <1>6 DEF SplitCmd
  <2>2. c.fam \in Fam
    BY <1>1, <1>6 DEF FamOps
  <2> QED BY <1>0, <2>1, <2>2 DEF SplitState, Pri
<1>7. CASE c.op = "rule98"
  <2>1. split' = [split EXCEPT !.rules = @ \cup {<<c.fam, 98>>}]
    BY <1>7 DEF SplitCmd
  <2>2. c.fam \in Fam
    BY <1>1, <1>7 DEF FamOps
  <2> QED BY <1>0, <2>1, <2>2 DEF SplitState, Pri
<1>8. CASE c.op = "rule99"
  <2>1. split' = [split EXCEPT !.rules = @ \cup {<<c.fam, 99>>}]
    BY <1>8 DEF SplitCmd
  <2>2. c.fam \in Fam
    BY <1>1, <1>8 DEF FamOps
  <2> QED BY <1>0, <2>1, <2>2 DEF SplitState, Pri
<1>9. CASE c.op = "del97"
  <2>1. split' = [split EXCEPT !.rules = @ \ {<<c.fam, 97>>}]
    BY <1>9 DEF SplitCmd
  <2>2. c.fam \in Fam
    BY <1>1, <1>9 DEF FamOps
  <2> QED BY <1>0, <2>1, <2>2 DEF SplitState, Pri
<1>10. CASE c.op = "del98"
  <2>1. split' = [split EXCEPT !.rules = @ \ {<<c.fam, 98>>}]
    BY <1>10 DEF SplitCmd
  <2>2. c.fam \in Fam
    BY <1>1, <1>10 DEF FamOps
  <2> QED BY <1>0, <2>1, <2>2 DEF SplitState, Pri
<1>11. CASE c.op = "del99"
  <2>1. split' = [split EXCEPT !.rules = @ \ {<<c.fam, 99>>}]
    BY <1>11 DEF SplitCmd
  <2>2. c.fam \in Fam
    BY <1>1, <1>11 DEF FamOps
  <2> QED BY <1>0, <2>1, <2>2 DEF SplitState, Pri
<1>12. CASE c.op = "unreach"
  <2>1. split' = [split EXCEPT !.tbl[c.fam].max = TRUE]
    BY <1>12 DEF SplitCmd
  <2>2. c.fam \in Fam
    BY <1>1, <1>12 DEF FamOps
  <2>3. split.tbl[c.fam] \in Table60
    BY <1>0, <2>2 DEF SplitState
  <2> QED BY <1>0, <2>1, <2>2, <2>3 DEF SplitState, Table60
<1>13. CASE c.op = "dev"
  <2>1. split' = [split EXCEPT !.tbl[c.fam].low = "dev"]
    BY <1>13 DEF SplitCmd
  <2>2. c.fam \in Fam
    BY <1>1, <1>13 DEF FamOps
  <2>3. split.tbl[c.fam] \in Table60
    BY <1>0, <2>2 DEF SplitState
  <2> QED BY <1>0, <2>1, <2>2, <2>3 DEF SplitState, Table60
<1>14. CASE c.op = "gw"
  <2>1. \/ split' = [split EXCEPT !.tbl[c.fam].low = "gw"]
        \/ split' = [split EXCEPT !.tbl[c.fam].low = "unreach"]
    BY <1>14 DEF SplitCmd
  <2>2. c.fam \in Fam
    BY <1>1, <1>14 DEF FamOps
  <2>3. split.tbl[c.fam] \in Table60
    BY <1>0, <2>2 DEF SplitState
  <2> QED BY <1>0, <2>1, <2>2, <2>3 DEF SplitState, Table60
<1>15. CASE c.op = "flush"
  <2>1. split' = [split EXCEPT !.tbl[c.fam] = EmptyTable]
    BY <1>15 DEF SplitCmd
  <2>2. c.fam \in Fam
    BY <1>1, <1>15 DEF FamOps
  <2> QED BY <1>0, <2>1, <2>2 DEF SplitState, Table60, EmptyTable
<1>16. CASE c.op = "markOn"
  <2>1. split' = [split EXCEPT !.svm = 1]
    BY <1>16 DEF SplitCmd
  <2> QED BY <1>0, <2>1 DEF SplitState
<1>17. CASE c.op = "markOff"
  <2>1. split' = [split EXCEPT !.svm = 0] \/ split' = split
    BY <1>17 DEF SplitCmd
  <2> QED BY <1>0, <2>1 DEF SplitState
<1> QED BY <1>2, <1>3, <1>4, <1>5, <1>6, <1>7, <1>8, <1>9, <1>10, <1>11, <1>12, <1>13, <1>14, <1>15, <1>16, <1>17 DEF SplitOps

LEMMA DoType ==
    ASSUME TypeOK, NEW c \in Command, Do(c)
    PROVE  HostTypeOK'
<1>1. /\ HostTypeOK
      /\ inv.end \in Relays \cup {NoRelay}
      /\ inv.opts.relay \in Relays \cup {NoRelay} /\ inv.opts.split \in BOOLEAN
      /\ inv.prevMode \in BOOLEAN /\ inv.prior \in {0, 1}
  BY DEF TypeOK, Invocation, ConnectOpts
<1>2. CASE c.op \in WgOps /\ WgCmd(c)
  BY <1>1, <1>2, WgType
<1>3. CASE c.op \in RouteOps /\ RouteCmd(c, inv.end)
  BY <1>1, <1>3, RouteType
<1>4. CASE c.op \in DnsOps /\ DnsCmd(c)
  BY <1>1, <1>4, DnsType
<1>5. CASE c.op \in FwOps /\ FirewallCmd(c, inv.end)
  BY <1>1, <1>5, FwType
<1>6. CASE c.op \in ShimOps /\ ShimCmd(c)
  BY <1>1, <1>6, ShimType
<1>7. CASE c.op \in SplitOps /\ SplitCmd(c, inv.opts.split, inv.prior)
  BY <1>1, <1>7, SplitType
<1>8. CASE /\ c.op \in CfgOps
           /\ ConfigCmd(c, inv.opts.relay, inv.opts.split, inv.prevMode)
  BY <1>1, <1>8, CfgType
<1> QED BY <1>2, <1>3, <1>4, <1>5, <1>6, <1>7, <1>8 DEF Do

\* Every program and every undo is a sequence of commands.
LEMMA OtherCommand ==
    ASSUME NEW s \in Seq(Other) PROVE s \in Seq(Command) /\ s \in Seq(Keep)
BY SeqMonotone, OtherKeepCommand

LEMMA ProgramType ==
    ASSUME TypeOK, NEW p \in Building
    PROVE  Program(p) \in Seq(Command)
<1>1. /\ <<One("config")>> \in Seq(Command) /\ WgUp \in Seq(Command)
      /\ RouteSet \in Seq(Command) /\ DnsSet \in Seq(Command)
      /\ <<One("dropAll")>> \in Seq(Command) /\ <<One("start")>> \in Seq(Command)
      /\ <<One("lan")>> \in Seq(Command)
  BY OtherPrograms, OtherCommand
<1>2. inv.opts.split \in BOOLEAN
  BY DEF TypeOK, Invocation, ConnectOpts
<1>3. SplitUp(inv.opts.split) \in Seq(Command)
  BY <1>2, SplitPrograms, SeqMonotone, OtherKeepCommand
<1> QED BY <1>1, <1>3 DEF Program, Building

LEMMA DownType == SplitDown \in Seq(Command)
BY SplitPrograms DEF SplitDown

LEMMA UndoType ==
    ASSUME TypeOK, NEW c, pc \in Building, pc # "lan"
    PROVE  Undo(c) \in Seq(Command)
<1>1. /\ WgDown \in Seq(Command) /\ RouteUnset \in Seq(Command)
      /\ FirewallUndo \in Seq(Command) /\ <<One("unpin")>> \in Seq(Command)
      /\ <<One("undrop")>> \in Seq(Command)
      /\ <<Cmd("undefault", "v4")>> \in Seq(Command)
  BY OtherPrograms, OtherCommand
<1>2. Rollback(c) \in Seq(Command)
  BY SplitPrograms DEF Rollback
<1> QED BY <1>1, <1>2, DownType DEF Undo, Building

LEMMA AfterType ==
    ASSUME NEW p \in Building
    PROVE  After(p) \in Building \cup {"idle"}
BY DEF After, Building

\* Between invocations there is nothing left to run; TypeOK is inductive
\* with it, since an undo is chosen by the phase.
IdleDone == pc = "idle" => todo = <<>>

LEMMA NothingToDo == ASSUME NEW S PROVE <<>> \in Seq(S)
OBVIOUS

LEMMA HostUnchanged == HostTypeOK /\ UNCHANGED host => HostTypeOK'
BY DEF HostTypeOK, host

\* The locals when no process runs.
LEMMA NoOptsType == NoOpts \in ConnectOpts
BY DEF NoOpts, ConnectOpts

LEMMA NoInvocationType == NoInvocation \in Invocation
<1> DEFINE no == FALSE
<1>1. NoInvocation = [verb |-> "none", opts |-> NoOpts, end |-> NoRelay,
                      prior |-> 0, prevSplit |-> no, prevMode |-> no,
                      saved |-> no, err |-> no, ok |-> no, fails |-> 0,
                      base |-> no]
  BY Zenon DEF NoInvocation
<1>2. no \in BOOLEAN
  OBVIOUS
<1> HIDE DEF no
<1> QED BY <1>1, <1>2, NoOptsType DEF Invocation

LEMMA InitType == Init => TypeOK /\ IdleDone
<1> SUFFICES ASSUME Init PROVE TypeOK /\ IdleDone
  OBVIOUS
<1>1. HostTypeOK
  BY HostAssumption DEF Init, HostInit, HostTypeOK, NoRoutes, NoSplit, SplitState,
     StateFile, NoState, EmptyTable, Table60
<1>2. inv \in Invocation
  BY NoInvocationType DEF Init
<1>3. budget \in [Faults -> Nat]
  BY SessionAssumption DEF Init
<1> QED BY <1>1, <1>2, <1>3 DEF Init, TypeOK, IdleDone, Phases

LEMMA SpendType ==
    ASSUME TypeOK, NEW k \in Faults, Spend(k)
    PROVE  budget' \in [Faults -> Nat]
BY DEF TypeOK, Spend

LEMMA EnterType ==
    ASSUME TypeOK, NEW p \in Building, Enter(p)
    PROVE  TypeOK' /\ IdleDone'
<1>1. HostTypeOK' /\ budget' \in [Faults -> Nat] /\ pc' \in Phases
  BY DEF TypeOK, Enter, HostTypeOK, host, Phases, Building
<1>2. todo' \in Seq(Command)
  <2>1. Program(p) \in Seq(Command)
    BY ProgramType
  <2> QED BY <2>1, NothingToDo DEF Enter
<1>3. sess' \in {"none", "split", "full"}
  BY DEF TypeOK, Enter
<1>4. inv' \in Invocation
  <2>1. /\ split.file \in StateFile /\ split.svm \in {0, 1}
        /\ inv \in Invocation
    BY DEF TypeOK, HostTypeOK, SplitState
  <2>2. CASE ReadState
    <3>1. /\ (split.file.present /\ split.file.Split /\ inv.opts.split) \in BOOLEAN
          /\ (IF split.file.present THEN split.file.SrcValidMark ELSE split.svm)
                \in {0, 1}
      BY <2>1 DEF StateFile
    <3> QED BY <2>1, <2>2, <3>1 DEF ReadState, Invocation
  <2>3. CASE UNCHANGED inv
    BY <2>1, <2>3
  <2>4. CASE inv' = [inv EXCEPT !.saved = @ \/ p = "wg",
                                !.base = IF p = "wg" THEN HostClean ELSE @,
                                !.end = inv.opts.relay]
    <3>1. (IF p = "wg" THEN HostClean ELSE inv.base) \in BOOLEAN
      BY <2>1 DEF HostClean, Invocation
    <3>2. inv.opts.relay \in Relays \cup {NoRelay}
      BY <2>1 DEF Invocation, ConnectOpts
    <3> QED BY <2>1, <2>4, <3>1, <3>2 DEF Invocation
  <2> QED BY <2>2, <2>3, <2>4 DEF Enter
<1>5. pc' # "idle"
  BY DEF Enter, Building
<1> QED BY <1>1, <1>2, <1>3, <1>4, <1>5 DEF TypeOK, IdleDone

LEMMA ReturnType ==
    ASSUME TypeOK, NEW ok \in BOOLEAN, Return(ok), UNCHANGED <<host, budget>>,
           sess' \in {"none", "split", "full"}
    PROVE  TypeOK' /\ IdleDone'
<1>1. inv' \in Invocation
  BY DEF TypeOK, Return, Invocation
<1>2. HostTypeOK'
  BY HostUnchanged DEF TypeOK
<1> QED BY <1>1, <1>2, NothingToDo DEF TypeOK, Return, Phases, IdleDone

LEMMA FailType ==
    ASSUME TypeOK, Fail
    PROVE  TypeOK' /\ IdleDone'
<1>1. CASE Return(FALSE)
  BY <1>1, ReturnType DEF Fail, TypeOK
<1>2. CASE pc' = "mode" /\ todo' = <<One("mode")>> /\ UNCHANGED inv
  <2>1. todo' \in Seq(Command)
    BY <1>2, OtherPrograms, OtherCommand
  <2> QED BY <1>2, <2>1 DEF Fail, TypeOK, HostTypeOK, host, Phases, IdleDone
<1> QED BY <1>1, <1>2 DEF Fail

LEMMA NextType == TypeOK /\ IdleDone /\ [Next]_vars => TypeOK' /\ IdleDone'
<1> SUFFICES ASSUME TypeOK, IdleDone, [Next]_vars
             PROVE  TypeOK' /\ IdleDone'
  OBVIOUS
<1>1. ASSUME NEW o \in Options, Connect(o) PROVE TypeOK' /\ IdleDone'
  <2>1. inv' \in Invocation
    BY <1>1, SessionAssumption DEF Connect, TypeOK, HostTypeOK, SplitState,
       StateFile, Invocation
  <2>2. todo' \in Seq(Command)
    <3>1. /\ Teardown \in Seq(Command) /\ <<One("config")>> \in Seq(Command)
          /\ SplitDown \in Seq(Command)
      BY OtherPrograms, OtherCommand, DownType
    <3>2. SplitDown \o Teardown \in Seq(Command)
      BY <3>1
    <3> QED BY <1>1, <3>1, <3>2 DEF Connect, SplitTeardown
  <2>3. budget' \in [Faults -> Nat]
    <3>1. budget' = budget \/ Spend("fail")
      BY <1>1 DEF Connect
    <3> QED BY <3>1, SpendType DEF TypeOK, Faults
  <2> QED BY <1>1, <2>1, <2>2, <2>3 DEF Connect, TypeOK, HostTypeOK, host, Phases,
                                       IdleDone
<1>2. CASE Disconnect
  <2>1. inv' \in Invocation
    <3> DEFINE no == FALSE
    <3>1. inv' = [verb |-> "disconnect", opts |-> NoOpts,
                  end |-> cfg.LastEndpoint, prior |-> split.file.SrcValidMark,
                  prevSplit |-> no, prevMode |-> no, saved |-> no,
                  err |-> no, ok |-> no, fails |-> 0, base |-> no]
      BY <1>2, Zenon DEF Disconnect
    <3>2. cfg.LastEndpoint \in Relays \cup {NoRelay}
          /\ split.file.SrcValidMark \in {0, 1}
      BY DEF TypeOK, HostTypeOK, SplitState, StateFile
    <3>3. no \in BOOLEAN
      OBVIOUS
    <3> HIDE DEF no
    <3> QED BY <3>1, <3>2, <3>3, NoOptsType DEF Invocation
  <2>2. todo' \in Seq(Command)
    BY <1>2, OtherPrograms, OtherCommand, DownType DEF Disconnect
  <2> QED BY <1>2, <2>1, <2>2 DEF Disconnect, TypeOK, HostTypeOK, host, Phases,
                                  IdleDone
<1>3. CASE Exec
  <2>1. Head(todo) \in Command /\ Tail(todo) \in Seq(Command)
    BY <1>3 DEF Exec, TypeOK
  <2>2. HostTypeOK'
    BY <1>3, <2>1, DoType DEF Exec
  <2>3. todo' \in Seq(Command)
    <3>1. <<One("rmBackup")>> \in Seq(Command)
      BY OtherPrograms, OtherCommand
    <3> QED BY <1>3, <2>1, <3>1 DEF Exec
  <2> QED BY <1>3, <2>2, <2>3 DEF Exec, TypeOK, IdleDone
<1>4. CASE CommandFails
  <2>1. Tail(todo) \in Seq(Command)
    BY <1>4 DEF CommandFails, TypeOK
  <2>2. budget' \in [Faults -> Nat]
    BY <1>4, SpendType DEF CommandFails, TypeOK, Faults
  <2>3. CASE pc \in Lenient
    <3>1. inv' \in Invocation
      <4> DEFINE e == \/ inv.err
                      \/ /\ pc \in {"teardown", "disconnect"}
                         /\ Head(todo).op \notin SplitOps \cup {"unlan"}
      <4>1. inv \in Invocation
        BY DEF TypeOK
      <4>2. inv' = [inv EXCEPT !.fails = inv.fails + 1, !.err = e]
        BY <1>4, <2>3 DEF CommandFails
      <4>3. e \in BOOLEAN /\ inv.fails + 1 \in Nat
        BY <4>1 DEF Invocation
      <4> HIDE DEF e
      <4> QED BY <4>1, <4>2, <4>3 DEF Invocation
    <3>2. HostTypeOK' /\ pc' = pc /\ todo' = Tail(todo) /\ sess' = sess
      BY <1>4, <2>3, HostUnchanged DEF CommandFails, TypeOK
    <3>3. pc # "idle"
      BY <2>3 DEF Lenient
    <3> QED BY <2>1, <2>2, <3>1, <3>2, <3>3 DEF TypeOK, IdleDone
  <2>4. CASE pc \notin Lenient
    <3>1. pc \in Building /\ pc # "lan"
      BY <1>4, <2>4 DEF CommandFails, TypeOK, Phases, Lenient, Building, IdleDone
    <3>2. todo' \in Seq(Command)
      BY <1>4, <2>4, <3>1, UndoType DEF CommandFails
    <3>3. inv' \in Invocation /\ pc' \in Phases \ {"idle"}
      BY <1>4, <2>4 DEF CommandFails, TypeOK, Invocation, Phases
    <3>4. HostTypeOK' /\ sess' = sess
      BY <1>4, HostUnchanged DEF CommandFails, TypeOK
    <3> QED BY <2>2, <3>2, <3>3, <3>4 DEF TypeOK, IdleDone
  <2> QED BY <2>3, <2>4
<1>5. CASE Advance
  <2>1. inv.err \in BOOLEAN
    BY DEF TypeOK, Invocation
  <2>2. CASE pc = "disconnect" /\ Return(~inv.err) /\ UNCHANGED <<host, sess, budget>>
    BY <2>1, <2>2, ReturnType DEF TypeOK
  <2>3. CASE Fail
    BY <2>3, FailType
  <2>4. CASE Enter("save")
    BY <2>4, EnterType DEF Building
  <2>5. CASE pc \in Building /\ After(pc) # "idle" /\ Enter(After(pc))
    BY <2>5, AfterType, EnterType
  <2>6. CASE Established
    BY <2>6, ReturnType DEF Established
  <2>7. CASE Return(FALSE) /\ UNCHANGED <<host, sess, budget>>
    BY <2>7, ReturnType DEF TypeOK
  <2> QED BY <1>5, <2>2, <2>3, <2>4, <2>5, <2>6, <2>7 DEF Advance
<1>6. CASE Crash
  <2>1. budget' \in [Faults -> Nat]
    BY <1>6, SpendType DEF Crash, Faults
  <2>2. inv' \in Invocation
    BY <1>6, NoInvocationType DEF Crash
  <2>3. HostTypeOK'
    BY <1>6, HostUnchanged DEF Crash, TypeOK
  <2> QED BY <1>6, <2>1, <2>2, <2>3, NothingToDo DEF Crash, TypeOK, Phases, IdleDone
<1>7. CASE LinkLost
  <2>1. budget' \in [Faults -> Nat]
    BY <1>7, SpendType DEF LinkLost, Faults
  <2>2. HostTypeOK'
    BY <1>7, LinkGoneType DEF LinkLost, TypeOK
  <2> QED BY <1>7, <2>1, <2>2 DEF LinkLost, TypeOK, IdleDone
<1>8. CASE Reboot
  <2>1. budget' \in [Faults -> Nat]
    BY <1>8, SpendType DEF Reboot, Faults
  <2>2. HostTypeOK'
    BY <1>8, HostAssumption DEF Reboot, TypeOK, HostTypeOK, NoRoutes, NoSplit,
       SplitState, StateFile, NoState, EmptyTable, Table60
  <2> QED BY <1>8, <2>1, <2>2, NoInvocationType, NothingToDo
          DEF Reboot, TypeOK, Phases, IdleDone
<1>9. CASE UNCHANGED vars
  BY <1>9 DEF vars, host, TypeOK, HostTypeOK, IdleDone
<1> QED BY <1>1, <1>2, <1>3, <1>4, <1>5, <1>6, <1>7, <1>8, <1>9 DEF Next

\* Every reachable state is well typed: no command of connect, disconnect or
\* their undos writes a value the state file, resolv.conf, the tables or the
\* configuration cannot hold, whatever fails.
THEOREM TypeCorrect == Spec => []TypeOK
<1>1. Spec => [](TypeOK /\ IdleDone)
  BY InitType, NextType, PTL DEF Spec
<1> QED BY <1>1, PTL

-----------------------------------------------------------------------------
(* The split set is held to the tunnel.                                    *)

FileOn == split.file.present /\ split.file.Split

\* The families whose default in table 60 a split session replaces.
DevFam == IF HasV6 THEN Fam ELSE {"v4"}

\* The commands of split.up --split that hold the split set to the tunnel:
\* the state file that makes a redial skip its rollback, the two tunnel
\* rulesets, and in each family the rules that lead to table 60, its
\* unreachable default, and the route that replaces a plain one.
Holds == {One("save"), One("nft")}
         \cup {Cmd(op, f) : op \in {"rule97", "rule99", "unreach"}, f \in Fam}
         \cup {Cmd("dev", f) : f \in DevFam}

\* What such a command is for is there (a device route is not missed: an
\* unreachable default takes its place).
Made(x) ==
    CASE x.op = "save"    -> FileOn
      [] x.op = "nft"     -> \A f \in Fam : split.nft[f] = "tunnel"
      [] x.op = "rule97"  -> <<x.fam, 97>> \in split.rules
      [] x.op = "rule99"  -> <<x.fam, 99>> \in split.rules
      [] x.op = "unreach" -> split.tbl[x.fam].max
      [] x.op = "dev"     -> split.tbl[x.fam].low # "gw"

Held == \A x \in Holds : Made(x)

\* split.up --split has done it or is still going to.
Holding == \A x \in Holds : Made(x) \/ x \in Elems(todo)

\* The phases of a full session.
FullOnly == {"route", "dns", "firewall", "lan", "undoSplit"}

\* The inductive invariant of FailClosed.  While a split session stands, it
\* is held, no command that is left takes a hold away, and one of split.up's
\* is left only while a redial of that same mode runs.  A split.up --split
\* has every hold behind it or before it.
HeldInv ==
    /\ inv.opts \in Options \cup {NoOpts}
    /\ pc \in FullOnly => ~inv.opts.split
    /\ sess = "split" =>
          /\ Held
          /\ todo \in Seq(Keep)
          /\ ~inv.opts.split => todo \in Seq(Other)
          /\ pc = "split" /\ todo # <<>> => inv.prevSplit
    /\ pc = "split" /\ inv.opts.split => Holding /\ todo \in Seq(Keep)
    /\ pc = "shim" /\ inv.opts.split => Held /\ todo = <<>>

\* A split session over a transport shim is another matter: doConnect calls
\* split.Down when the shim of a redial does not start.
NoSplitShim == \A o \in Options : o.split => ~o.shim

LEMMA HoldsShape ==
    ASSUME NEW x \in Holds
    PROVE  /\ x.op \in {"save", "nft", "rule97", "rule99", "unreach", "dev"}
           /\ x.op \notin {"save", "nft"} => x.fam \in Fam
BY DEF Holds, One, Cmd, DevFam, Fam

LEMMA HeldFacts ==
    ASSUME Held
    PROVE  /\ FileOn
           /\ \A f \in Fam : /\ split.nft[f] = "tunnel"
                             /\ <<f, 97>> \in split.rules
                             /\ <<f, 99>> \in split.rules
                             /\ split.tbl[f].max
           /\ \A f \in DevFam : split.tbl[f].low # "gw"
<1>1. FileOn /\ \A f \in Fam : split.nft[f] = "tunnel"
  <2>1. Made(One("save")) /\ Made(One("nft"))
    BY DEF Held, Holds
  <2> QED BY <2>1 DEF Made, One
<1>2. ASSUME NEW f \in Fam
      PROVE  /\ <<f, 97>> \in split.rules /\ <<f, 99>> \in split.rules
             /\ split.tbl[f].max
  <2>1. Made(Cmd("rule97", f)) /\ Made(Cmd("rule99", f)) /\ Made(Cmd("unreach", f))
    BY DEF Held, Holds
  <2> QED BY <2>1 DEF Made, Cmd
<1>3. ASSUME NEW f \in DevFam PROVE split.tbl[f].low # "gw"
  <2>1. Made(Cmd("dev", f))
    BY DEF Held, Holds
  <2> QED BY <2>1 DEF Made, Cmd
<1> QED BY <1>1, <1>2, <1>3

LEMMA HeldFailClosed == TypeOK /\ Held => \A f \in Fam, d \in Dest : Egress(f, d) # "plain"
<1> SUFFICES ASSUME TypeOK, Held, NEW f \in Fam, NEW d \in Dest
             PROVE  Egress(f, d) # "plain"
  OBVIOUS
<1>1. split.nft[f] = "tunnel"
  BY HeldFacts
<1>2. CASE Guarded(f, d)
  BY <1>2 DEF Egress
<1>3. CASE ~Guarded(f, d)
  <2>1. f = "v4" /\ d = "resolver"
    BY <1>1, <1>3 DEF Guarded
  <2>2. Lookup60("v4") \in {"tunnel", "dropped"}
    BY HeldFacts DEF Lookup60, DevFam, Fam
  <2>3. Routed("v4", "resolver") = Lookup60("v4")
    BY <2>2, HeldFacts DEF Routed, Fam
  <2> QED BY <2>1, <2>2, <2>3 DEF Egress
<1> QED BY <1>2, <1>3

LEMMA SameMade ==
    ASSUME split' = split
    PROVE  (Held' <=> Held) /\ \A x : Made(x)' <=> Made(x)
BY DEF Held, Made, FileOn

LEMMA LinkGoneKeeps ==
    ASSUME HostTypeOK, LinkGone, NEW x \in Holds, Made(x)
    PROVE  Made(x)'
<1>1. split \in SplitState
  BY DEF HostTypeOK
<1>2. split'.file = split.file /\ split'.nft = split.nft /\ split'.rules = split.rules
  BY <1>1 DEF LinkGone, SplitState
<1>3. ASSUME NEW f \in Fam
      PROVE  /\ split.tbl[f].max => split'.tbl[f].max
             /\ split.tbl[f].low # "gw" => split'.tbl[f].low # "gw"
  <2>1. split'.tbl[f] = IF split.tbl[f].low = "dev"
                          THEN [split.tbl[f] EXCEPT !.low = "none"]
                          ELSE split.tbl[f]
    BY <1>1 DEF LinkGone, SplitState
  <2>2. split.tbl[f] \in Table60
    BY <1>1 DEF SplitState
  <2> QED BY <2>1, <2>2 DEF Table60
<1> QED BY <1>2, <1>3, HoldsShape DEF Made, FileOn

LEMMA SplitKeeps ==
    ASSUME HostTypeOK, NEW c \in Keep, c.op \in SplitOps, NEW p \in {0, 1},
           SplitCmd(c, TRUE, p), NEW x \in Holds, Made(x) \/ c = x
    PROVE  Made(x)'
<1>0. /\ split \in SplitState
      /\ \A f \in Fam : split.tbl[f] \in Table60
  BY DEF HostTypeOK, SplitState
<1>1. /\ c.op \in FamOps => c.fam \in Fam
      /\ c.op \in SplitOps \ Strip
  BY DEF Keep, Command
<1>2. CASE c.op = "save"
  <2>1. split' = [split EXCEPT !.file = [present |-> TRUE, Split |-> TRUE, SrcValidMark |-> p]]
    BY <1>2 DEF SplitCmd
  <2> QED BY <1>0, <1>2, <2>1, HoldsShape DEF SplitState, Made, FileOn
<1>3. CASE c.op = "nft"
  <2>1. split' = [split EXCEPT !.nft = [g \in Fam |-> "tunnel"]]
    BY <1>3 DEF SplitCmd
  <2> QED BY <1>0, <1>3, <2>1, HoldsShape DEF SplitState, Made, FileOn
<1>4. CASE c.op \in {"rule97", "rule98", "rule99"}
  <2>1. PICK n \in Pri : /\ split' = [split EXCEPT !.rules = @ \cup {<<c.fam, n>>}]
                         /\ c.op = "rule97" => n = 97
                         /\ c.op = "rule99" => n = 99
    BY <1>4 DEF SplitCmd, Pri
  <2> QED BY <1>0, <1>4, <2>1, HoldsShape DEF SplitState, Made, FileOn
<1>5. CASE c.op \in {"unreach", "dev"}
  <2>1. c.fam \in Fam
    BY <1>1, <1>5 DEF FamOps
  <2>2. \/ c.op = "unreach" /\ split' = [split EXCEPT !.tbl[c.fam].max = TRUE]
        \/ c.op = "dev" /\ split' = [split EXCEPT !.tbl[c.fam].low = "dev"]
    BY <1>5 DEF SplitCmd
  <2>3. /\ split'.file = split.file /\ split'.nft = split.nft
        /\ split'.rules = split.rules
    BY <1>0, <2>2 DEF SplitState
  <2>4. ASSUME NEW f \in Fam
        PROVE  /\ split.tbl[f].max \/ (c.op = "unreach" /\ c.fam = f)
                     => split'.tbl[f].max
               /\ split.tbl[f].low # "gw" \/ (c.op = "dev" /\ c.fam = f)
                     => split'.tbl[f].low # "gw"
    <3>1. \/ split'.tbl[f] = split.tbl[f] /\ f # c.fam
          \/ c.op = "unreach" /\ split'.tbl[f] = [split.tbl[f] EXCEPT !.max = TRUE]
          \/ c.op = "dev" /\ split'.tbl[f] = [split.tbl[f] EXCEPT !.low = "dev"]
      <4>1. CASE c.op = "unreach"
        <5>1. split' = [split EXCEPT !.tbl[c.fam].max = TRUE]
          BY <2>2, <4>1
        <5> QED BY <1>0, <2>1, <4>1, <5>1 DEF SplitState
      <4>2. CASE c.op = "dev"
        <5>1. split' = [split EXCEPT !.tbl[c.fam].low = "dev"]
          BY <2>2, <4>2
        <5> QED BY <1>0, <2>1, <4>2, <5>1 DEF SplitState
      <4> QED BY <1>5, <4>1, <4>2
    <3> QED BY <1>0, <3>1 DEF Table60
  <2> QED BY <1>5, <2>3, <2>4, HoldsShape DEF Made, FileOn
<1>6. CASE c.op \in {"markOn", "markOff"}
  <2>1. \/ split' = [split EXCEPT !.svm = 1]
        \/ split' = [split EXCEPT !.svm = 0]
        \/ split' = split
    BY <1>6 DEF SplitCmd
  <2>2. /\ split'.file = split.file /\ split'.nft = split.nft
        /\ split'.rules = split.rules /\ split'.tbl = split.tbl
    BY <1>0, <2>1 DEF SplitState
  <2> QED BY <1>6, <2>2, HoldsShape DEF Made, FileOn
<1> QED BY <1>1, <1>2, <1>3, <1>4, <1>5, <1>6 DEF SplitOps, Strip

\* A command that takes no hold away keeps the holds there are; one that is
\* a hold establishes itself.
LEMMA DoKeeps ==
    ASSUME TypeOK, NEW c \in Keep, Do(c), c \notin Other => inv.opts.split,
           NEW x \in Holds, Made(x) \/ c = x
    PROVE  Made(x)'
<1>1. HostTypeOK /\ inv.prior \in {0, 1} /\ inv.opts.split \in BOOLEAN
  BY DEF TypeOK, Invocation, ConnectOpts
<1>2. CASE c.op \in SplitOps
  <2>1. c \notin Other
    BY <1>2 DEF Other
  <2>2. SplitCmd(c, TRUE, inv.prior)
    <3>1. SplitCmd(c, inv.opts.split, inv.prior)
      BY <1>2 DEF Do, WgOps, RouteOps, DnsOps, FwOps, ShimOps, CfgOps, SplitOps
    <3>2. inv.opts.split = TRUE
      BY <1>1, <2>1
    <3> QED BY <3>1, <3>2
  <2> QED BY <1>1, <1>2, <2>2, SplitKeeps
<1>3. CASE c.op \notin SplitOps
  <2>1. Made(x)
    BY <1>3, HoldsShape DEF SplitOps
  <2>2. split' = split \/ LinkGone
    BY <1>3 DEF Do, WgCmd, RouteCmd, DnsCmd, FirewallCmd, ShimCmd, ConfigCmd
  <2> QED BY <1>1, <2>1, <2>2, SameMade, LinkGoneKeeps
<1> QED BY <1>2, <1>3

\* split.up --split sets out to establish all of them.
LEMMA SplitUpHolds == \A x \in Holds : x \in Elems(SplitUp(TRUE))
<1> DEFINE a == <<One("save"), One("nft")>>
           b == InstallRules
           c == <<Cmd("rule97", "v4"), Cmd("rule97", "v6"), Cmd("unreach", "v4"),
                  Cmd("unreach", "v6"), Cmd("dev", "v4")>>
           d == IF HasV6 THEN <<Cmd("dev", "v6")>> ELSE <<>>
           e == <<One("markOn")>>
<1>1. d \in Seq(Keep)
  BY SplitPrograms, NothingToDo
<1>2. /\ a \in Seq(Keep) /\ b \in Seq(Keep) /\ c \in Seq(Keep)
      /\ e \in Seq(Keep)
  BY SplitPrograms
<1>3. One("save") \in Elems(a) /\ One("nft") \in Elems(a)
  <2>1. /\ 1 \in 1..Len(a) /\ a[1] = One("save")
        /\ 2 \in 1..Len(a) /\ a[2] = One("nft")
    OBVIOUS
  <2> HIDE DEF a
  <2> QED BY <2>1 DEF Elems
<1>4. \A f \in Fam : Cmd("rule99", f) \in Elems(b)
  <2>1. /\ 2 \in 1..Len(b) /\ b[2] = Cmd("rule99", "v4")
        /\ 4 \in 1..Len(b) /\ b[4] = Cmd("rule99", "v6")
    BY DEF InstallRules
  <2> HIDE DEF b
  <2> QED BY <2>1 DEF Elems, Fam
<1>5. /\ \A f \in Fam : Cmd("rule97", f) \in Elems(c) /\ Cmd("unreach", f) \in Elems(c)
      /\ Cmd("dev", "v4") \in Elems(c)
  <2>1. /\ 1 \in 1..Len(c) /\ c[1] = Cmd("rule97", "v4")
        /\ 2 \in 1..Len(c) /\ c[2] = Cmd("rule97", "v6")
        /\ 3 \in 1..Len(c) /\ c[3] = Cmd("unreach", "v4")
        /\ 4 \in 1..Len(c) /\ c[4] = Cmd("unreach", "v6")
        /\ 5 \in 1..Len(c) /\ c[5] = Cmd("dev", "v4")
    OBVIOUS
  <2> HIDE DEF c
  <2> QED BY <2>1 DEF Elems, Fam
<1>6. HasV6 => Cmd("dev", "v6") \in Elems(d)
  BY ElemsTuple1
<1>7. SplitUp(TRUE) = a \o b \o (c \o d) \o e
  BY DEF SplitUp, InstallTunnelRoutes
<1> HIDE DEF a, b, c, d, e
<1> DEFINE ab == a \o b
           cd == c \o d
           abcd == ab \o cd
<1>8. /\ ab \in Seq(Keep) /\ cd \in Seq(Keep)
      /\ Elems(ab) = Elems(a) \cup Elems(b)
      /\ Elems(cd) = Elems(c) \cup Elems(d)
  BY <1>1, <1>2, ElemsConcat
<1>9. SplitUp(TRUE) = abcd \o e
  BY <1>7
<1> HIDE DEF ab, cd
<1>10. abcd \in Seq(Keep) /\ Elems(abcd) = Elems(ab) \cup Elems(cd)
  BY <1>8, ElemsConcat
<1> HIDE DEF abcd
<1>11. Elems(SplitUp(TRUE)) = Elems(abcd) \cup Elems(e)
  <2>1. Elems(abcd \o e) = Elems(abcd) \cup Elems(e)
    BY <1>2, <1>10, ElemsConcat
  <2> QED BY <1>9, <2>1, Zenon
<1>12. \A f \in DevFam : Cmd("dev", f) \in Elems(SplitUp(TRUE))
  BY <1>5, <1>6, <1>8, <1>10, <1>11 DEF DevFam, Fam
<1>13. \A f \in Fam : /\ Cmd("rule97", f) \in Elems(SplitUp(TRUE))
                      /\ Cmd("rule99", f) \in Elems(SplitUp(TRUE))
                      /\ Cmd("unreach", f) \in Elems(SplitUp(TRUE))
  BY <1>4, <1>5, <1>8, <1>10, <1>11
<1>14. One("save") \in Elems(SplitUp(TRUE)) /\ One("nft") \in Elems(SplitUp(TRUE))
  BY <1>3, <1>8, <1>10, <1>11
<1>15. ASSUME NEW x \in Holds PROVE x \in Elems(SplitUp(TRUE))
  <2>1. \/ x \in {One("save"), One("nft")}
        \/ \E op \in {"rule97", "rule99", "unreach"}, f \in Fam : x = Cmd(op, f)
        \/ \E f \in DevFam : x = Cmd("dev", f)
    BY DEF Holds
  <2> QED BY <1>12, <1>13, <1>14, <2>1
<1> QED BY <1>15

LEMMA HeldInit == Init => HeldInv
BY DEF Init, HeldInv, FullOnly, NoInvocation

\* Entering a phase.  The first phase of a redial runs no split command; the
\* phase of split.up finds the state file of the session it replaces.
LEMMA HeldEnter ==
    ASSUME TypeOK, HeldInv, NoSplitShim, NEW p \in Building, Enter(p),
           p \in FullOnly => ~inv.opts.split,
           p = "shim" /\ inv.opts.split => Held
    PROVE  HeldInv'
<1>0. /\ inv.opts \in Options \cup {NoOpts}
      /\ inv.opts.split \in BOOLEAN
      /\ inv \in Invocation
  BY DEF HeldInv, TypeOK, Invocation, ConnectOpts
<1>1. inv'.opts = inv.opts
  <2>1. CASE ReadState
    BY <1>0, <2>1 DEF ReadState, Invocation
  <2>2. CASE UNCHANGED inv
    BY <2>2
  <2>3. CASE inv' = [inv EXCEPT !.saved = @ \/ p = "wg",
                                !.base = IF p = "wg" THEN HostClean ELSE @,
                                !.end = inv.opts.relay]
    BY <1>0, <2>3 DEF Invocation
  <2> QED BY <2>1, <2>2, <2>3 DEF Enter
<1>2. Held' <=> Held
  BY SameMade DEF Enter, host
<1>3. pc' = p
  BY DEF Enter
<1>4. CASE p # "split"
  <2>1. todo' = Program(p) /\ sess' = sess
    BY <1>4 DEF Enter
  <2>2. Program(p) \in Seq(Other)
    BY <1>4, OtherPrograms, NothingToDo DEF Program, Building
  <2>3. Program(p) \in Seq(Keep)
    BY <2>2, OtherCommand
  <2>4. p = "shim" /\ inv.opts.split => Program(p) = <<>>
    BY <1>0 DEF NoSplitShim, Program, NoOpts
  <2> QED BY <1>0, <1>1, <1>2, <1>3, <1>4, <2>1, <2>2, <2>3, <2>4
          DEF HeldInv
<1>5. CASE p = "split" /\ inv.opts.split
  <2>1. todo' = SplitUp(TRUE) /\ sess' = sess /\ ReadState
    <3>1. inv.opts.split = TRUE
      BY <1>0, <1>5
    <3> QED BY <1>5, <3>1 DEF Enter, Program
  <2>2. todo' \in Seq(Keep)
    BY <2>1, SplitPrograms
  <2>3. Holding'
    BY <2>1, SplitUpHolds DEF Holding
  <2>4. sess = "split" => inv'.prevSplit
    BY <1>0, <1>5, <2>1, HeldFacts DEF HeldInv, FileOn, ReadState, Invocation
  <2> QED BY <1>0, <1>1, <1>2, <1>3, <1>5, <2>1, <2>2, <2>3, <2>4
          DEF HeldInv, FullOnly
<1>6. CASE p = "split" /\ ~inv.opts.split
  <2>1. sess' = "split" => todo' = <<>> /\ sess = "split"
    BY <1>6 DEF Enter
  <2> QED BY <1>0, <1>1, <1>2, <1>3, <1>6, <2>1, NothingToDo
          DEF HeldInv, FullOnly
<1> QED BY <1>4, <1>5, <1>6

LEMMA HeldReturn ==
    ASSUME TypeOK, HeldInv, NEW ok \in BOOLEAN, Return(ok), UNCHANGED host,
           sess' = "split" => sess = "split" \/ Held
    PROVE  HeldInv'
<1>1. inv'.opts = inv.opts
  BY DEF TypeOK, Invocation, Return
<1>2. Held' <=> Held
  BY SameMade DEF host
<1> QED BY <1>1, <1>2, NothingToDo DEF HeldInv, Return, FullOnly

LEMMA HeldFail ==
    ASSUME TypeOK, HeldInv, Fail
    PROVE  HeldInv'
<1>1. CASE Return(FALSE)
  BY <1>1, HeldReturn DEF Fail
<1>2. CASE pc' = "mode" /\ todo' = <<One("mode")>> /\ UNCHANGED inv
  <2>1. todo' \in Seq(Other) /\ todo' \in Seq(Keep)
    BY <1>2, OtherPrograms, OtherCommand
  <2>2. (Held' <=> Held) /\ sess' = sess
    BY SameMade DEF Fail, host
  <2> QED BY <1>2, <2>1, <2>2 DEF HeldInv, FullOnly
<1> QED BY <1>1, <1>2 DEF Fail

\* No undo takes a hold away while a split session stands: split.up's
\* rollback is empty then, and no shim can fail.
LEMMA UndoKeeps ==
    ASSUME TypeOK, HeldInv, sess = "split", todo # <<>>, NEW c,
           pc \in Building, pc # "lan"
    PROVE  Undo(c) \in Seq(Other)
<1>1. CASE pc = "split"
  <2>1. inv.prevSplit
    BY <1>1 DEF HeldInv
  <2>2. Rollback(c) = <<>>
    BY <2>1 DEF Rollback
  <2>3. Undo(c) = <<>> \o (IF inv.opts.split THEN WgDown ELSE <<>>)
    BY <1>1, <2>2 DEF Undo
  <2> QED BY <2>3, OtherPrograms
<1>2. CASE pc = "shim"
  <2>1. ~inv.opts.split
    BY <1>2 DEF HeldInv
  <2>2. Undo(c) = <<One("undrop")>> \o FirewallUndo
    BY <1>2, <2>1 DEF Undo
  <2> QED BY <2>2, OtherPrograms
<1>3. CASE pc = "route"
  <2>1. Undo(c) = (IF c.fam = "v6" THEN <<Cmd("undefault", "v4")>> ELSE <<>>)
                  \o (IF c.op = "pin" THEN <<>> ELSE <<One("unpin")>>)
                  \o WgDown
    BY <1>3 DEF Undo
  <2> QED BY <2>1, OtherPrograms
<1>4. CASE pc \in {"save", "wg", "dns", "firewall"}
  BY <1>4, OtherPrograms DEF Undo
<1> QED BY <1>1, <1>2, <1>3, <1>4 DEF Building

LEMMA HeldExec ==
    ASSUME TypeOK, HeldInv, Exec
    PROVE  HeldInv'
<1> DEFINE c == Head(todo)
           more == IF c.op = "restore" /\ dns.backup # "none"
                     THEN <<One("rmBackup")>> ELSE <<>>
<1>1. /\ todo \in Seq(Command) /\ todo # <<>> /\ Do(c)
      /\ todo' = more \o Tail(todo)
      /\ pc' = pc /\ inv' = inv /\ sess' = sess
  BY DEF TypeOK, Exec
<1>2. more \in Seq(Other) /\ more \in Seq(Keep) /\ more \in Seq(Command)
  BY OtherPrograms, OtherCommand, NothingToDo
<1>3. ASSUME NEW S \in {Keep, Other}, todo \in Seq(S)
      PROVE  c \in S /\ todo' \in Seq(S)
  <2>1. c \in S /\ Tail(todo) \in Seq(S) /\ more \in Seq(S)
    BY <1>1, <1>2, <1>3, ElemsHeadTail
  <2> HIDE DEF more
  <2> QED BY <1>1, <2>1
<1>4. ASSUME sess = "split"
      PROVE  /\ Held'
             /\ todo' \in Seq(Keep)
             /\ ~inv.opts.split => todo' \in Seq(Other)
             /\ pc = "split" => inv.prevSplit
  <2>1. c \in Keep /\ todo' \in Seq(Keep)
    BY <1>3, <1>4 DEF HeldInv
  <2>2. ~inv.opts.split => c \in Other /\ todo' \in Seq(Other)
    BY <1>3, <1>4 DEF HeldInv
  <2>3. Held'
    BY <1>1, <1>4, <2>1, <2>2, DoKeeps DEF HeldInv, Held
  <2>4. pc = "split" => inv.prevSplit
    BY <1>1, <1>4 DEF HeldInv
  <2> QED BY <2>1, <2>2, <2>3, <2>4
<1>5. ASSUME pc = "split", inv.opts.split
      PROVE  Holding' /\ todo' \in Seq(Keep)
  <2>1. c \in Keep /\ todo' \in Seq(Keep)
    BY <1>3, <1>5 DEF HeldInv
  <2>2. Elems(todo) = {c} \cup Elems(Tail(todo)) /\ Tail(todo) \in Seq(Command)
    BY <1>1, ElemsHeadTail
  <2>3. Elems(more \o Tail(todo)) = Elems(more) \cup Elems(Tail(todo))
    <3> DEFINE rest == Tail(todo)
    <3>1. rest \in Seq(Command)
      BY <2>2
    <3> HIDE DEF more, rest
    <3>2. Elems(more \o rest) = Elems(more) \cup Elems(rest)
      BY <1>2, <3>1, ElemsConcat
    <3> QED BY <3>2 DEF rest
  <2>4. \A x : x \in Elems(todo) => x = c \/ x \in Elems(todo')
    <3> HIDE DEF c, more
    <3> QED BY <1>1, <2>2, <2>3, Zenon
  <2>5. Holding
    BY <1>5 DEF HeldInv
  <2>6. \A x \in Holds : Made(x) \/ c = x => Made(x)'
    BY <1>1, <1>5, <2>1, DoKeeps
  <2>7. Holding'
    <3> HIDE DEF c
    <3> QED BY <2>4, <2>5, <2>6, Zenon DEF Holding
  <2> QED BY <2>1, <2>7
<1>6. ~(pc = "shim" /\ inv.opts.split)
  BY <1>1 DEF HeldInv
<1>7. inv.opts \in Options \cup {NoOpts} /\ (pc \in FullOnly => ~inv.opts.split)
  BY DEF HeldInv
<1> HIDE DEF c, more
<1> QED BY <1>1, <1>4, <1>5, <1>6, <1>7 DEF HeldInv

LEMMA HeldNext ==
    ASSUME TypeOK, IdleDone, HeldInv, NoSplitShim, [Next]_vars
    PROVE  HeldInv'
<1>0. inv.opts \in Options \cup {NoOpts} /\ inv \in Invocation
  BY DEF HeldInv, TypeOK
<1>1. ASSUME NEW o \in Options, Connect(o) PROVE HeldInv'
  <2>1. Held' <=> Held
    BY <1>1, SameMade DEF Connect, host
  <2>2. inv'.opts = o /\ pc' \in {"teardown", "save"}
    BY <1>1 DEF Connect
  <2>3. sess' = "split" => sess = "split" /\ todo' \in Seq(Other)
    BY <1>1, OtherPrograms DEF Connect, SplitTeardown
  <2> QED BY <2>1, <2>2, <2>3, OtherCommand DEF HeldInv, FullOnly
<1>2. CASE Disconnect
  <2>1. inv'.opts = NoOpts
    BY <1>2 DEF Disconnect
  <2> QED BY <1>0, <1>2, <2>1 DEF Disconnect, HeldInv, FullOnly
<1>3. CASE Exec
  BY <1>3, HeldExec
<1>4. CASE CommandFails
  <2>1. /\ Held' <=> Held
        /\ sess' = sess /\ inv'.opts = inv.opts
        /\ todo # <<>> /\ todo \in Seq(Command)
    <3>1. inv'.opts = inv.opts
      BY <1>0, <1>4 DEF CommandFails, Invocation
    <3> QED BY <1>4, <3>1, SameMade DEF CommandFails, TypeOK, host
  <2>2. CASE pc \in Lenient
    <3>1. todo' = Tail(todo) /\ pc' = pc
      BY <1>4, <2>2 DEF CommandFails
    <3>2. \A S \in {Keep, Other} : todo \in Seq(S) => todo' \in Seq(S)
      BY <2>1, <3>1, ElemsHeadTail
    <3>3. pc \notin {"split", "shim"}
      BY <2>2 DEF Lenient
    <3> QED BY <2>1, <3>1, <3>2, <3>3 DEF HeldInv
  <2>3. CASE pc \notin Lenient
    <3>1. pc \in Building /\ pc # "lan"
      BY <2>1, <2>3 DEF TypeOK, Phases, Lenient, Building, IdleDone
    <3>2. /\ todo' = Undo(Head(todo))
          /\ pc' \in {"undo", "undoSplit"}
          /\ pc' = "undoSplit" => ~inv.opts.split
      BY <1>4, <2>3 DEF CommandFails
    <3>3. sess = "split" => todo' \in Seq(Other)
      BY <2>1, <3>1, <3>2, UndoKeeps
    <3> QED BY <2>1, <3>2, <3>3, OtherCommand DEF HeldInv, FullOnly
  <2> QED BY <2>2, <2>3
<1>5. CASE Advance
  <2>1. inv.err \in BOOLEAN /\ todo = <<>>
    BY <1>0, <1>5 DEF Invocation, Advance
  <2>2. CASE pc = "disconnect" /\ Return(~inv.err) /\ UNCHANGED <<host, sess, budget>>
    BY <2>1, <2>2, HeldReturn
  <2>3. CASE Fail
    BY <2>3, HeldFail
  <2>4. CASE Enter("save")
    BY <2>4, HeldEnter DEF Building, FullOnly
  <2>5. CASE pc \in Building /\ After(pc) # "idle" /\ Enter(After(pc))
    <3>1. After(pc) \in Building
      BY <2>5, AfterType
    <3>2. After(pc) \in FullOnly => ~inv.opts.split
      BY <2>5 DEF After, Building, FullOnly, HeldInv
    <3>3. After(pc) = "shim" /\ inv.opts.split => pc = "split"
      BY <2>5 DEF After, Building, FullOnly, HeldInv
    <3>4. pc = "split" /\ inv.opts.split => Held
      BY <2>1, ElemsEmpty DEF HeldInv, Holding, Held
    <3> QED BY <2>5, <3>1, <3>2, <3>3, <3>4, HeldEnter
  <2>6. CASE pc \in Building /\ After(pc) = "idle" /\ Established
    <3>1. inv.opts.split => pc = "shim"
      BY <2>6 DEF After, Building
    <3>2. sess' = "split" => Held
      BY <2>6, <3>1 DEF Established, HeldInv
    <3> QED BY <2>6, <3>2, HeldReturn DEF Established
  <2>7. CASE pc = "undoSplit" /\ Established
    <3>1. ~inv.opts.split
      BY <2>7 DEF HeldInv, FullOnly
    <3> QED BY <2>7, <3>1, HeldReturn DEF Established
  <2>8. CASE Return(FALSE) /\ UNCHANGED <<host, sess, budget>>
    BY <2>8, HeldReturn
  <2> QED BY <1>5, <2>2, <2>3, <2>4, <2>5, <2>6, <2>7, <2>8 DEF Advance
<1>6. CASE Crash
  <2>1. inv'.opts = NoOpts
    BY <1>6 DEF Crash, NoInvocation
  <2>2. Held' <=> Held
    BY <1>6, SameMade DEF Crash, host
  <2> QED BY <1>0, <1>6, <2>1, <2>2, NothingToDo DEF Crash, HeldInv, FullOnly
<1>7. CASE LinkLost
  <2>1. \A x \in Holds : Made(x) => Made(x)'
    BY <1>7, LinkGoneKeeps DEF LinkLost, TypeOK
  <2>2. pc' = pc /\ todo' = todo /\ inv' = inv /\ sess' = sess
    BY <1>7 DEF LinkLost
  <2>3. (Held => Held') /\ (Holding => Holding')
    BY <2>1, <2>2 DEF Held, Holding
  <2> QED BY <2>2, <2>3 DEF HeldInv
<1>8. CASE Reboot
  <2>1. inv'.opts = NoOpts
    BY <1>8 DEF Reboot, NoInvocation
  <2> QED BY <1>0, <1>8, <2>1 DEF Reboot, HeldInv, FullOnly
<1>9. CASE UNCHANGED vars
  <2>1. UNCHANGED <<pc, todo, inv, sess>> /\ split' = split
    BY <1>9 DEF vars, host
  <2>2. (Held' <=> Held) /\ (Holding' <=> Holding)
    BY <2>1, SameMade DEF Holding
  <2> QED BY <2>1, <2>2 DEF HeldInv
<1> QED BY <1>1, <1>2, <1>3, <1>4, <1>5, <1>6, <1>7, <1>8, <1>9 DEF Next

\* Without a transport shim, a split session is fail-closed for every set of
\* relays and every number of failed commands, crashes, lost links and
\* reboots: from its connect until the user ends it, no packet of the split
\* set reaches the plain network (split.up's order, its rollback rule for
\* prevSplit, and doConnect's teardown that leaves the split routing alone).
THEOREM SplitFailClosed == NoSplitShim /\ Spec => []FailClosed
<1>1. Init => TypeOK /\ IdleDone /\ HeldInv
  BY InitType, HeldInit
<1>2. ASSUME NoSplitShim
      PROVE  TypeOK /\ IdleDone /\ HeldInv /\ [Next]_vars
                => (TypeOK /\ IdleDone /\ HeldInv)'
  BY <1>2, NextType, HeldNext
<1>3. TypeOK /\ HeldInv => FailClosed
  BY HeldFailClosed DEF HeldInv, FailClosed
<1>4. ASSUME NoSplitShim PROVE Spec => []FailClosed
  <2>1. TypeOK /\ IdleDone /\ HeldInv /\ [Next]_vars
                => (TypeOK /\ IdleDone /\ HeldInv)'
    BY <1>2, <1>4
  <2> QED BY <1>1, <1>3, <2>1, PTL DEF Spec
<1> QED BY <1>4
-----------------------------------------------------------------------------
(* The routing rules alone hold it too.                                    *)

\* On a host without an IPv6 gateway split.up never gives table 60 one.
NoGw6 == ~HasGw6 => split.tbl["v6"].low # "gw"

LEMMA NoGw6Split ==
    ASSUME HostTypeOK, NoGw6, NEW c \in Command, c.op \in SplitOps,
           NEW b \in BOOLEAN, NEW p \in {0, 1}, SplitCmd(c, b, p)
    PROVE  NoGw6'
<1> SUFFICES ASSUME ~HasGw6 PROVE split'.tbl["v6"].low # "gw"
  BY DEF NoGw6
<1>0. /\ split \in SplitState /\ split.tbl["v6"] \in Table60
      /\ split.tbl["v6"].low # "gw"
  BY DEF HostTypeOK, SplitState, Fam, NoGw6
<1>1. c.op \in FamOps => c.fam \in Fam
  BY DEF Command
<1>2. CASE c.op \in {"unreach", "dev", "gw", "flush"}
  <2>1. c.fam \in Fam
    BY <1>1, <1>2 DEF FamOps
  <2>2. CASE c.fam # "v6"
    <3>1. \/ split' = [split EXCEPT !.tbl[c.fam].max = TRUE]
          \/ \E v \in {"dev", "gw", "unreach"} :
                split' = [split EXCEPT !.tbl[c.fam].low = v]
          \/ split' = [split EXCEPT !.tbl[c.fam] = EmptyTable]
      BY <1>2 DEF SplitCmd
    <3>2. split'.tbl["v6"] = split.tbl["v6"]
      BY <1>0, <2>1, <2>2, <3>1 DEF SplitState, Fam
    <3> QED BY <1>0, <3>2
  <2>3. CASE c.fam = "v6"
    <3>1. \/ split' = [split EXCEPT !.tbl["v6"].max = TRUE]
          \/ \E v \in {"dev", "unreach"} :
                split' = [split EXCEPT !.tbl["v6"].low = v]
          \/ split' = [split EXCEPT !.tbl["v6"] = EmptyTable]
      BY <1>2, <2>3 DEF SplitCmd
    <3>2. \/ split'.tbl["v6"] = [split.tbl["v6"] EXCEPT !.max = TRUE]
          \/ \E v \in {"dev", "unreach"} :
                split'.tbl["v6"] = [split.tbl["v6"] EXCEPT !.low = v]
          \/ split'.tbl["v6"] = EmptyTable
      BY <1>0, <3>1 DEF SplitState, Fam
    <3> QED BY <1>0, <3>2 DEF Table60, EmptyTable
  <2> QED BY <2>2, <2>3
<1>3. CASE c.op \notin {"unreach", "dev", "gw", "flush"}
  <2>1. CASE c.op \in {"save", "rm"}
    <3>1. \E v : split' = [split EXCEPT !.file = v]
      BY <2>1 DEF SplitCmd
    <3> QED BY <1>0, <3>1 DEF SplitState
  <2>2. CASE c.op \in {"nft", "delNft"}
    <3>1. \/ split' = [split EXCEPT !.nft = [g \in Fam |->
                                    IF b THEN "tunnel" ELSE "plain"]]
          \/ split' = [split EXCEPT !.nft[c.fam] = "none"]
      BY <2>2 DEF SplitCmd
    <3> QED BY <1>0, <3>1 DEF SplitState
  <2>3. CASE c.op \in {"rule97", "rule98", "rule99"}
    <3>1. \E n \in Pri : split' = [split EXCEPT !.rules = @ \cup {<<c.fam, n>>}]
      BY <2>3 DEF SplitCmd, Pri
    <3> QED BY <1>0, <3>1 DEF SplitState
  <2>4. CASE c.op \in {"del97", "del98", "del99"}
    <3>1. \E n \in Pri : split' = [split EXCEPT !.rules = @ \ {<<c.fam, n>>}]
      BY <2>4 DEF SplitCmd, Pri
    <3> QED BY <1>0, <3>1 DEF SplitState
  <2>5. CASE c.op \in {"markOn", "markOff"}
    <3>1. \/ split' = [split EXCEPT !.svm = 1]
          \/ split' = [split EXCEPT !.svm = 0]
          \/ split' = split
      BY <2>5 DEF SplitCmd
    <3> QED BY <1>0, <3>1 DEF SplitState
  <2> QED BY <1>3, <2>1, <2>2, <2>3, <2>4, <2>5 DEF SplitOps
<1> QED BY <1>2, <1>3

LEMMA NoGw6LinkGone ==
    ASSUME HostTypeOK, NoGw6, LinkGone
    PROVE  NoGw6'
<1>1. /\ split \in SplitState /\ split.tbl["v6"] \in Table60
  BY DEF HostTypeOK, SplitState, Fam
<1>2. split'.tbl["v6"] = IF split.tbl["v6"].low = "dev"
                           THEN [split.tbl["v6"] EXCEPT !.low = "none"]
                           ELSE split.tbl["v6"]
  BY <1>1 DEF LinkGone, SplitState, Fam
<1> QED BY <1>1, <1>2 DEF NoGw6, Table60

LEMMA NoGw6Next ==
    ASSUME TypeOK, NoGw6, [Next]_vars
    PROVE  NoGw6'
<1>0. /\ HostTypeOK /\ inv.opts.split \in BOOLEAN /\ inv.prior \in {0, 1}
  BY DEF TypeOK, Invocation, ConnectOpts
<1>1. CASE split' = split
  BY <1>1 DEF NoGw6
<1>2. CASE LinkGone
  BY <1>0, <1>2, NoGw6LinkGone
<1>3. CASE Exec
  <2> DEFINE c == Head(todo)
  <2>1. c \in Command /\ Do(c)
    BY <1>3 DEF Exec, TypeOK
  <2> HIDE DEF c
  <2>2. CASE c.op \in SplitOps /\ SplitCmd(c, inv.opts.split, inv.prior)
    BY <1>0, <2>1, <2>2, NoGw6Split
  <2>3. CASE ~(c.op \in SplitOps /\ SplitCmd(c, inv.opts.split, inv.prior))
    <3>1. split' = split \/ LinkGone
      BY <2>1, <2>3 DEF Do, WgCmd, RouteCmd, DnsCmd, FirewallCmd, ShimCmd, ConfigCmd
    <3> QED BY <1>1, <1>2, <3>1
  <2> QED BY <2>2, <2>3
<1>4. CASE Reboot
  BY <1>4 DEF Reboot, NoSplit, EmptyTable, NoGw6, Fam
<1>5. split' = split \/ LinkGone \/ Exec \/ Reboot
  BY DEF Next, vars, host, Connect, Disconnect, CommandFails, Advance, Return, Fail,
         Enter, Established, Crash, LinkLost
<1> QED BY <1>1, <1>2, <1>3, <1>4, <1>5

LEMMA HeldRoutes ==
    ASSUME TypeOK, Held, NoGw6, HasV6 \/ ~HasGw6,
           NEW f \in Fam, NEW d \in {"inet", "resolver"}
    PROVE  Routed(f, d) # "plain"
<1>1. split.tbl[f].low # "gw"
  BY HeldFacts DEF DevFam, Fam, NoGw6
<1>2. Lookup60(f) \in {"tunnel", "dropped"}
  BY <1>1, HeldFacts DEF Lookup60
<1>3. /\ split.nft[f] # "none"
      /\ <<f, 97>> \in split.rules /\ <<f, 99>> \in split.rules
  BY HeldFacts
<1> QED BY <1>2, <1>3 DEF Routed

\* The rules and table 60 of a split session suffice without the guard
\* chains (where the device has IPv6 or the host has no IPv6 gateway): no
\* packet to a destination without a specific route, or to the resolver, is
\* routed to the plain network, for every set of relays and any number of
\* faults (installTunnelRoutes: the unreachable defaults stay when the link
\* and its routes go).
THEOREM SplitRoutesFailClosed == NoSplitShim /\ Spec => []RouteFailClosed
<1>1. Init => TypeOK /\ IdleDone /\ HeldInv /\ NoGw6
  <2>1. Init => NoGw6
    BY DEF Init, HostInit, NoSplit, EmptyTable, NoGw6, Fam
  <2> QED BY <2>1, InitType, HeldInit
<1>2. ASSUME NoSplitShim
      PROVE  TypeOK /\ IdleDone /\ HeldInv /\ NoGw6 /\ [Next]_vars
                => (TypeOK /\ IdleDone /\ HeldInv /\ NoGw6)'
  BY <1>2, NextType, HeldNext, NoGw6Next
<1>3. TypeOK /\ HeldInv /\ NoGw6 => RouteFailClosed
  BY HeldRoutes DEF HeldInv, RouteFailClosed
<1>4. ASSUME NoSplitShim PROVE Spec => []RouteFailClosed
  <2>1. TypeOK /\ IdleDone /\ HeldInv /\ NoGw6 /\ [Next]_vars
                => (TypeOK /\ IdleDone /\ HeldInv /\ NoGw6)'
    BY <1>2, <1>4
  <2> QED BY <1>1, <1>3, <2>1, PTL DEF Spec
<1> QED BY <1>4

-----------------------------------------------------------------------------
(* A full session's kill-switch and host route stand.                      *)

\* The phases that build a session, with the one that undoes a failed
\* split.Up of a full session and goes on.
Dialling == Building \cup {"undoSplit"}

\* What the commands of such a phase are.
PhaseOps(p) ==
    CASE p = "save"     -> {"config"}
      [] p = "wg"       -> WgOps
      [] p = "route"    -> {"pin", "default"}
      [] p = "dns"      -> DnsOps
      [] p = "firewall" -> {"dropAll"}
      [] p = "shim"     -> {"start"}
      [] p = "lan"      -> {"lan"}
      [] p \in {"split", "undoSplit"} -> SplitOps

PhaseCmds(p) == {c \in Command : c.op \in PhaseOps(p)}

\* The inductive invariant of KillSwitch.  A full session stands only
\* between invocations: the connect or disconnect that comes next ends it.
\* While one is built, the saved endpoint, the host route and the
\* kill-switch of the relay are there from their phase on, and no command
\* that is left in a later phase takes them away.
GuardInv ==
    /\ sess = "full" => pc = "idle" /\ KillSwitch
    /\ pc \in Dialling \cup {"teardown"} => inv.opts \in Options
    /\ pc \in Dialling => todo \in Seq(PhaseCmds(pc))
    /\ (pc \in Dialling /\ ~inv.opts.split) =>
          /\ \/ cfg.LastEndpoint = inv.opts.relay
             \/ pc = "save" /\ todo # <<>>
          /\ pc # "save" => inv.end = inv.opts.relay
          /\ \/ inv.opts.relay \in route.pins
             \/ pc \in {"save", "wg"}
             \/ pc = "route" /\ todo # <<>> /\ Head(todo).op = "pin"
          /\ \/ fw = inv.opts.relay
             \/ pc \in {"save", "wg", "route", "dns"}
             \/ pc = "firewall" /\ todo # <<>>

LEMMA PhaseOne ==
    ASSUME NEW p, NEW op \in PhaseOps(p), op \in Ops, op \notin FamOps
    PROVE  One(op) \in PhaseCmds(p)
BY AnyOne DEF PhaseCmds, One

LEMMA PhaseCmd ==
    ASSUME NEW p, NEW op \in PhaseOps(p), op \in Ops, NEW f \in Fam
    PROVE  Cmd(op, f) \in PhaseCmds(p)
BY AnyCmd DEF PhaseCmds, Cmd

\* Every phase runs the commands of its own package function.
LEMMA PhasePrograms ==
    /\ <<One("config")>> \in Seq(PhaseCmds("save"))
    /\ WgUp \in Seq(PhaseCmds("wg"))
    /\ RouteSet \in Seq(PhaseCmds("route"))
    /\ DnsSet \in Seq(PhaseCmds("dns"))
    /\ <<One("rmBackup")>> \in Seq(PhaseCmds("dns"))
    /\ <<One("dropAll")>> \in Seq(PhaseCmds("firewall"))
    /\ <<One("start")>> \in Seq(PhaseCmds("shim"))
    /\ <<One("lan")>> \in Seq(PhaseCmds("lan"))
    /\ StripSplit \in Seq(PhaseCmds("undoSplit"))
    /\ SplitUp(FALSE) \in Seq(PhaseCmds("split"))
    /\ SplitUp(TRUE) \in Seq(PhaseCmds("split"))
<1>1. One("config") \in PhaseCmds("save")
  BY PhaseOne DEF PhaseOps, Ops, CfgOps, FamOps
<1>2. \A op \in WgOps : One(op) \in PhaseCmds("wg")
  BY PhaseOne DEF PhaseOps, Ops, WgOps, FamOps
<1>3. One("pin") \in PhaseCmds("route")
  BY PhaseOne DEF PhaseOps, Ops, RouteOps, FamOps
<1>4. \A f \in Fam : Cmd("default", f) \in PhaseCmds("route")
  BY PhaseCmd DEF PhaseOps, Ops, RouteOps
<1>5. \A op \in DnsOps : One(op) \in PhaseCmds("dns")
  BY PhaseOne DEF PhaseOps, Ops, DnsOps, FamOps
<1>6. One("dropAll") \in PhaseCmds("firewall")
  BY PhaseOne DEF PhaseOps, Ops, FwOps, FamOps
<1>7. One("start") \in PhaseCmds("shim")
  BY PhaseOne DEF PhaseOps, Ops, ShimOps, FamOps
<1>8. One("lan") \in PhaseCmds("lan")
  BY PhaseOne DEF PhaseOps, Ops, RouteOps, FamOps
<1>9. /\ PhaseCmds("split") = {c \in Command : c.op \in SplitOps}
      /\ PhaseCmds("undoSplit") = {c \in Command : c.op \in SplitOps}
  BY DEF PhaseCmds, PhaseOps
<1>10. RouteSet \in Seq(PhaseCmds("route"))
  BY <1>3, <1>4 DEF RouteSet, Fam
<1>11. WgUp \in Seq(PhaseCmds("wg"))
  BY <1>2 DEF WgUp, WgOps
<1>12. DnsSet \in Seq(PhaseCmds("dns")) /\ <<One("rmBackup")>> \in Seq(PhaseCmds("dns"))
  BY <1>5 DEF DnsSet, DnsOps
<1>13. /\ StripSplit \in Seq(PhaseCmds("undoSplit"))
       /\ SplitUp(FALSE) \in Seq(PhaseCmds("split"))
       /\ SplitUp(TRUE) \in Seq(PhaseCmds("split"))
  <2> DEFINE S == {c \in Command : c.op \in SplitOps}
  <2>1. \A op \in {"save", "nft", "markOn", "markOff", "rm"} : One(op) \in S
    BY AnyOne DEF One, Ops, SplitOps, FamOps
  <2>2. \A op \in {"rule97", "rule98", "rule99", "unreach", "dev", "gw", "del97",
                   "del98", "del99", "flush", "delNft"} :
          \A f \in {"v4", "v6"} : Cmd(op, f) \in S
    BY AnyCmd DEF Cmd, Ops, SplitOps, Fam
  <2> HIDE DEF S
  <2>3. DelRules \in Seq(S)
    BY <2>2 DEF DelRules
  <2>4. DelRoutes \in Seq(S) /\ NftDel \in Seq(S)
    BY <2>2 DEF DelRoutes, NftDel
  <2>5. <<One("rm"), One("markOff")>> \in Seq(S)
    BY <2>1
  <2>6. StripSplit \in Seq(S)
    BY <2>3, <2>4, <2>5 DEF StripSplit
  <2>7. <<One("save"), One("nft")>> \in Seq(S) /\ <<One("markOn")>> \in Seq(S)
    BY <2>1
  <2>8. InstallRules \in Seq(S) /\ InstallPlainRoutes \in Seq(S)
    BY <2>2 DEF InstallRules, InstallPlainRoutes
  <2>9. /\ <<Cmd("rule97", "v4"), Cmd("rule97", "v6"), Cmd("unreach", "v4"),
             Cmd("unreach", "v6"), Cmd("dev", "v4")>> \in Seq(S)
        /\ <<Cmd("dev", "v6")>> \in Seq(S)
    BY <2>2
  <2>10. InstallTunnelRoutes \in Seq(S)
    BY <2>9 DEF InstallTunnelRoutes
  <2>11. SplitUp(FALSE) \in Seq(S) /\ SplitUp(TRUE) \in Seq(S)
    BY <2>7, <2>8, <2>10 DEF SplitUp
  <2> QED BY <1>9, <2>6, <2>11 DEF S
<1>14. /\ <<One("config")>> \in Seq(PhaseCmds("save"))
       /\ <<One("dropAll")>> \in Seq(PhaseCmds("firewall"))
  BY <1>1, <1>6
<1>15. /\ <<One("start")>> \in Seq(PhaseCmds("shim"))
       /\ <<One("lan")>> \in Seq(PhaseCmds("lan"))
  BY <1>7, <1>8
<1> QED BY <1>10, <1>11, <1>12, <1>13, <1>14, <1>15

LEMMA PhaseProgram ==
    ASSUME TypeOK, NEW p \in Building
    PROVE  Program(p) \in Seq(PhaseCmds(p))
<1>1. inv.opts.split \in BOOLEAN
  BY DEF TypeOK, Invocation, ConnectOpts
<1>2. SplitUp(inv.opts.split) \in Seq(PhaseCmds("split"))
  BY <1>1, PhasePrograms
<1> QED BY <1>2, PhasePrograms, NothingToDo DEF Program, Building

LEMMA GuardInit == Init => GuardInv
BY DEF Init, GuardInv, Dialling, Building

\* An idle step: the invocation is over, or no phase above is running.
LEMMA GuardLeaves ==
    ASSUME pc' \notin Dialling, pc' = "teardown" => inv'.opts \in Options,
           sess' = "full" => pc' = "idle" /\ KillSwitch'
    PROVE  GuardInv'
BY DEF GuardInv

\* A phase that went through leaves what the next one relies on.
LEMMA GuardEnter ==
    ASSUME TypeOK, GuardInv, NEW p \in Building, Enter(p), sess # "full",
           inv.opts \in Options,
           \/ p = "save"
           \/ pc \in Building /\ p = After(pc) /\ todo = <<>>
    PROVE  GuardInv'
<1>0. inv \in Invocation /\ inv.opts.split \in BOOLEAN
  BY DEF TypeOK, Invocation, ConnectOpts
<1>1. /\ pc' = p /\ p \in Dialling /\ sess' # "full"
      /\ cfg' = cfg /\ route' = route /\ fw' = fw
  BY DEF Enter, host, Dialling
<1>2. todo' \in Seq(PhaseCmds(p))
  BY PhaseProgram, NothingToDo DEF Enter
<1>3. /\ inv'.opts = inv.opts
      /\ p # "split" => inv'.end = inv.opts.relay
      /\ p = "split" => inv'.end = inv.end
  <2>1. CASE p = "split"
    <3>1. ReadState \/ UNCHANGED inv
      BY <2>1 DEF Enter
    <3> QED BY <1>0, <2>1, <3>1 DEF ReadState, Invocation
  <2>2. CASE p # "split"
    <3>1. inv' = [inv EXCEPT !.saved = @ \/ p = "wg",
                             !.base = IF p = "wg" THEN HostClean ELSE @,
                             !.end = inv.opts.relay]
      BY <2>2 DEF Enter
    <3> QED BY <1>0, <2>2, <3>1 DEF Invocation
  <2> QED BY <2>1, <2>2
<1>4. CASE p = "save"
  <2>1. todo' = <<One("config")>>
    BY <1>4 DEF Enter, Program
  <2>2. todo' # <<>>
    BY <2>1
  <2> QED BY <1>1, <1>2, <1>3, <1>4, <2>2 DEF GuardInv
<1>5. CASE pc \in Building /\ p = After(pc) /\ todo = <<>>
  <2>1. CASE inv.opts.split
    BY <1>1, <1>2, <1>3, <2>1 DEF GuardInv
  <2>2. CASE ~inv.opts.split
    <3>1. \/ pc = "save" /\ p = "wg"
          \/ pc = "wg" /\ p = "route"
          \/ pc = "route" /\ p = "dns"
          \/ pc = "dns" /\ p = "firewall"
          \/ pc = "firewall" /\ p = "shim"
          \/ pc = "shim" /\ p = "lan"
          \/ pc = "lan" /\ p = "split"
      BY <1>5, <2>2 DEF After, Building
    <3>2. pc \in Dialling /\ todo = <<>>
      BY <1>5 DEF Dialling
    <3>3. p # "save" /\ (p = "split" => inv.end = inv.opts.relay)
      BY <2>2, <3>1, <3>2 DEF GuardInv
    <3>4. cfg.LastEndpoint = inv.opts.relay
      BY <2>2, <3>2 DEF GuardInv
    <3>5. p \notin {"wg", "route"} => inv.opts.relay \in route.pins
      BY <2>2, <3>1, <3>2 DEF GuardInv
    <3>6. p \notin {"wg", "route", "dns", "firewall"} => fw = inv.opts.relay
      BY <2>2, <3>1, <3>2 DEF GuardInv
    <3>7. p = "route" => todo' # <<>> /\ Head(todo').op = "pin"
      <4> SUFFICES ASSUME p = "route" PROVE todo' # <<>> /\ Head(todo').op = "pin"
        OBVIOUS
      <4>1. todo' = RouteSet
        BY DEF Enter, Program
      <4> QED BY <4>1 DEF RouteSet, One
    <3>8. p = "firewall" => todo' # <<>>
      <4> SUFFICES ASSUME p = "firewall" PROVE todo' # <<>>
        OBVIOUS
      <4>1. todo' = <<One("dropAll")>>
        BY DEF Enter, Program
      <4> QED BY <4>1
    <3> QED BY <1>1, <1>2, <1>3, <3>3, <3>4, <3>5, <3>6, <3>7, <3>8 DEF GuardInv
  <2> QED BY <1>0, <2>1, <2>2
<1> QED BY <1>4, <1>5

LEMMA GuardExec ==
    ASSUME TypeOK, IdleDone, GuardInv, Exec
    PROVE  GuardInv'
<1> DEFINE c == Head(todo)
           more == IF c.op = "restore" /\ dns.backup # "none"
                     THEN <<One("rmBackup")>> ELSE <<>>
<1>1. /\ todo \in Seq(Command) /\ todo # <<>> /\ Do(c)
      /\ todo' = more \o Tail(todo)
      /\ pc' = pc /\ inv' = inv /\ sess' = sess
  BY DEF TypeOK, Exec
<1>2. sess # "full"
  BY <1>1 DEF IdleDone, GuardInv
<1>3. CASE pc \notin Dialling
  <2>1. pc = "teardown" => inv.opts \in Options
    BY DEF GuardInv
  <2> QED BY <1>1, <1>2, <1>3, <2>1, GuardLeaves
<1>4. CASE pc \in Dialling
  <2>1. c \in PhaseCmds(pc) /\ Tail(todo) \in Seq(PhaseCmds(pc))
    BY <1>1, <1>4, ElemsHeadTail DEF GuardInv
  <2>2. c.op \in PhaseOps(pc)
    BY <2>1 DEF PhaseCmds
  <2>3. more \in Seq(PhaseCmds(pc))
    <3>1. c.op = "restore" => pc = "dns"
      BY <1>4, <2>2 DEF PhaseOps, Dialling, Building, WgOps, SplitOps
    <3> QED BY <3>1, PhasePrograms, NothingToDo
  <2>4. todo' \in Seq(PhaseCmds(pc))
    <3> HIDE DEF more
    <3> QED BY <1>1, <2>1, <2>3
  <2>5. pc \notin {"save", "dns"} => todo' = Tail(todo)
    <3>1. pc \notin {"save", "dns"} => c.op # "restore"
      BY <1>4, <2>2 DEF PhaseOps, Dialling, Building, WgOps, SplitOps
    <3> QED BY <1>1, <3>1
  <2>6. CASE inv.opts.split
    BY <1>1, <1>2, <1>4, <2>4, <2>6 DEF GuardInv
  <2>7. CASE ~inv.opts.split
    <3>0. HostTypeOK
      BY DEF TypeOK
    <3>1. CASE pc = "save"
      <4>1. c.op = "config"
        BY <2>2, <3>1 DEF PhaseOps
      <4>2. cfg'.LastEndpoint = inv.opts.relay
        BY <1>1, <4>1 DEF Do, ConfigCmd, WgOps, RouteOps, DnsOps, FwOps, ShimOps, SplitOps
      <4> QED BY <1>1, <1>2, <2>4, <3>1, <4>2 DEF GuardInv
    <3>2. CASE pc = "route"
      <4>1. c.op \in {"pin", "default"} /\ inv.end = inv.opts.relay
        BY <1>4, <2>2, <2>7, <3>2 DEF PhaseOps, GuardInv
      <4>2. RouteCmd(c, inv.end)
        BY <1>1, <4>1 DEF Do, WgOps, DnsOps, FwOps, ShimOps, SplitOps, CfgOps
      <4>3. inv.opts.relay # NoRelay
        BY <1>4, SessionAssumption, HostAssumption DEF GuardInv
      <4>4. inv.opts.relay \in route'.pins
        <5>1. CASE c.op = "pin"
          BY <3>0, <4>1, <4>2, <4>3, <5>1 DEF RouteCmd, HostTypeOK
        <5>2. CASE c.op = "default"
          <6>1. inv.opts.relay \in route.pins
            BY <1>4, <2>7, <3>2, <5>2 DEF GuardInv
          <6> QED BY <3>0, <4>2, <5>2, <6>1 DEF RouteCmd, HostTypeOK
        <5> QED BY <4>1, <5>1, <5>2
      <4>5. cfg' = cfg /\ fw' = fw
        BY <4>2 DEF RouteCmd
      <4>6. cfg.LastEndpoint = inv.opts.relay
        BY <1>4, <2>7, <3>2 DEF GuardInv
      <4> QED BY <1>1, <1>2, <1>4, <2>4, <2>7, <3>2, <4>1, <4>4, <4>5, <4>6
              DEF GuardInv
    <3>3. CASE pc = "firewall"
      <4>1. c.op = "dropAll" /\ inv.end = inv.opts.relay
        BY <1>4, <2>2, <2>7, <3>3 DEF PhaseOps, GuardInv
      <4>2. FirewallCmd(c, inv.end)
        BY <1>1, <4>1 DEF Do, WgOps, RouteOps, DnsOps, ShimOps, SplitOps, CfgOps
      <4>3. fw' = inv.opts.relay /\ route' = route /\ cfg' = cfg
        BY <4>1, <4>2 DEF FirewallCmd
      <4>4. cfg.LastEndpoint = inv.opts.relay /\ inv.opts.relay \in route.pins
        BY <1>4, <2>7, <3>3 DEF GuardInv
      <4> QED BY <1>1, <1>2, <1>4, <2>4, <2>7, <3>3, <4>1, <4>3, <4>4
              DEF GuardInv
    <3>4. CASE pc \notin {"save", "route", "firewall"}
      <4>1. c.op \in WgOps \cup DnsOps \cup ShimOps \cup SplitOps \cup {"lan"}
        BY <1>4, <2>2, <3>4 DEF PhaseOps, Dialling, Building, ShimOps
      <4>2. /\ cfg' = cfg /\ fw' = fw
            /\ route'.pins = route.pins
        <5>1. CASE c.op \in WgOps
          <6>1. WgCmd(c)
            BY <1>1, <5>1 DEF Do, RouteOps, DnsOps, FwOps, ShimOps, SplitOps, CfgOps, WgOps
          <6> QED BY <3>0, <6>1 DEF WgCmd, LinkGone, HostTypeOK
        <5>2. CASE c.op \in DnsOps
          <6>1. DnsCmd(c)
            BY <1>1, <5>2 DEF Do, RouteOps, DnsOps, FwOps, ShimOps, SplitOps, CfgOps, WgOps
          <6> QED BY <6>1 DEF DnsCmd
        <5>3. CASE c.op \in ShimOps
          <6>1. ShimCmd(c)
            BY <1>1, <5>3 DEF Do, RouteOps, DnsOps, FwOps, ShimOps, SplitOps, CfgOps, WgOps
          <6> QED BY <6>1 DEF ShimCmd
        <5>4. CASE c.op \in SplitOps
          <6>1. SplitCmd(c, inv.opts.split, inv.prior)
            BY <1>1, <5>4 DEF Do, RouteOps, DnsOps, FwOps, ShimOps, SplitOps, CfgOps, WgOps
          <6> QED BY <6>1 DEF SplitCmd
        <5>5. CASE c.op = "lan"
          <6>1. RouteCmd(c, inv.end)
            BY <1>1, <5>5 DEF Do, RouteOps, DnsOps, FwOps, ShimOps, SplitOps, CfgOps, WgOps
          <6> QED BY <3>0, <5>5, <6>1 DEF RouteCmd, HostTypeOK
        <5> QED BY <4>1, <5>1, <5>2, <5>3, <5>4, <5>5
      <4>3. /\ cfg.LastEndpoint = inv.opts.relay
            /\ inv.end = inv.opts.relay
            /\ inv.opts.relay \in route.pins \/ pc = "wg"
            /\ fw = inv.opts.relay \/ pc \in {"wg", "dns"}
        BY <1>4, <2>7, <3>4 DEF GuardInv
      <4> QED BY <1>1, <1>2, <1>4, <2>4, <2>7, <3>4, <4>2, <4>3 DEF GuardInv
    <3> QED BY <3>1, <3>2, <3>3, <3>4
  <2> QED BY <2>6, <2>7
<1> QED BY <1>3, <1>4

\* The rollback of a full session's split.Up holds split commands only.
LEMMA GuardCommandFails ==
    ASSUME TypeOK, IdleDone, GuardInv, CommandFails
    PROVE  GuardInv'
<1>1. /\ todo \in Seq(Command) /\ todo # <<>> /\ pc # "idle" /\ sess # "full"
      /\ sess' = sess /\ cfg' = cfg /\ route' = route /\ fw' = fw
  BY DEF TypeOK, CommandFails, host, IdleDone, GuardInv
<1>2. inv'.opts = inv.opts /\ inv'.end = inv.end
  BY DEF CommandFails, TypeOK, Invocation
<1>3. CASE pc \in Lenient
  <2>1. pc' = pc /\ todo' = Tail(todo)
    BY <1>3 DEF CommandFails
  <2>2. pc \in Dialling => pc \in {"lan", "undoSplit"}
    BY <1>3 DEF Lenient, Dialling, Building
  <2>3. pc \in Dialling => todo' \in Seq(PhaseCmds(pc))
    BY <1>1, <2>1, ElemsHeadTail DEF GuardInv
  <2> QED BY <1>1, <1>2, <2>1, <2>2, <2>3 DEF GuardInv
<1>4. CASE pc \notin Lenient
  <2>1. /\ pc' = IF pc = "split" /\ ~inv.opts.split THEN "undoSplit" ELSE "undo"
        /\ todo' = Undo(Head(todo))
    BY <1>4 DEF CommandFails
  <2>2. CASE pc = "split" /\ ~inv.opts.split
    <3>1. Undo(Head(todo)) = Rollback(Head(todo)) \o <<>>
      BY <2>2 DEF Undo
    <3>2. Rollback(Head(todo)) \in Seq(PhaseCmds("undoSplit"))
      BY PhasePrograms, NothingToDo DEF Rollback
    <3>3. todo' \in Seq(PhaseCmds("undoSplit"))
      BY <2>1, <3>1, <3>2
    <3>4. pc \in Dialling
      BY <2>2 DEF Dialling, Building
    <3>5. /\ inv.opts \in Options /\ cfg.LastEndpoint = inv.opts.relay
          /\ inv.end = inv.opts.relay /\ inv.opts.relay \in route.pins
          /\ fw = inv.opts.relay
      BY <2>2, <3>4 DEF GuardInv
    <3> QED BY <1>1, <1>2, <2>1, <2>2, <3>3, <3>5 DEF GuardInv
  <2>3. CASE ~(pc = "split" /\ ~inv.opts.split)
    <3>1. pc' = "undo"
      BY <2>1, <2>3
    <3> QED BY <1>1, <3>1, GuardLeaves DEF Dialling, Building
  <2> QED BY <2>2, <2>3
<1> QED BY <1>3, <1>4

LEMMA GuardNext ==
    ASSUME TypeOK, IdleDone, GuardInv, [Next]_vars
    PROVE  GuardInv'
<1>0. inv \in Invocation /\ inv.opts.split \in BOOLEAN
  BY DEF TypeOK, Invocation, ConnectOpts
<1>1. ASSUME NEW o \in Options, Connect(o) PROVE GuardInv'
  <2>1. CASE sess' = "full"
    <3>1. ~NeedsDisconnect /\ sess = "full"
      BY <1>1, <2>1 DEF Connect
    <3>2. fw = NoRelay /\ fw \in route.pins
      BY <3>1 DEF NeedsDisconnect, GuardInv, KillSwitch
    <3>3. fw \in Relays
      BY <3>2 DEF TypeOK, HostTypeOK
    <3> QED BY <3>2, <3>3, HostAssumption
  <2>2. CASE sess' # "full"
    <3>1. pc' \in {"teardown", "save"} /\ inv'.opts = o
      BY <1>1 DEF Connect
    <3>2. CASE pc' = "teardown"
      BY <2>2, <3>1, <3>2, GuardLeaves DEF Dialling, Building
    <3>3. CASE pc' = "save"
      <4>1. todo' = <<One("config")>>
        BY <1>1, <3>3 DEF Connect
      <4>2. todo' \in Seq(PhaseCmds("save")) /\ todo' # <<>>
        BY <4>1, PhasePrograms
      <4> QED BY <2>2, <3>1, <3>3, <4>2 DEF GuardInv
    <3> QED BY <3>1, <3>2, <3>3
  <2> QED BY <2>1, <2>2
<1>2. CASE Disconnect
  <2>1. pc' = "disconnect" /\ sess' = "none"
    BY <1>2 DEF Disconnect
  <2> QED BY <2>1, GuardLeaves DEF Dialling, Building
<1>3. CASE Exec
  BY <1>3, GuardExec
<1>4. CASE CommandFails
  BY <1>4, GuardCommandFails
<1>5. CASE Advance
  <2>1. todo = <<>> /\ pc # "idle" /\ sess # "full"
    BY <1>5 DEF Advance, Building, GuardInv
  <2>2. CASE pc' \in {"idle", "mode"} /\ sess' = sess
    BY <2>1, <2>2, GuardLeaves DEF Dialling, Building
  <2>3. CASE pc = "teardown" /\ Enter("save")
    <3>1. inv.opts \in Options
      BY <2>3 DEF GuardInv
    <3> QED BY <2>1, <2>3, <3>1, GuardEnter DEF Building
  <2>4. CASE pc \in Building /\ After(pc) # "idle" /\ Enter(After(pc))
    <3>1. After(pc) \in Building /\ inv.opts \in Options
      BY <2>4, AfterType DEF GuardInv, Dialling
    <3> QED BY <2>1, <2>4, <3>1, GuardEnter
  <2>5. CASE \/ pc \in Building /\ After(pc) = "idle" /\ Established
             \/ pc = "undoSplit" /\ Established
    <3>1. /\ pc' = "idle" /\ sess' = IF inv.opts.split THEN "split" ELSE "full"
          /\ cfg' = cfg /\ route' = route /\ fw' = fw
      BY <2>5 DEF Established, Return, host
    <3>2. CASE inv.opts.split
      BY <3>1, <3>2, GuardLeaves DEF Dialling, Building
    <3>3. CASE ~inv.opts.split
      <4>1. pc \in {"split", "undoSplit"}
        BY <2>5, <3>3 DEF After, Building
      <4>2. /\ cfg.LastEndpoint = inv.opts.relay /\ fw = inv.opts.relay
            /\ inv.opts.relay \in route.pins
        BY <3>3, <4>1 DEF GuardInv, Dialling, Building
      <4>3. KillSwitch'
        BY <3>1, <4>2 DEF KillSwitch
      <4> QED BY <3>1, <4>3, GuardLeaves DEF Dialling, Building
    <3> QED BY <1>0, <3>2, <3>3
  <2> QED BY <1>5, <2>2, <2>3, <2>4, <2>5 DEF Advance, Return, Fail
<1>6. CASE Crash
  <2>1. pc' = "idle" /\ sess' = sess /\ sess # "full"
    BY <1>6 DEF Crash, GuardInv
  <2> QED BY <2>1, GuardLeaves DEF Dialling, Building
<1>7. CASE LinkLost
  <2>1. /\ pc' = pc /\ todo' = todo /\ inv' = inv /\ sess' = sess
        /\ cfg' = cfg /\ fw' = fw
    BY <1>7 DEF LinkLost
  <2>2. route'.pins = route.pins
    BY <1>7 DEF LinkLost, LinkGone, TypeOK, HostTypeOK
  <2> QED BY <2>1, <2>2 DEF GuardInv, KillSwitch
<1>8. CASE Reboot
  <2>1. pc' = "idle" /\ sess' = "none"
    BY <1>8 DEF Reboot
  <2> QED BY <2>1, GuardLeaves DEF Dialling, Building
<1>9. CASE UNCHANGED vars
  BY <1>9 DEF vars, host, GuardInv, KillSwitch
<1> QED BY <1>1, <1>2, <1>3, <1>4, <1>5, <1>6, <1>7, <1>8, <1>9 DEF Next

\* A full session's kill-switch stands, lets through the relay the saved
\* configuration names, and that relay has its host route: for every set of
\* relays, with or without shims and IPv6, from the connect that returned
\* success (its split.Up failed or not) until a later connect or disconnect
\* takes it down, or a full connect whose queries failed builds over it; over
\* any number of faults (doConnect's order of save, route, firewall, and its
\* return without an undo when only split.Up failed).
THEOREM KillSwitchStands == Spec => []KillSwitch
<1>1. Init => TypeOK /\ IdleDone /\ GuardInv
  BY InitType, GuardInit
<1>2. TypeOK /\ IdleDone /\ GuardInv /\ [Next]_vars
         => (TypeOK /\ IdleDone /\ GuardInv)'
  BY NextType, GuardNext
<1>3. GuardInv => KillSwitch
  BY DEF GuardInv, KillSwitch
<1> QED BY <1>1, <1>2, <1>3, PTL DEF Spec

-----------------------------------------------------------------------------
(* What a step does to each part of the host.                              *)

\* The commands of an invocation, field by field.
LEMMA ExecWg ==
    ASSUME TypeOK, Exec, NEW c, c = Head(todo), c.op \in WgOps
    PROVE  /\ link' = CASE c.op = "linkAdd" -> "down"
                        [] c.op = "linkUp"  -> "up"
                        [] c.op = "linkDel" -> "absent"
                        [] c.op = "linkConf" -> link
           /\ route'.def = IF c.op = "linkDel" THEN {} ELSE route.def
           /\ route'.pins = route.pins /\ route'.lan = route.lan
           /\ dns'.resolv = dns.resolv /\ dns'.backup = dns.backup
           /\ dns'.perLink = IF c.op = "linkDel" THEN FALSE ELSE dns.perLink
           /\ UNCHANGED <<fw, shim, cfg>>
           /\ c.op # "linkDel" => split' = split
           /\ c.op = "linkDel" => LinkGone
<1>1. WgCmd(c)
  BY DEF Exec, Do, WgOps, RouteOps, DnsOps, FwOps, ShimOps, SplitOps, CfgOps
<1>2. HostTypeOK
  BY DEF TypeOK
<1>3. UNCHANGED <<fw, shim, cfg>>
  BY <1>1 DEF WgCmd
<1>4. CASE c.op = "linkDel"
  <2>1. LinkGone
    BY <1>1, <1>4 DEF WgCmd
  <2> QED BY <1>2, <1>3, <1>4, <2>1 DEF LinkGone, HostTypeOK
<1>5. CASE c.op # "linkDel"
  <2>1. UNCHANGED <<route, dns, split>>
    BY <1>1, <1>5 DEF WgCmd
  <2>2. /\ c.op = "linkAdd" => link' = "down"
        /\ c.op = "linkUp" => link' = "up"
        /\ c.op = "linkConf" => link' = link
    BY <1>1 DEF WgCmd
  <2>3. dns'.perLink = dns.perLink
    BY <2>1
  <2> QED BY <1>3, <1>5, <2>1, <2>2, <2>3 DEF WgOps
<1> QED BY <1>4, <1>5

LEMMA ExecRoute ==
    ASSUME TypeOK, Exec, NEW c, c = Head(todo), c.op \in RouteOps
    PROVE  /\ route'.def = CASE c.op = "default" -> route.def \cup {c.fam}
                             [] c.op = "undefault" -> route.def \ {c.fam}
                             [] OTHER -> route.def
           /\ route'.pins = CASE c.op = "pin" -> route.pins \cup ({inv.end} \ {NoRelay})
                              [] c.op = "unpin" -> route.pins \ {inv.end}
                              [] OTHER -> route.pins
           /\ c.op = "lan" => route'.lan
           /\ c.op = "unlan" => ~route'.lan
           /\ c.op \notin {"lan", "unlan"} => route'.lan = route.lan
           /\ UNCHANGED <<link, dns, fw, shim, split, cfg>>
<1>1. RouteCmd(c, inv.end)
  BY DEF Exec, Do, WgOps, RouteOps, DnsOps, FwOps, ShimOps, SplitOps, CfgOps
<1>2. route \in [def : SUBSET Fam, pins : SUBSET Relays, lan : BOOLEAN]
  BY DEF TypeOK, HostTypeOK
<1>3. UNCHANGED <<link, dns, fw, shim, split, cfg>>
  BY <1>1 DEF RouteCmd
<1>4. CASE c.op = "lan"
  <2>1. route' = [route EXCEPT !.lan = TRUE]
    BY <1>1, <1>4 DEF RouteCmd
  <2> QED BY <1>2, <1>3, <1>4, <2>1
<1>5. CASE c.op = "unlan"
  <2>1. route' = [route EXCEPT !.lan = FALSE]
    BY <1>1, <1>5 DEF RouteCmd
  <2> QED BY <1>2, <1>3, <1>5, <2>1
<1>6. CASE c.op \in {"pin", "unpin"}
  <2>1. route' = [route EXCEPT !.pins = IF c.op = "pin" THEN @ \cup ({inv.end} \ {NoRelay})
                                                        ELSE @ \ {inv.end}]
    BY <1>1, <1>6 DEF RouteCmd
  <2> QED BY <1>2, <1>3, <1>6, <2>1
<1>7. CASE c.op \in {"default", "undefault"}
  <2>1. route' = [route EXCEPT !.def = IF c.op = "default" THEN @ \cup {c.fam}
                                                           ELSE @ \ {c.fam}]
    BY <1>1, <1>7 DEF RouteCmd
  <2> QED BY <1>2, <1>3, <1>7, <2>1
<1> QED BY <1>4, <1>5, <1>6, <1>7 DEF RouteOps

LEMMA ExecDns ==
    ASSUME TypeOK, Exec, NEW c, c = Head(todo), c.op \in DnsOps
    PROVE  /\ dns'.resolv = CASE c.op = "resolv" -> "mullvad"
                              [] c.op = "restore" -> IF dns.backup = "none"
                                                       THEN dns.resolv ELSE dns.backup
                              [] OTHER -> dns.resolv
           /\ dns'.backup = CASE c.op = "backup" -> dns.resolv
                              [] c.op = "rmBackup" -> "none"
                              [] OTHER -> dns.backup
           /\ c.op = "setLink" => dns'.perLink
           /\ c.op = "revert" => ~dns'.perLink
           /\ c.op \notin {"setLink", "revert"} => dns'.perLink = dns.perLink
           /\ UNCHANGED <<link, route, fw, shim, split, cfg>>
<1>1. DnsCmd(c)
  BY DEF Exec, Do, WgOps, RouteOps, DnsOps, FwOps, ShimOps, SplitOps, CfgOps
<1>2. dns \in [resolv : {"orig", "mullvad"}, backup : {"none", "orig", "mullvad"},
               perLink : BOOLEAN]
  BY DEF TypeOK, HostTypeOK
<1>3. UNCHANGED <<link, route, fw, shim, split, cfg>>
  BY <1>1 DEF DnsCmd
<1>4. CASE c.op = "setLink"
  <2>1. dns' = [dns EXCEPT !.perLink = TRUE]
    BY <1>1, <1>4 DEF DnsCmd
  <2> QED BY <1>2, <1>3, <1>4, <2>1
<1>5. CASE c.op = "revert"
  <2>1. dns' = [dns EXCEPT !.perLink = FALSE]
    BY <1>1, <1>5 DEF DnsCmd
  <2> QED BY <1>2, <1>3, <1>5, <2>1
<1>6. CASE c.op \in {"backup", "rmBackup"}
  <2>1. dns' = [dns EXCEPT !.backup = IF c.op = "backup" THEN dns.resolv ELSE "none"]
    BY <1>1, <1>6 DEF DnsCmd
  <2> QED BY <1>2, <1>3, <1>6, <2>1
<1>7. CASE c.op \in {"resolv", "restore"}
  <2>1. dns' = [dns EXCEPT !.resolv = IF c.op = "resolv" THEN "mullvad"
                                      ELSE IF dns.backup = "none" THEN @ ELSE dns.backup]
    BY <1>1, <1>2, <1>7 DEF DnsCmd
  <2> QED BY <1>2, <1>3, <1>7, <2>1
<1> QED BY <1>4, <1>5, <1>6, <1>7 DEF DnsOps

LEMMA ExecRest ==
    ASSUME TypeOK, Exec, NEW c, c = Head(todo)
    PROVE  /\ c.op \in FwOps =>
                /\ fw' = IF c.op = "dropAll" THEN inv.end ELSE NoRelay
                /\ UNCHANGED <<link, route, dns, shim, split, cfg>>
           /\ c.op \in ShimOps =>
                /\ shim' = (c.op = "start")
                /\ UNCHANGED <<link, route, dns, fw, split, cfg>>
           /\ c.op \in CfgOps =>
                /\ c.op = "config" => /\ cfg'.LastEndpoint = inv.opts.relay
                                      /\ cfg'.LastSplit = inv.opts.split
                /\ c.op = "mode" => /\ cfg'.LastEndpoint = cfg.LastEndpoint
                                    /\ cfg'.LastSplit = inv.prevMode
                /\ UNCHANGED <<link, route, dns, fw, shim, split>>
           /\ c.op \in SplitOps =>
                /\ SplitCmd(c, inv.opts.split, inv.prior)
                /\ UNCHANGED <<link, route, dns, fw, shim, cfg>>
<1>1. CASE c.op \in FwOps
  <2>1. FirewallCmd(c, inv.end)
    BY <1>1 DEF Exec, Do, WgOps, RouteOps, DnsOps, FwOps, ShimOps, SplitOps, CfgOps
  <2> QED BY <1>1, <2>1 DEF FirewallCmd, FwOps, ShimOps, CfgOps, SplitOps
<1>2. CASE c.op \in ShimOps
  <2>1. ShimCmd(c)
    BY <1>2 DEF Exec, Do, WgOps, RouteOps, DnsOps, FwOps, ShimOps, SplitOps, CfgOps
  <2> QED BY <1>2, <2>1 DEF ShimCmd, FwOps, ShimOps, CfgOps, SplitOps
<1>3. CASE c.op \in CfgOps
  <2>1. ConfigCmd(c, inv.opts.relay, inv.opts.split, inv.prevMode)
    BY <1>3 DEF Exec, Do, WgOps, RouteOps, DnsOps, FwOps, ShimOps, SplitOps, CfgOps
  <2>2. cfg \in [LastEndpoint : Relays \cup {NoRelay}, LastSplit : BOOLEAN]
    BY DEF TypeOK, HostTypeOK
  <2> QED BY <1>3, <2>1, <2>2 DEF ConfigCmd, FwOps, ShimOps, CfgOps, SplitOps
<1>4. CASE c.op \in SplitOps
  <2>1. SplitCmd(c, inv.opts.split, inv.prior)
    BY <1>4 DEF Exec, Do, WgOps, RouteOps, DnsOps, FwOps, ShimOps, SplitOps, CfgOps
  <2> QED BY <1>4, <2>1 DEF SplitCmd, FwOps, ShimOps, CfgOps, SplitOps
<1> QED BY <1>1, <1>2, <1>3, <1>4

\* The split package's state after one of its commands.
LEMMA SplitFields ==
    ASSUME HostTypeOK, NEW c \in Command, c.op \in SplitOps,
           NEW b \in BOOLEAN, NEW p \in {0, 1}, SplitCmd(c, b, p)
    PROVE  /\ c.op \notin {"save", "rm"} => split'.file = split.file
           /\ c.op = "save" => split'.file.present /\ split'.file.SrcValidMark = p
           /\ c.op = "rm" => ~split'.file.present
           /\ c.op \notin {"rule97", "rule98", "rule99", "del97", "del98", "del99"}
                 => split'.rules = split.rules
           /\ c.op = "del97" => split'.rules = split.rules \ {<<c.fam, 97>>}
           /\ c.op = "del98" => split'.rules = split.rules \ {<<c.fam, 98>>}
           /\ c.op = "del99" => split'.rules = split.rules \ {<<c.fam, 99>>}
           /\ c.op \notin {"nft", "delNft"} => split'.nft = split.nft
           /\ c.op = "delNft" => \A f \in Fam : split'.nft[f] =
                                    IF f = c.fam THEN "none" ELSE split.nft[f]
           /\ c.op \notin {"unreach", "dev", "gw", "flush"} => split'.tbl = split.tbl
           /\ c.op = "flush" => \A f \in Fam : split'.tbl[f] =
                                    IF f = c.fam THEN EmptyTable ELSE split.tbl[f]
           /\ c.op \notin {"markOn", "markOff"} => split'.svm = split.svm
           /\ c.op = "markOn" => split'.svm = 1
           /\ c.op = "markOff" => split'.svm = IF p = 0 /\ ~OtherWg THEN 0 ELSE split.svm
<1>0. split \in SplitState
  BY DEF HostTypeOK
<1>1. c.op \in FamOps => c.fam \in Fam
  BY DEF Command
<1>2. CASE c.op = "save"
  <2>1. split' = [split EXCEPT !.file = [present |-> TRUE, Split |-> b, SrcValidMark |-> p]]
    BY <1>2 DEF SplitCmd
  <2> QED BY <1>0, <1>2, <2>1 DEF SplitState
<1>3. CASE c.op = "rm"
  <2>1. split' = [split EXCEPT !.file = NoState]
    BY <1>3 DEF SplitCmd
  <2> QED BY <1>0, <1>3, <2>1 DEF SplitState, NoState
<1>4. CASE c.op = "nft"
  <2>1. split' = [split EXCEPT !.nft = [g \in Fam |-> IF b THEN "tunnel" ELSE "plain"]]
    BY <1>4 DEF SplitCmd
  <2> QED BY <1>0, <1>4, <2>1 DEF SplitState
<1>5. CASE c.op = "delNft"
  <2>1. split' = [split EXCEPT !.nft[c.fam] = "none"]
    BY <1>5 DEF SplitCmd
  <2>2. c.fam \in Fam
    BY <1>1, <1>5 DEF FamOps
  <2> QED BY <1>0, <1>5, <2>1, <2>2 DEF SplitState
<1>6. CASE c.op \in {"rule97", "rule98", "rule99"}
  <2>1. \E n \in Pri : split' = [split EXCEPT !.rules = @ \cup {<<c.fam, n>>}]
    BY <1>6 DEF SplitCmd, Pri
  <2> QED BY <1>0, <1>6, <2>1 DEF SplitState
<1>7. CASE c.op = "del97"
  <2>1. split' = [split EXCEPT !.rules = @ \ {<<c.fam, 97>>}]
    BY <1>7 DEF SplitCmd
  <2> QED BY <1>0, <1>7, <2>1 DEF SplitState
<1>8. CASE c.op = "del98"
  <2>1. split' = [split EXCEPT !.rules = @ \ {<<c.fam, 98>>}]
    BY <1>8 DEF SplitCmd
  <2> QED BY <1>0, <1>8, <2>1 DEF SplitState
<1>9. CASE c.op = "del99"
  <2>1. split' = [split EXCEPT !.rules = @ \ {<<c.fam, 99>>}]
    BY <1>9 DEF SplitCmd
  <2> QED BY <1>0, <1>9, <2>1 DEF SplitState
<1>10. CASE c.op \in {"unreach", "dev", "gw"}
  <2>1. \/ split' = [split EXCEPT !.tbl[c.fam].max = TRUE]
        \/ \E v \in {"dev", "gw", "unreach"} :
              split' = [split EXCEPT !.tbl[c.fam].low = v]
    BY <1>10 DEF SplitCmd
  <2> QED BY <1>0, <1>10, <2>1 DEF SplitState
<1>11. CASE c.op = "flush"
  <2>1. split' = [split EXCEPT !.tbl[c.fam] = EmptyTable]
    BY <1>11 DEF SplitCmd
  <2>2. c.fam \in Fam
    BY <1>1, <1>11 DEF FamOps
  <2> QED BY <1>0, <1>11, <2>1, <2>2 DEF SplitState
<1>12. CASE c.op = "markOn"
  <2>1. split' = [split EXCEPT !.svm = 1]
    BY <1>12 DEF SplitCmd
  <2> QED BY <1>0, <1>12, <2>1 DEF SplitState
<1>13. CASE c.op = "markOff"
  <2>1. split' = IF p = 0 /\ ~OtherWg THEN [split EXCEPT !.svm = 0] ELSE split
    BY <1>13 DEF SplitCmd
  <2> QED BY <1>0, <1>13, <2>1 DEF SplitState
<1> QED BY <1>2, <1>3, <1>4, <1>5, <1>6, <1>7, <1>8, <1>9, <1>10, <1>11,
           <1>12, <1>13 DEF SplitOps

LEMMA LinkGoneFields ==
    ASSUME HostTypeOK, LinkGone
    PROVE  /\ link' = "absent"
           /\ route'.def = {} /\ route'.pins = route.pins /\ route'.lan = route.lan
           /\ dns'.resolv = dns.resolv /\ dns'.backup = dns.backup /\ ~dns'.perLink
           /\ split'.file = split.file /\ split'.rules = split.rules
           /\ split'.nft = split.nft /\ split'.svm = split.svm
           /\ \A f \in Fam : split.tbl[f] = EmptyTable => split'.tbl[f] = EmptyTable
<1>0. split \in SplitState
  BY DEF HostTypeOK
<1>1. /\ route' = [route EXCEPT !.def = {}] /\ dns' = [dns EXCEPT !.perLink = FALSE]
      /\ link' = "absent"
  BY DEF LinkGone
<1>2. /\ route'.def = {} /\ route'.pins = route.pins /\ route'.lan = route.lan
      /\ dns'.resolv = dns.resolv /\ dns'.backup = dns.backup /\ ~dns'.perLink
  BY <1>1 DEF HostTypeOK
<1>3. /\ split'.file = split.file /\ split'.rules = split.rules
      /\ split'.nft = split.nft /\ split'.svm = split.svm
  BY <1>0 DEF LinkGone, SplitState
<1>4. ASSUME NEW f \in Fam, split.tbl[f] = EmptyTable PROVE split'.tbl[f] = EmptyTable
  <2>1. split'.tbl[f] = IF split.tbl[f].low = "dev"
                          THEN [split.tbl[f] EXCEPT !.low = "none"] ELSE split.tbl[f]
    BY <1>0 DEF LinkGone, SplitState
  <2> QED BY <1>4, <2>1 DEF EmptyTable
<1> QED BY <1>1, <1>2, <1>3, <1>4

\* The locals of an invocation that goes on or returns.
LEMMA EnterFields ==
    ASSUME TypeOK, NEW p \in Building, Enter(p)
    PROVE  /\ pc' = p /\ UNCHANGED <<host, budget>>
           /\ inv'.verb = inv.verb /\ inv'.opts = inv.opts
           /\ inv'.prevMode = inv.prevMode /\ inv'.err = inv.err
           /\ inv'.ok = inv.ok /\ inv'.fails = inv.fails
           /\ p # "wg" => inv'.saved = inv.saved /\ inv'.base = inv.base
           /\ p = "wg" => inv'.saved /\ inv'.base = HostClean
           /\ p # "split" => inv'.end = inv.opts.relay /\ inv'.prior = inv.prior
           /\ p = "split" => inv'.end = inv.end
           /\ p # "split" => todo' = Program(p) /\ sess' = sess
           /\ p = "split" => \/ todo' = <<>> /\ ~inv.opts.split
                             \/ /\ todo' = SplitUp(inv.opts.split)
                                /\ inv'.prior = IF split.file.present
                                                  THEN split.file.SrcValidMark
                                                  ELSE split.svm
           /\ inv.opts.split => sess' = sess
<1>0. inv \in Invocation
  BY DEF TypeOK
<1>1. pc' = p /\ UNCHANGED <<host, budget>>
  BY DEF Enter
<1>2. inv.opts.split => sess' = sess
  BY DEF Enter
<1>3. CASE p = "split"
  <2>1. CASE todo' = <<>> /\ ~inv.opts.split /\ UNCHANGED inv
    BY <1>1, <1>2, <1>3, <2>1
  <2>2. CASE todo' = SplitUp(inv.opts.split) /\ ReadState
    <3> DEFINE ps == split.file.present /\ split.file.Split /\ inv.opts.split
               pr == IF split.file.present THEN split.file.SrcValidMark ELSE split.svm
    <3>1. inv' = [inv EXCEPT !.prevSplit = ps, !.prior = pr]
      BY <2>2 DEF ReadState
    <3> HIDE DEF ps
    <3>2. /\ inv'.verb = inv.verb /\ inv'.opts = inv.opts
          /\ inv'.prevMode = inv.prevMode /\ inv'.err = inv.err
          /\ inv'.ok = inv.ok /\ inv'.fails = inv.fails
          /\ inv'.saved = inv.saved /\ inv'.base = inv.base
          /\ inv'.end = inv.end /\ inv'.prior = pr
      BY <1>0, <3>1 DEF Invocation
    <3> QED BY <1>1, <1>2, <1>3, <2>2, <3>2
  <2> QED BY <1>3, <2>1, <2>2 DEF Enter, Program
<1>4. CASE p # "split"
  <2> DEFINE sv == inv.saved \/ p = "wg"
             bs == IF p = "wg" THEN HostClean ELSE inv.base
  <2>1. /\ inv' = [inv EXCEPT !.saved = sv, !.base = bs, !.end = inv.opts.relay]
        /\ todo' = Program(p) /\ sess' = sess
    BY <1>4 DEF Enter
  <2> HIDE DEF sv, bs
  <2>2. /\ inv'.verb = inv.verb /\ inv'.opts = inv.opts
        /\ inv'.prevMode = inv.prevMode /\ inv'.err = inv.err
        /\ inv'.ok = inv.ok /\ inv'.fails = inv.fails
        /\ inv'.saved = sv /\ inv'.base = bs
        /\ inv'.end = inv.opts.relay /\ inv'.prior = inv.prior
    BY <1>0, <2>1 DEF Invocation
  <2>3. /\ p # "wg" => inv'.saved = inv.saved /\ inv'.base = inv.base
        /\ p = "wg" => inv'.saved /\ inv'.base = HostClean
    <3>1. inv.saved \in BOOLEAN
      BY <1>0 DEF Invocation
    <3> QED BY <2>2, <3>1 DEF sv, bs
  <2> QED BY <1>1, <1>2, <1>4, <2>1, <2>2, <2>3
<1> QED BY <1>3, <1>4

LEMMA ReturnFields ==
    ASSUME TypeOK, NEW ok \in BOOLEAN, Return(ok)
    PROVE  /\ pc' = "idle" /\ todo' = <<>>
           /\ inv'.verb = inv.verb /\ inv'.opts = inv.opts
           /\ inv'.prevMode = inv.prevMode /\ inv'.saved = inv.saved
           /\ inv'.ok = ok /\ inv'.fails = inv.fails /\ inv'.base = inv.base
           /\ inv'.prior = inv.prior
BY DEF TypeOK, Invocation, Return

LEMMA FailsFields ==
    ASSUME TypeOK, CommandFails
    PROVE  /\ inv'.verb = inv.verb /\ inv'.opts = inv.opts /\ inv'.end = inv.end
           /\ inv'.prevMode = inv.prevMode /\ inv'.saved = inv.saved
           /\ inv'.ok = inv.ok /\ inv'.fails = inv.fails + 1
           /\ inv'.base = inv.base /\ inv'.prior = inv.prior
           /\ inv.fails \in Nat
           /\ UNCHANGED <<host, sess>> /\ todo # <<>>
           /\ pc \in Lenient => todo' = Tail(todo) /\ pc' = pc
           /\ pc \notin Lenient =>
                 /\ todo' = Undo(Head(todo))
                 /\ pc' = IF pc = "split" /\ ~inv.opts.split THEN "undoSplit" ELSE "undo"
<1>0. inv \in Invocation
  BY DEF TypeOK
<1> DEFINE e == \/ inv.err
                \/ /\ pc \in {"teardown", "disconnect"}
                   /\ Head(todo).op \notin SplitOps \cup {"unlan"}
<1>1. \/ inv' = [inv EXCEPT !.fails = inv.fails + 1, !.err = e]
      \/ inv' = [inv EXCEPT !.fails = inv.fails + 1]
  BY DEF CommandFails
<1> HIDE DEF e
<1>2. /\ inv'.verb = inv.verb /\ inv'.opts = inv.opts /\ inv'.end = inv.end
      /\ inv'.prevMode = inv.prevMode /\ inv'.saved = inv.saved
      /\ inv'.ok = inv.ok /\ inv'.fails = inv.fails + 1
      /\ inv'.base = inv.base /\ inv'.prior = inv.prior
      /\ inv.fails \in Nat
  BY <1>0, <1>1 DEF Invocation
<1>3. /\ UNCHANGED <<host, sess>> /\ todo # <<>>
      /\ pc \in Lenient => todo' = Tail(todo) /\ pc' = pc
      /\ pc \notin Lenient =>
            /\ todo' = Undo(Head(todo))
            /\ pc' = IF pc = "split" /\ ~inv.opts.split THEN "undoSplit" ELSE "undo"
  BY DEF CommandFails
<1> QED BY <1>2, <1>3

LEMMA ExecFields ==
    ASSUME TypeOK, Exec, NEW c, c = Head(todo)
    PROVE  /\ c \in Command /\ todo # <<>> /\ Tail(todo) \in Seq(Command)
           /\ UNCHANGED <<pc, inv, sess, budget>>
           /\ Elems(todo) = {c} \cup Elems(Tail(todo))
           /\ c.op # "restore" \/ dns.backup = "none" => todo' = Tail(todo)
           /\ c.op = "restore" /\ dns.backup # "none" =>
                 /\ todo' = <<One("rmBackup")>> \o Tail(todo)
                 /\ Elems(todo') = {One("rmBackup")} \cup Elems(Tail(todo))
<1>1. todo \in Seq(Command) /\ todo # <<>> /\ UNCHANGED <<pc, inv, sess, budget>>
  BY DEF Exec, TypeOK
<1> DEFINE rest == Tail(todo)
<1>2. /\ c \in Command /\ rest \in Seq(Command)
      /\ Elems(todo) = {c} \cup Elems(rest)
  BY <1>1, ElemsHeadTail
<1>3. /\ c.op # "restore" \/ dns.backup = "none" => todo' = <<>> \o rest
      /\ c.op = "restore" /\ dns.backup # "none" => todo' = <<One("rmBackup")>> \o rest
  BY DEF Exec
<1> HIDE DEF rest
<1>4. <<>> \o rest = rest
  BY <1>2
<1>5. <<One("rmBackup")>> \in Seq(Command)
  BY OtherPrograms, OtherCommand
<1> DEFINE one == <<One("rmBackup")>>
<1>6. Elems(one) = {One("rmBackup")}
  BY ElemsTuple1
<1>7. one \in Seq(Command)
  BY <1>5
<1> HIDE DEF one
<1>8. Elems(one \o rest) = Elems(one) \cup Elems(rest)
  BY <1>2, <1>7, ElemsConcat
<1> QED BY <1>1, <1>2, <1>3, <1>4, <1>6, <1>8 DEF rest, one

-----------------------------------------------------------------------------
(* What the fault budget tells of the past.                                *)

BudgetInv == \A k \in Faults : budget[k] <= Budget[k]

LEMMA SpendHistory ==
    ASSUME TypeOK, BudgetInv, NEW k \in Faults, Spend(k)
    PROVE  /\ BudgetInv'
           /\ budget'[k] < Budget[k]
           /\ \A j \in Faults : budget'[j] <= budget[j]
<1>1. /\ budget \in [Faults -> Nat] /\ Budget \in [Faults -> Nat]
      /\ \A j \in Faults : budget[j] <= Budget[j]
      /\ budget[k] > 0 /\ budget' = [budget EXCEPT ![k] = @ - 1]
  BY SessionAssumption DEF TypeOK, BudgetInv, Spend
<1>2. ASSUME NEW j \in Faults PROVE budget'[j] <= budget[j] /\ budget'[j] <= Budget[j]
  <2>1. budget'[j] = IF j = k THEN budget[k] - 1 ELSE budget[j]
    BY <1>1
  <2> QED BY <1>1, <2>1
<1>3. budget'[k] < Budget[k]
  BY <1>1
<1> QED BY <1>2, <1>3 DEF BudgetInv

LEMMA FailSpent == ASSUME TypeOK, BudgetInv, Spend("fail") PROVE ~NoneFailed'
<1>1. "fail" \in Faults
  BY DEF Faults
<1>2. budget'["fail"] < Budget["fail"]
  BY <1>1, SpendHistory
<1>3. budget'["fail"] \in Nat /\ Budget["fail"] \in Nat
  BY <1>1, SpendType, SessionAssumption
<1> QED BY <1>2, <1>3 DEF NoneFailed

LEMMA History ==
    ASSUME TypeOK, BudgetInv, [Next]_vars
    PROVE  /\ BudgetInv'
           /\ NoneFailed' => NoneFailed
           /\ NoneKilled' => NoneKilled
           /\ NoLoss' => NoLoss
           /\ NoReboot' => NoReboot
           /\ Crash => ~NoneKilled'
           /\ LinkLost => ~NoLoss'
           /\ Reboot => ~NoReboot'
           /\ CommandFails /\ NoneFailed' => Refused(Head(todo), inv.end)
<1>0. /\ budget \in [Faults -> Nat] /\ Budget \in [Faults -> Nat]
      /\ \A j \in Faults : budget[j] <= Budget[j]
      /\ {"crash", "fail", "loss", "reboot"} \subseteq Faults
  BY SessionAssumption DEF TypeOK, BudgetInv, Faults
<1>1. budget' = budget \/ \E k \in Faults : Spend(k)
  BY <1>0 DEF Next, vars, Connect, Disconnect, Exec, CommandFails, Advance, Return,
         Fail, Enter, Established, Crash, LinkLost, Reboot
<1>2. /\ BudgetInv'
      /\ \A j \in Faults : budget'[j] <= budget[j] /\ budget'[j] \in Nat
  <2>1. CASE budget' = budget
    BY <1>0, <2>1 DEF BudgetInv
  <2>2. CASE \E k \in Faults : Spend(k)
    BY <2>2, SpendHistory, SpendType
  <2> QED BY <1>1, <2>1, <2>2
<1>3. /\ Spend("crash") => budget'["crash"] < Budget["crash"]
      /\ Spend("loss") => budget'["loss"] < Budget["loss"]
      /\ Spend("reboot") => budget'["reboot"] < Budget["reboot"]
      /\ Spend("fail") => budget'["fail"] < Budget["fail"]
  BY <1>0, SpendHistory
<1>4. /\ NoneFailed' => NoneFailed
      /\ NoneKilled' => NoneKilled
      /\ NoLoss' => NoLoss
      /\ NoReboot' => NoReboot
  BY <1>0, <1>2 DEF NoneFailed, NoneKilled, NoLoss, NoReboot
<1>5. /\ Crash => ~NoneKilled'
      /\ LinkLost => ~NoLoss'
      /\ Reboot => ~NoReboot'
  BY <1>0, <1>2, <1>3 DEF NoneKilled, NoLoss, NoReboot, Crash, LinkLost, Reboot
<1>6. CommandFails /\ NoneFailed' => Refused(Head(todo), inv.end)
  BY <1>0, <1>2, <1>3 DEF NoneFailed, CommandFails
<1> QED BY <1>2, <1>4, <1>5, <1>6

-----------------------------------------------------------------------------
(* The order in which a session is taken down.                             *)

\* x is still to be run.
Left(x) == x \in Elems(todo)

\* The commands that take split routing off the kernel.
Unmake == {"del97", "del98", "del99", "flush", "delNft"}

\* The commands of teardowns and undos.
RemoveOps == Unmake \cup {"rm", "markOff", "unlan", "stop", "undrop", "restore",
                          "rmBackup", "revert", "undefault", "unpin", "linkDel"}

RemoveCmds == {c \in Command : /\ c.op \in RemoveOps
                               /\ c.op \notin FamOps => c = One(c.op)}

\* The link goes last; the state file goes after all it announces, and the
\* sysctl after the state file.
Before(a, b) == /\ a.op # "linkDel"
                /\ a.op = "rm" => b.op \notin Unmake
                /\ a.op = "markOff" => b.op # "rm"

Ordered(s) == \A i, j \in 1..Len(s) : i < j => Before(s[i], s[j])

\* What split.down takes off.
Stripped == {Cmd(op, f) : op \in Unmake, f \in Fam} \cup {One("rm"), One("markOff")}

LEMMA ElemsTuples ==
    /\ \A a, b : Elems(<<a, b>>) = {a, b}
    /\ \A a, b, c : Elems(<<a, b, c>>) = {a, b, c}
<1>1. ASSUME NEW a, NEW b PROVE Elems(<<a, b>>) = {a, b}
  <2> DEFINE s == <<a, b>>
  <2>1. 1..Len(s) = {1, 2} /\ s[1] = a /\ s[2] = b
    OBVIOUS
  <2> HIDE DEF s
  <2> QED BY <2>1 DEF Elems, s
<1>2. ASSUME NEW a, NEW b, NEW c PROVE Elems(<<a, b, c>>) = {a, b, c}
  <2> DEFINE s == <<a, b, c>>
  <2>1. 1..Len(s) = {1, 2, 3} /\ s[1] = a /\ s[2] = b /\ s[3] = c
    OBVIOUS
  <2> HIDE DEF s
  <2> QED BY <2>1 DEF Elems, s
<1> QED BY <1>1, <1>2

LEMMA OrderedShort == Ordered(<<>>) /\ \A a : Ordered(<<a>>)
BY DEF Ordered

LEMMA OrderedConcat ==
    ASSUME NEW S, NEW s \in Seq(S), NEW t \in Seq(S), Ordered(s), Ordered(t),
           \A x \in Elems(s), y \in Elems(t) : Before(x, y)
    PROVE  Ordered(s \o t)
<1> DEFINE st == s \o t
<1>0. /\ Len(st) = Len(s) + Len(t) /\ Len(s) \in Nat /\ Len(t) \in Nat
      /\ \A i \in 1..Len(s) : st[i] = s[i]
      /\ \A i \in 1..Len(st) : i > Len(s) => st[i] = t[i - Len(s)]
  OBVIOUS
<1> HIDE DEF st
<1> SUFFICES ASSUME NEW i \in 1..Len(st), NEW j \in 1..Len(st), i < j
             PROVE  Before(st[i], st[j])
  BY DEF Ordered, st
<1>1. CASE j <= Len(s)
  <2>1. i \in 1..Len(s) /\ j \in 1..Len(s)
    BY <1>0, <1>1
  <2>2. Before(s[i], s[j])
    BY <2>1 DEF Ordered
  <2> QED BY <1>0, <2>1, <2>2
<1>2. CASE i > Len(s)
  <2>1. i - Len(s) \in 1..Len(t) /\ j - Len(s) \in 1..Len(t) /\ i - Len(s) < j - Len(s)
    BY <1>0, <1>2
  <2>2. Before(t[i - Len(s)], t[j - Len(s)])
    BY <2>1 DEF Ordered
  <2>3. st[i] = t[i - Len(s)] /\ st[j] = t[j - Len(s)]
    BY <1>0, <1>2
  <2> QED BY <2>2, <2>3
<1>3. CASE i <= Len(s) /\ j > Len(s)
  <2>1. i \in 1..Len(s) /\ j - Len(s) \in 1..Len(t)
    BY <1>0, <1>3
  <2>2. s[i] \in Elems(s) /\ t[j - Len(s)] \in Elems(t)
    BY <2>1 DEF Elems
  <2>3. Before(s[i], t[j - Len(s)])
    BY <2>2
  <2>4. st[i] = s[i] /\ st[j] = t[j - Len(s)]
    BY <1>0, <1>3, <2>1
  <2> QED BY <2>3, <2>4
<1> QED BY <1>0, <1>1, <1>2, <1>3

LEMMA OrderedHead ==
    ASSUME NEW S, NEW s \in Seq(S), s # <<>>, Ordered(s)
    PROVE  /\ Ordered(Tail(s))
           /\ Head(s).op = "linkDel" => Tail(s) = <<>>
           /\ \A x \in Elems(Tail(s)) : Before(Head(s), x)
<1>0. /\ Len(s) \in Nat \ {0} /\ Len(Tail(s)) = Len(s) - 1 /\ Head(s) = s[1]
      /\ \A i \in 1..Len(Tail(s)) : Tail(s)[i] = s[i + 1]
  OBVIOUS
<1>1. Ordered(Tail(s))
  <2> SUFFICES ASSUME NEW i \in 1..Len(Tail(s)), NEW j \in 1..Len(Tail(s)), i < j
               PROVE  Before(Tail(s)[i], Tail(s)[j])
    BY DEF Ordered
  <2>1. i + 1 \in 1..Len(s) /\ j + 1 \in 1..Len(s) /\ i + 1 < j + 1
    BY <1>0
  <2>2. Before(s[i + 1], s[j + 1])
    BY <2>1 DEF Ordered
  <2> QED BY <1>0, <2>2
<1>2. ASSUME NEW x \in Elems(Tail(s)) PROVE Before(Head(s), x)
  <2>1. PICK i \in 1..Len(Tail(s)) : x = Tail(s)[i]
    BY DEF Elems
  <2>2. 1 \in 1..Len(s) /\ i + 1 \in 1..Len(s) /\ 1 < i + 1 /\ x = s[i + 1]
    BY <1>0, <2>1
  <2>3. Before(s[1], s[i + 1])
    BY <2>2 DEF Ordered
  <2> QED BY <1>0, <2>2, <2>3
<1>3. ASSUME Head(s).op = "linkDel" PROVE Tail(s) = <<>>
  <2>1. CASE Len(s) = 1
    <3>1. Tail(s) \in Seq(S) /\ Len(Tail(s)) = 0
      BY <1>0, <2>1
    <3> QED BY <3>1, EmptySeq
  <2>2. CASE Len(s) # 1
    <3>1. 1 \in 1..Len(Tail(s))
      BY <1>0, <2>2
    <3>2. Tail(s)[1] \in Elems(Tail(s))
      BY <3>1 DEF Elems
    <3> QED BY <1>2, <1>3, <3>2 DEF Before
  <2> QED BY <2>1, <2>2
<1> QED BY <1>1, <1>2, <1>3

\* Sequences that hold none of the three ordered commands.
LEMMA OrderedPlain ==
    ASSUME NEW S, NEW s \in Seq(S),
           \A x \in Elems(s) : x.op \notin {"linkDel", "rm", "markOff"}
    PROVE  Ordered(s)
<1> SUFFICES ASSUME NEW i \in 1..Len(s), NEW j \in 1..Len(s) PROVE Before(s[i], s[j])
  BY DEF Ordered
<1>1. s[i] \in Elems(s)
  BY DEF Elems
<1> QED BY <1>1 DEF Before

LEMMA RemoveOne ==
    ASSUME NEW op \in RemoveOps, op \notin FamOps
    PROVE  One(op) \in RemoveCmds
<1>1. op \in Ops
  BY DEF RemoveOps, Unmake, Ops, WgOps, RouteOps, DnsOps, FwOps, ShimOps, SplitOps
<1>2. One(op) \in Command
  BY <1>1, AnyOne
<1> QED BY <1>2 DEF RemoveCmds, One

LEMMA RemoveCmd ==
    ASSUME NEW op \in RemoveOps, op \in FamOps, NEW f \in Fam
    PROVE  Cmd(op, f) \in RemoveCmds
<1>1. op \in Ops
  BY DEF RemoveOps, Unmake, Ops, WgOps, RouteOps, DnsOps, FwOps, ShimOps, SplitOps
<1>2. Cmd(op, f) \in Command
  BY <1>1, AnyCmd
<1> QED BY <1>2 DEF RemoveCmds, Cmd

\* The sequences of the teardowns, what is in them and in which order.
LEMMA DownParts ==
    /\ WgDown \in Seq(RemoveCmds) /\ Elems(WgDown) = {One("linkDel")}
    /\ RouteUnset \in Seq(RemoveCmds)
    /\ Elems(RouteUnset) = {Cmd("undefault", "v4"), Cmd("undefault", "v6"), One("unpin")}
    /\ DnsRestore \in Seq(RemoveCmds)
    /\ Elems(DnsRestore) = {One(IF FileDns THEN "restore" ELSE "revert")}
    /\ <<One("undrop")>> \in Seq(RemoveCmds) /\ Elems(<<One("undrop")>>) = {One("undrop")}
    /\ <<One("unpin")>> \in Seq(RemoveCmds) /\ Elems(<<One("unpin")>>) = {One("unpin")}
    /\ <<Cmd("undefault", "v4")>> \in Seq(RemoveCmds)
    /\ Elems(<<Cmd("undefault", "v4")>>) = {Cmd("undefault", "v4")}
    /\ <<One("rmBackup")>> \in Seq(RemoveCmds)
<1>1. \A op \in {"linkDel", "unpin", "restore", "revert", "undrop", "rmBackup"} :
         One(op) \in RemoveCmds
  BY RemoveOne DEF RemoveOps, FamOps, Unmake
<1>2. \A f \in {"v4", "v6"} : Cmd("undefault", f) \in RemoveCmds
  BY RemoveCmd DEF RemoveOps, FamOps, Fam
<1>3. /\ WgDown \in Seq(RemoveCmds) /\ DnsRestore \in Seq(RemoveCmds)
      /\ RouteUnset \in Seq(RemoveCmds)
  BY <1>1, <1>2 DEF WgDown, DnsRestore, RouteUnset
<1>4. /\ <<One("undrop")>> \in Seq(RemoveCmds) /\ <<One("unpin")>> \in Seq(RemoveCmds)
      /\ <<Cmd("undefault", "v4")>> \in Seq(RemoveCmds)
      /\ <<One("rmBackup")>> \in Seq(RemoveCmds)
  BY <1>1, <1>2
<1>5. Elems(WgDown) = {One("linkDel")}
  BY ElemsTuple1 DEF WgDown
<1>6. Elems(DnsRestore) = {One(IF FileDns THEN "restore" ELSE "revert")}
  BY ElemsTuple1 DEF DnsRestore
<1>7. Elems(RouteUnset) = {Cmd("undefault", "v4"), Cmd("undefault", "v6"), One("unpin")}
  BY ElemsTuples DEF RouteUnset
<1> QED BY <1>3, <1>4, <1>5, <1>6, <1>7, ElemsTuple1

\* Appending WgDown to commands that are none of the three.
LEMMA ThenWgDown ==
    ASSUME NEW s \in Seq(RemoveCmds),
           \A x \in Elems(s) : x.op \notin {"linkDel", "rm", "markOff"}
    PROVE  /\ s \o WgDown \in Seq(RemoveCmds)
           /\ Ordered(s \o WgDown)
           /\ Elems(s \o WgDown) = Elems(s) \cup {One("linkDel")}
<1>1. WgDown \in Seq(RemoveCmds) /\ Elems(WgDown) = {One("linkDel")}
  BY DownParts
<1>2. Ordered(s)
  BY OrderedPlain
<1>3. Ordered(WgDown)
  BY OrderedShort DEF WgDown
<1>4. \A x \in Elems(s), y \in Elems(WgDown) : Before(x, y)
  BY DEF Before
<1>5. Elems(s \o WgDown) = Elems(s) \cup Elems(WgDown)
  BY <1>1, ElemsConcat
<1>6. Ordered(s \o WgDown)
  BY <1>1, <1>2, <1>3, <1>4, OrderedConcat
<1>7. s \o WgDown \in Seq(RemoveCmds)
  BY <1>1
<1> QED BY <1>1, <1>5, <1>6, <1>7

LEMMA UnsetParts ==
    /\ RouteUnset \o WgDown \in Seq(RemoveCmds)
    /\ Ordered(RouteUnset \o WgDown)
    /\ Elems(RouteUnset \o WgDown) = Elems(RouteUnset) \cup {One("linkDel")}
    /\ FirewallUndo \in Seq(RemoveCmds)
    /\ Ordered(FirewallUndo)
    /\ Elems(FirewallUndo) = Elems(DnsRestore) \cup Elems(RouteUnset) \cup {One("linkDel")}
    /\ <<One("undrop")>> \o FirewallUndo \in Seq(RemoveCmds)
    /\ Ordered(<<One("undrop")>> \o FirewallUndo)
    /\ Elems(<<One("undrop")>> \o FirewallUndo) = {One("undrop")} \cup Elems(FirewallUndo)
<1>1. \A x \in Elems(RouteUnset) \cup Elems(DnsRestore) :
         x.op \notin {"linkDel", "rm", "markOff"}
  BY DownParts DEF Cmd, One
<1>2. /\ RouteUnset \o WgDown \in Seq(RemoveCmds)
      /\ Ordered(RouteUnset \o WgDown)
      /\ Elems(RouteUnset \o WgDown) = Elems(RouteUnset) \cup {One("linkDel")}
  BY <1>1, DownParts, ThenWgDown
<1>3. /\ DnsRestore \o RouteUnset \in Seq(RemoveCmds)
      /\ Elems(DnsRestore \o RouteUnset) = Elems(DnsRestore) \cup Elems(RouteUnset)
  <2>1. DnsRestore \in Seq(RemoveCmds) /\ RouteUnset \in Seq(RemoveCmds)
    BY DownParts
  <2> QED BY <2>1, ElemsConcat
<1>4. /\ FirewallUndo \in Seq(RemoveCmds)
      /\ Ordered(FirewallUndo)
      /\ Elems(FirewallUndo) = Elems(DnsRestore) \cup Elems(RouteUnset) \cup {One("linkDel")}
  <2>1. \A x \in Elems(DnsRestore \o RouteUnset) : x.op \notin {"linkDel", "rm", "markOff"}
    BY <1>1, <1>3
  <2>2. /\ (DnsRestore \o RouteUnset) \o WgDown \in Seq(RemoveCmds)
        /\ Ordered((DnsRestore \o RouteUnset) \o WgDown)
        /\ Elems((DnsRestore \o RouteUnset) \o WgDown)
             = Elems(DnsRestore \o RouteUnset) \cup {One("linkDel")}
    BY <1>3, <2>1, ThenWgDown
  <2> QED BY <1>3, <2>2 DEF FirewallUndo
<1> DEFINE u == <<One("undrop")>>
<1>5. u \in Seq(RemoveCmds) /\ Elems(u) = {One("undrop")} /\ Ordered(u)
  BY DownParts, OrderedShort
<1> HIDE DEF u
<1>6. \A x \in Elems(u), y \in Elems(FirewallUndo) : Before(x, y)
  BY <1>5 DEF Before, One
<1>7. Ordered(u \o FirewallUndo)
  BY <1>4, <1>5, <1>6, OrderedConcat
<1>8. Elems(u \o FirewallUndo) = Elems(u) \cup Elems(FirewallUndo)
  BY <1>4, <1>5, ElemsConcat
<1>9. u \o FirewallUndo \in Seq(RemoveCmds)
  BY <1>4, <1>5
<1> QED BY <1>2, <1>4, <1>5, <1>7, <1>8, <1>9 DEF u

LEMMA TeardownParts ==
    /\ Teardown \in Seq(RemoveCmds)
    /\ Ordered(Teardown)
    /\ Elems(Teardown) = {One("unlan"), One("stop"), One("undrop"), One("linkDel")}
                         \cup Elems(DnsRestore) \cup Elems(RouteUnset)
<1> DEFINE a == <<One("unlan"), One("stop"), One("undrop")>>
<1>1. \A op \in {"unlan", "stop", "undrop"} : One(op) \in RemoveCmds
  BY RemoveOne DEF RemoveOps, FamOps, Unmake
<1>2. a \in Seq(RemoveCmds)
  BY <1>1
<1>3. Elems(a) = {One("unlan"), One("stop"), One("undrop")}
  BY ElemsTuples
<1>4. Teardown = ((a \o DnsRestore) \o RouteUnset) \o WgDown
  BY DEF Teardown
<1> HIDE DEF a
<1>5. DnsRestore \in Seq(RemoveCmds) /\ RouteUnset \in Seq(RemoveCmds)
  BY DownParts
<1> DEFINE b == a \o DnsRestore
<1>6. b \in Seq(RemoveCmds) /\ Elems(b) = Elems(a) \cup Elems(DnsRestore)
  BY <1>2, <1>5, ElemsConcat
<1> HIDE DEF b
<1> DEFINE d == b \o RouteUnset
<1>7. d \in Seq(RemoveCmds) /\ Elems(d) = Elems(b) \cup Elems(RouteUnset)
  BY <1>5, <1>6, ElemsConcat
<1> HIDE DEF d
<1>8. \A x \in Elems(d) : x.op \notin {"linkDel", "rm", "markOff"}
  BY <1>3, <1>6, <1>7, DownParts DEF One, Cmd
<1>9. /\ d \o WgDown \in Seq(RemoveCmds) /\ Ordered(d \o WgDown)
      /\ Elems(d \o WgDown) = Elems(d) \cup {One("linkDel")}
  BY <1>7, <1>8, ThenWgDown
<1>10. Teardown = d \o WgDown
  BY <1>4 DEF d, b
<1>11. Elems(d) \cup {One("linkDel")} =
         {One("unlan"), One("stop"), One("undrop"), One("linkDel")}
         \cup Elems(DnsRestore) \cup Elems(RouteUnset)
  BY <1>3, <1>6, <1>7
<1> QED BY <1>9, <1>10, <1>11

LEMMA StripParts ==
    /\ StripSplit \in Seq(RemoveCmds)
    /\ Ordered(StripSplit)
    /\ Elems(StripSplit) = Stripped
<1>1. \A op \in Unmake, f \in Fam : Cmd(op, f) \in RemoveCmds
  BY RemoveCmd DEF RemoveOps, Unmake, FamOps
<1>2. One("rm") \in RemoveCmds /\ One("markOff") \in RemoveCmds
  BY RemoveOne DEF RemoveOps, FamOps
<1> DEFINE e == <<One("rm"), One("markOff")>>
<1>3. /\ DelRules \in Seq(RemoveCmds)
      /\ Elems(DelRules) = {Cmd(op, f) : op \in {"del97", "del98", "del99"}, f \in Fam}
  <2>1. \A op \in {"del97", "del98", "del99"}, f \in {"v4", "v6"} : Cmd(op, f) \in RemoveCmds
    BY <1>1 DEF Unmake, Fam
  <2>2. DelRules \in Seq(RemoveCmds)
    BY <2>1 DEF DelRules
  <2>3. /\ 1..Len(DelRules) = {1, 2, 3, 4, 5, 6}
        /\ DelRules[1] = Cmd("del97", "v4") /\ DelRules[2] = Cmd("del97", "v6")
        /\ DelRules[3] = Cmd("del98", "v4") /\ DelRules[4] = Cmd("del99", "v4")
        /\ DelRules[5] = Cmd("del98", "v6") /\ DelRules[6] = Cmd("del99", "v6")
    BY DEF DelRules
  <2>4. Elems(DelRules) = {Cmd("del97", "v4"), Cmd("del97", "v6"), Cmd("del98", "v4"),
                           Cmd("del99", "v4"), Cmd("del98", "v6"), Cmd("del99", "v6")}
    BY <2>3 DEF Elems
  <2> QED BY <2>2, <2>4 DEF Fam
<1>4. /\ DelRoutes \in Seq(RemoveCmds) /\ NftDel \in Seq(RemoveCmds)
      /\ Elems(DelRoutes) = {Cmd("flush", "v4"), Cmd("flush", "v6")}
      /\ Elems(NftDel) = {Cmd("delNft", "v4"), Cmd("delNft", "v6")}
  <2>1. \A op \in {"flush", "delNft"}, f \in {"v4", "v6"} : Cmd(op, f) \in RemoveCmds
    BY <1>1 DEF Unmake, Fam
  <2>2. DelRoutes \in Seq(RemoveCmds) /\ NftDel \in Seq(RemoveCmds)
    BY <2>1 DEF DelRoutes, NftDel
  <2> QED BY <2>2, ElemsTuples DEF DelRoutes, NftDel
<1>5. e \in Seq(RemoveCmds) /\ Elems(e) = {One("rm"), One("markOff")} /\ Ordered(e)
  <2>1. e \in Seq(RemoveCmds)
    BY <1>2
  <2>2. Elems(e) = {One("rm"), One("markOff")}
    BY ElemsTuples
  <2>3. 1..Len(e) = {1, 2} /\ e[1] = One("rm") /\ e[2] = One("markOff")
    OBVIOUS
  <2>4. Before(One("rm"), One("markOff"))
    BY DEF Before, One, Unmake
  <2> HIDE DEF e
  <2>5. Ordered(e)
    BY <2>3, <2>4 DEF Ordered
  <2> QED BY <2>1, <2>2, <2>5
<1>6. StripSplit = ((DelRules \o DelRoutes) \o NftDel) \o e
  BY DEF StripSplit
<1> HIDE DEF e
<1> DEFINE a == DelRules \o DelRoutes
<1>7. a \in Seq(RemoveCmds) /\ Elems(a) = Elems(DelRules) \cup Elems(DelRoutes)
  BY <1>3, <1>4, ElemsConcat
<1> HIDE DEF a
<1> DEFINE b == a \o NftDel
<1>8. b \in Seq(RemoveCmds) /\ Elems(b) = Elems(a) \cup Elems(NftDel)
  BY <1>4, <1>7, ElemsConcat
<1> HIDE DEF b
<1>9. Elems(b) = {Cmd(op, f) : op \in Unmake, f \in Fam}
  BY <1>3, <1>4, <1>7, <1>8 DEF Unmake, Fam
<1>10. \A x \in Elems(b) : x.op \in Unmake
  BY <1>9 DEF Cmd
<1>11. \A x \in Elems(b) : x.op \notin {"linkDel", "rm", "markOff"}
  BY <1>10 DEF Unmake
<1>12. Ordered(b)
  BY <1>8, <1>11, OrderedPlain
<1>13. \A x \in Elems(b), y \in Elems(e) : Before(x, y)
  BY <1>11 DEF Before
<1>14. Ordered(b \o e) /\ Elems(b \o e) = Elems(b) \cup Elems(e)
  BY <1>5, <1>8, <1>12, <1>13, OrderedConcat, ElemsConcat
<1>15. b \o e \in Seq(RemoveCmds)
  BY <1>5, <1>8
<1>16. StripSplit = b \o e
  BY <1>6 DEF b, a
<1> QED BY <1>5, <1>9, <1>14, <1>15, <1>16 DEF Stripped

\* split.down before commands that are not the split package's.
LEMMA StripThen ==
    ASSUME NEW t \in Seq(RemoveCmds), Ordered(t),
           \A y \in Elems(t) : y.op \notin Unmake \cup {"rm"}
    PROVE  /\ StripSplit \o t \in Seq(RemoveCmds)
           /\ Ordered(StripSplit \o t)
           /\ Elems(StripSplit \o t) = Stripped \cup Elems(t)
<1>1. \A x \in Stripped : x.op # "linkDel"
  BY DEF Stripped, Cmd, One, Unmake
<1>2. \A x \in Elems(StripSplit), y \in Elems(t) : Before(x, y)
  BY <1>1, StripParts DEF Before
<1>3. Ordered(StripSplit \o t) /\ Elems(StripSplit \o t) = Elems(StripSplit) \cup Elems(t)
  BY <1>2, StripParts, OrderedConcat, ElemsConcat
<1>4. StripSplit \o t \in Seq(RemoveCmds)
  BY StripParts
<1> QED BY <1>3, <1>4, StripParts

LEMMA DownThen ==
    ASSUME NEW t \in Seq(RemoveCmds), Ordered(t),
           \A y \in Elems(t) : y.op \notin Unmake \cup {"rm"}
    PROVE  /\ SplitDown \o t \in Seq(RemoveCmds)
           /\ Ordered(SplitDown \o t)
           /\ Elems(SplitDown \o t)
                = (IF split.file.present THEN Stripped ELSE {}) \cup Elems(t)
<1>1. CASE split.file.present
  BY <1>1, StripThen DEF SplitDown
<1>2. CASE ~split.file.present
  <2>1. SplitDown = <<>>
    BY <1>2 DEF SplitDown
  <2>2. SplitDown \o t = t
    BY <2>1
  <2> QED BY <1>2, <2>2
<1> QED BY <1>1, <1>2

LEMMA NotSplit ==
    /\ \A y \in Elems(Teardown) : y.op \notin Unmake \cup {"rm"}
    /\ \A y \in Elems(WgDown) : y.op \notin Unmake \cup {"rm"}
BY TeardownParts, DownParts DEF Unmake, One, Cmd

LEMMA UndoParts ==
    ASSUME TypeOK, NEW c, pc \in Building, pc # "lan"
    PROVE  /\ Undo(c) \in Seq(RemoveCmds) /\ Ordered(Undo(c))
           /\ pc = "save" => Undo(c) = <<>>
           /\ pc = "wg" => Undo(c) = IF c.op = "linkAdd" THEN <<>> ELSE WgDown
           /\ \/ pc \in {"route", "dns", "firewall", "shim"}
              \/ pc = "wg" /\ c.op # "linkAdd"
              \/ pc = "split" /\ inv.opts.split
              => One("linkDel") \in Elems(Undo(c))
           /\ \/ pc \in {"dns", "firewall"}
              \/ pc = "shim" /\ ~inv.opts.split
              \/ pc = "route" /\ c.op # "pin"
              => One("unpin") \in Elems(Undo(c))
           /\ pc = "shim" /\ ~inv.opts.split => One("undrop") \in Elems(Undo(c))
           /\ FileDns /\ (pc = "firewall" \/ (pc = "shim" /\ ~inv.opts.split))
                 => One("restore") \in Elems(Undo(c))
           /\ One("restore") \in Elems(Undo(c))
                 => pc = "firewall" \/ (pc = "shim" /\ ~inv.opts.split)
           /\ One("rmBackup") \notin Elems(Undo(c))
           /\ One("rm") \in Elems(Undo(c)) \/ One("markOff") \in Elems(Undo(c))
                 => /\ Stripped \subseteq Elems(Undo(c))
                    /\ \/ pc = "split"
                       \/ pc = "shim" /\ inv.opts.split /\ split.file.present
<1> DEFINE u == Undo(c)
<1>0. <<>> \in Seq(RemoveCmds) /\ Elems(<<>>) = {} /\ Ordered(<<>>)
  BY NothingToDo, ElemsEmpty, OrderedShort
<1>w. /\ WgDown \in Seq(RemoveCmds) /\ Ordered(WgDown)
      /\ Elems(WgDown) = {One("linkDel")}
  BY DownParts, OrderedShort DEF WgDown
<1>n. \A a, b : One(a) = One(b) => a = b
  BY DEF One
<1>1. CASE pc = "save"
  <2>1. u = <<>>
    BY <1>1 DEF Undo
  <2> HIDE DEF u
  <2> QED BY <1>0, <1>1, <2>1 DEF u
<1>2. CASE pc = "wg"
  <2>1. u = IF c.op = "linkAdd" THEN <<>> ELSE WgDown
    BY <1>2 DEF Undo
  <2>2. /\ u \in Seq(RemoveCmds) /\ Ordered(u)
        /\ Elems(u) = IF c.op = "linkAdd" THEN {} ELSE {One("linkDel")}
    BY <1>0, <1>w, <2>1
  <2> HIDE DEF u
  <2> QED BY <1>2, <1>n, <2>1, <2>2 DEF u
<1>3. CASE pc = "route"
  <2> DEFINE a == IF c.fam = "v6" THEN <<Cmd("undefault", "v4")>> ELSE <<>>
             b == IF c.op = "pin" THEN <<>> ELSE <<One("unpin")>>
  <2>1. u = (a \o b) \o WgDown
    BY <1>3 DEF Undo
  <2>2. /\ a \in Seq(RemoveCmds) /\ Elems(a) \subseteq {Cmd("undefault", "v4")}
        /\ b \in Seq(RemoveCmds)
        /\ Elems(b) = IF c.op = "pin" THEN {} ELSE {One("unpin")}
    BY <1>0, DownParts
  <2> HIDE DEF a, b, u
  <2> DEFINE ab == a \o b
  <2>3. ab \in Seq(RemoveCmds) /\ Elems(ab) = Elems(a) \cup Elems(b)
    BY <2>2, ElemsConcat
  <2> HIDE DEF ab
  <2>4. \A x \in Elems(ab) : x.op \notin {"linkDel", "rm", "markOff"}
    BY <2>2, <2>3 DEF One, Cmd
  <2>5. /\ ab \o WgDown \in Seq(RemoveCmds) /\ Ordered(ab \o WgDown)
        /\ Elems(ab \o WgDown) = Elems(ab) \cup {One("linkDel")}
    BY <2>3, <2>4, ThenWgDown
  <2>6. /\ u \in Seq(RemoveCmds) /\ Ordered(u)
        /\ Elems(u) = Elems(a) \cup Elems(b) \cup {One("linkDel")}
    BY <2>1, <2>3, <2>5 DEF ab
  <2>7. /\ One("restore") \notin Elems(u) /\ One("rmBackup") \notin Elems(u)
        /\ One("rm") \notin Elems(u) /\ One("markOff") \notin Elems(u)
    BY <2>2, <2>6 DEF One, Cmd
  <2> QED BY <1>3, <2>2, <2>6, <2>7 DEF u
<1>4. CASE pc = "dns"
  <2>1. u = RouteUnset \o WgDown
    BY <1>4 DEF Undo
  <2>2. /\ u \in Seq(RemoveCmds) /\ Ordered(u)
        /\ Elems(u) = {Cmd("undefault", "v4"), Cmd("undefault", "v6"), One("unpin"),
                       One("linkDel")}
    BY <2>1, UnsetParts, DownParts
  <2> HIDE DEF u
  <2>3. /\ One("restore") \notin Elems(u) /\ One("rmBackup") \notin Elems(u)
        /\ One("rm") \notin Elems(u) /\ One("markOff") \notin Elems(u)
    BY <2>2 DEF One, Cmd
  <2> QED BY <1>4, <2>2, <2>3 DEF u
<1>5. CASE pc = "firewall"
  <2>1. u = FirewallUndo
    BY <1>5 DEF Undo
  <2>2. /\ u \in Seq(RemoveCmds) /\ Ordered(u)
        /\ Elems(u) = {One(IF FileDns THEN "restore" ELSE "revert"),
                       Cmd("undefault", "v4"), Cmd("undefault", "v6"), One("unpin"),
                       One("linkDel")}
    BY <2>1, UnsetParts, DownParts
  <2> HIDE DEF u
  <2>3. /\ One("rmBackup") \notin Elems(u)
        /\ One("rm") \notin Elems(u) /\ One("markOff") \notin Elems(u)
    BY <2>2 DEF One, Cmd
  <2> QED BY <1>5, <2>2, <2>3 DEF u
<1>6. CASE pc = "shim" /\ ~inv.opts.split
  <2>1. u = <<One("undrop")>> \o FirewallUndo
    BY <1>6 DEF Undo
  <2>2. /\ u \in Seq(RemoveCmds) /\ Ordered(u)
        /\ Elems(u) = {One(IF FileDns THEN "restore" ELSE "revert"), One("undrop"),
                       Cmd("undefault", "v4"), Cmd("undefault", "v6"), One("unpin"),
                       One("linkDel")}
    BY <2>1, UnsetParts, DownParts
  <2> HIDE DEF u
  <2>3. /\ One("rmBackup") \notin Elems(u)
        /\ One("rm") \notin Elems(u) /\ One("markOff") \notin Elems(u)
    BY <2>2 DEF One, Cmd
  <2> QED BY <1>6, <2>2, <2>3 DEF u
<1>s. /\ One("restore") \notin Stripped /\ One("rmBackup") \notin Stripped
      /\ One("linkDel") # One("restore") /\ One("linkDel") # One("rmBackup")
      /\ One("linkDel") # One("rm") /\ One("linkDel") # One("markOff")
  <2>1. \A x \in Stripped : x.op \in Unmake \cup {"rm", "markOff"}
    BY DEF Stripped, One, Cmd
  <2>2. \A op : One(op).op = op
    BY DEF One
  <2> QED BY <2>1, <2>2 DEF Unmake
<1>7. CASE pc = "shim" /\ inv.opts.split
  <2>1. u = SplitDown \o WgDown
    BY <1>7 DEF Undo
  <2>2. /\ u \in Seq(RemoveCmds) /\ Ordered(u)
        /\ Elems(u) = (IF split.file.present THEN Stripped ELSE {}) \cup {One("linkDel")}
    BY <1>w, <2>1, DownThen, NotSplit
  <2> HIDE DEF u
  <2> QED BY <1>7, <1>s, <2>2 DEF u
<1>8. CASE pc = "split"
  <2> DEFINE t == IF inv.opts.split THEN WgDown ELSE <<>>
  <2>1. u = Rollback(c) \o t
    BY <1>8 DEF Undo
  <2>2. /\ t \in Seq(RemoveCmds) /\ Ordered(t)
        /\ Elems(t) = IF inv.opts.split THEN {One("linkDel")} ELSE {}
    BY <1>0, <1>w
  <2>3. \A y \in Elems(t) : y.op \notin Unmake \cup {"rm"}
    BY <2>2 DEF One, Unmake
  <2> HIDE DEF t, u
  <2>4. /\ u \in Seq(RemoveCmds) /\ Ordered(u)
        /\ Elems(u) = Elems(t) \/ Elems(u) = Stripped \cup Elems(t)
    <3>1. CASE Rollback(c) = <<>>
      <4>1. u = t
        BY <2>1, <2>2, <3>1
      <4> QED BY <2>2, <4>1
    <3>2. CASE Rollback(c) = StripSplit
      BY <2>1, <2>2, <2>3, <3>2, StripThen
    <3> QED BY <3>1, <3>2 DEF Rollback
  <2> QED BY <1>8, <1>s, <2>2, <2>4 DEF u
<1>9. inv.opts.split \in BOOLEAN
  BY DEF TypeOK, Invocation, ConnectOpts
<1> HIDE DEF u
<1> QED BY <1>1, <1>2, <1>3, <1>4, <1>5, <1>6, <1>7, <1>8, <1>9 DEF Building

-----------------------------------------------------------------------------
(* The shape of what is left to run.                                       *)

Removing == {"disconnect", "teardown", "undo", "undoSplit"}

\* The commands of split.up.
MakeOps == {"save", "nft", "rule97", "rule98", "rule99", "unreach", "dev", "gw",
            "del97", "markOn"}

MakeCmds == {c \in Command : c.op \in MakeOps}

Stepped == {"save", "wg", "route", "dns", "firewall", "shim", "lan", "mode"}

\* What may be left of a phase's few commands.
Suffixes(p) ==
    CASE p = "save"     -> {<<One("config")>>, <<>>}
      [] p = "wg"       -> {WgUp, <<One("linkConf"), One("linkUp")>>,
                            <<One("linkUp")>>, <<>>}
      [] p = "route"    -> {RouteSet, <<Cmd("default", "v4"), Cmd("default", "v6")>>,
                            <<Cmd("default", "v6")>>, <<>>}
      [] p = "dns"      -> IF FileDns THEN {DnsSet, <<One("resolv")>>, <<>>}
                                      ELSE {DnsSet, <<>>}
      [] p = "firewall" -> {<<One("dropAll")>>, <<>>}
      [] p = "shim"     -> {<<One("start")>>, <<>>}
      [] p = "lan"      -> {<<One("lan")>>, <<>>}
      [] p = "mode"     -> {<<One("mode")>>, <<>>}

\* Every phase runs the rest of its own commands, teardowns and undos in
\* order; a teardown unpins the relay that the saved configuration names, an
\* undo the one it has saved; resolv.conf is left alone under
\* systemd-resolved.
ShapeInv ==
    /\ pc \in Removing => todo \in Seq(RemoveCmds) /\ Ordered(todo)
    /\ pc \in Stepped => todo \in Suffixes(pc)
    /\ pc = "split" => todo \in Seq(MakeCmds)
    /\ pc \in FullOnly => ~inv.opts.split
    /\ pc \notin {"idle", "disconnect"} => inv.verb = "connect"
    /\ pc = "disconnect" => inv.verb = "disconnect"
    /\ pc \in {"teardown", "save", "disconnect"} => ~inv.base
    /\ pc \in {"teardown", "disconnect"} => inv.end = cfg.LastEndpoint
    /\ pc \in Dialling \ {"save"} => /\ cfg.LastEndpoint = inv.opts.relay
                                     /\ inv.end = inv.opts.relay
    /\ pc = "save" /\ todo = <<>> => cfg.LastEndpoint = inv.opts.relay
    /\ pc = "undo" => todo = <<>> \/ inv.end = cfg.LastEndpoint
    /\ ~FileDns => dns.resolv = "orig" /\ dns.backup = "none"

LEMMA NotEmpty == WgUp # <<>> /\ RouteSet # <<>> /\ DnsSet # <<>>
BY DEF WgUp, RouteSet, DnsSet

\* The next command of such a phase, and what is left after it.
LEMMA StepHead ==
    ASSUME ShapeInv, pc \in Stepped, todo # <<>>, NEW c, c = Head(todo)
    PROVE  /\ Tail(todo) \in Suffixes(pc)
           /\ pc = "save" => c.op = "config" /\ Tail(todo) = <<>>
           /\ pc = "wg" => /\ c.op \in {"linkAdd", "linkConf", "linkUp"}
                           /\ c.op = "linkAdd" <=> todo = WgUp
                           /\ c.op = "linkUp" <=> Tail(todo) = <<>>
                           /\ Tail(todo) # WgUp
           /\ pc = "route" => /\ c.op \in {"pin", "default"}
                              /\ c.op = "pin" <=> todo = RouteSet
                              /\ Tail(todo) # RouteSet
           /\ pc = "dns" /\ FileDns => /\ c.op \in {"backup", "resolv"}
                                       /\ c.op = "backup" <=> todo = DnsSet
                                       /\ c.op = "resolv" <=> Tail(todo) = <<>>
           /\ pc = "dns" /\ ~FileDns => c.op = "setLink" /\ Tail(todo) = <<>>
           /\ pc = "firewall" => c.op = "dropAll" /\ Tail(todo) = <<>>
           /\ pc = "shim" => c.op = "start" /\ Tail(todo) = <<>>
           /\ pc = "lan" => c.op = "lan" /\ Tail(todo) = <<>>
           /\ pc = "mode" => c.op = "mode" /\ Tail(todo) = <<>>
<1>0. todo \in Suffixes(pc)
  BY DEF ShapeInv
<1>1. CASE pc \in {"save", "firewall", "shim", "lan", "mode"}
  <2>1. todo = <<One(CASE pc = "save" -> "config" [] pc = "firewall" -> "dropAll"
                       [] pc = "shim" -> "start" [] pc = "lan" -> "lan"
                       [] pc = "mode" -> "mode")>>
    BY <1>0, <1>1 DEF Suffixes
  <2> QED BY <1>1, <2>1 DEF One, Suffixes
<1>2. CASE pc = "wg"
  <2>1. \/ todo = WgUp
        \/ todo = <<One("linkConf"), One("linkUp")>>
        \/ todo = <<One("linkUp")>>
    BY <1>0, <1>2 DEF Suffixes
  <2>2. CASE todo = WgUp
    BY <1>2, <2>2 DEF WgUp, One, Suffixes
  <2>3. CASE todo = <<One("linkConf"), One("linkUp")>>
    BY <1>2, <2>3 DEF WgUp, One, Suffixes
  <2>4. CASE todo = <<One("linkUp")>>
    BY <1>2, <2>4 DEF WgUp, One, Suffixes
  <2> QED BY <2>1, <2>2, <2>3, <2>4
<1>3. CASE pc = "route"
  <2>1. \/ todo = RouteSet
        \/ todo = <<Cmd("default", "v4"), Cmd("default", "v6")>>
        \/ todo = <<Cmd("default", "v6")>>
    BY <1>0, <1>3 DEF Suffixes
  <2>2. CASE todo = RouteSet
    BY <1>3, <2>2 DEF RouteSet, One, Cmd, Suffixes
  <2>3. CASE todo = <<Cmd("default", "v4"), Cmd("default", "v6")>>
    BY <1>3, <2>3 DEF RouteSet, One, Cmd, Suffixes
  <2>4. CASE todo = <<Cmd("default", "v6")>>
    BY <1>3, <2>4 DEF RouteSet, One, Cmd, Suffixes
  <2> QED BY <2>1, <2>2, <2>3, <2>4
<1>4. CASE pc = "dns"
  <2>1. todo = DnsSet \/ (FileDns /\ todo = <<One("resolv")>>)
    BY <1>0, <1>4 DEF Suffixes
  <2>2. CASE todo = DnsSet
    BY <1>4, <2>2 DEF DnsSet, One, Suffixes
  <2>3. CASE FileDns /\ todo = <<One("resolv")>>
    BY <1>4, <2>3 DEF DnsSet, One, Suffixes
  <2> QED BY <2>1, <2>2, <2>3
<1> QED BY <1>1, <1>2, <1>3, <1>4 DEF Stepped

LEMMA MakePrograms == SplitUp(TRUE) \in Seq(MakeCmds) /\ SplitUp(FALSE) \in Seq(MakeCmds)
<1>1. \A op \in {"save", "nft", "markOn"} : One(op) \in MakeCmds
  BY AnyOne DEF MakeCmds, MakeOps, One, Ops, SplitOps, FamOps
<1>2. \A op \in {"rule97", "rule98", "rule99", "unreach", "dev", "gw", "del97"} :
        \A f \in {"v4", "v6"} : Cmd(op, f) \in MakeCmds
  BY AnyCmd DEF MakeCmds, MakeOps, Cmd, Ops, SplitOps, Fam
<1>3. <<One("save"), One("nft")>> \in Seq(MakeCmds) /\ <<One("markOn")>> \in Seq(MakeCmds)
  BY <1>1
<1>4. InstallRules \in Seq(MakeCmds) /\ InstallPlainRoutes \in Seq(MakeCmds)
  BY <1>2 DEF InstallRules, InstallPlainRoutes
<1>5. /\ <<Cmd("rule97", "v4"), Cmd("rule97", "v6"), Cmd("unreach", "v4"),
           Cmd("unreach", "v6"), Cmd("dev", "v4")>> \in Seq(MakeCmds)
      /\ <<Cmd("dev", "v6")>> \in Seq(MakeCmds)
  BY <1>2
<1>6. InstallTunnelRoutes \in Seq(MakeCmds)
  BY <1>5 DEF InstallTunnelRoutes
<1> QED BY <1>3, <1>4, <1>6 DEF SplitUp

\* split.up saves before anything else.
LEMMA SaveFirst ==
    ASSUME NEW b \in BOOLEAN
    PROVE  SplitUp(b) # <<>> /\ Head(SplitUp(b)).op = "save"
<1> DEFINE a == <<One("save"), One("nft")>>
           r == IF b THEN InstallTunnelRoutes ELSE InstallPlainRoutes
           m == <<One("markOn")>>
<1>1. /\ a \in Seq(Command) /\ InstallRules \in Seq(Command) /\ m \in Seq(Command)
  BY SplitPrograms, SeqMonotone, OtherKeepCommand
<1>2. r \in Seq(Command)
  <2>1. InstallTunnelRoutes \in Seq(Command)
    BY SplitPrograms, SeqMonotone, OtherKeepCommand
  <2>2. InstallPlainRoutes \in Seq(Command)
    <3>1. \A op \in {"del97", "gw"} : \A f \in {"v4", "v6"} : Cmd(op, f) \in Command
      BY AnyCmd DEF Ops, SplitOps, Fam
    <3> QED BY <3>1 DEF InstallPlainRoutes
  <2> QED BY <2>1, <2>2
<1>3. Len(a) = 2 /\ a[1] = One("save")
  OBVIOUS
<1>4. SplitUp(b) = ((a \o InstallRules) \o r) \o m
  BY DEF SplitUp
<1> HIDE DEF a, r, m
<1> DEFINE x == a \o InstallRules
<1>5. x \in Seq(Command) /\ Len(x) >= 2 /\ x[1] = One("save")
  <2>1. Len(x) = Len(a) + Len(InstallRules) /\ Len(InstallRules) \in Nat
    BY <1>1
  <2>2. x[1] = a[1]
    <3>1. \A i \in 1 .. Len(a) + Len(InstallRules) :
             x[i] = IF i <= Len(a) THEN a[i] ELSE InstallRules[i - Len(a)]
      BY <1>1, ConcatProperties
    <3>2. 1 \in 1 .. Len(a) + Len(InstallRules) /\ 1 <= Len(a)
      BY <1>3, <2>1
    <3> QED BY <3>1, <3>2
  <2> QED BY <1>1, <1>3, <2>1, <2>2
<1> HIDE DEF x
<1> DEFINE y == x \o r
<1>6. y \in Seq(Command) /\ Len(y) >= 2 /\ y[1] = One("save")
  BY <1>2, <1>5
<1> HIDE DEF y
<1> DEFINE z == y \o m
<1>7. z \in Seq(Command) /\ Len(z) >= 2 /\ z[1] = One("save")
  BY <1>1, <1>6
<1> HIDE DEF z
<1>8. z # <<>> /\ Head(z) = One("save")
  BY <1>7
<1>9. SplitUp(b) = z
  BY <1>4 DEF x, y, z
<1> QED BY <1>8, <1>9 DEF One

-----------------------------------------------------------------------------
(* The steps between commands.                                             *)

SameCall == /\ inv'.verb = inv.verb /\ inv'.opts = inv.opts
            /\ inv'.prevMode = inv.prevMode /\ inv'.fails = inv.fails

\* The phase that follows another one.
Follows(p) ==
    \/ pc = "teardown" /\ p = "save" /\ ~inv.err
    \/ pc = "save" /\ p = "wg"
    \/ pc = "wg" /\ p = "split" /\ inv.opts.split
    \/ pc = "wg" /\ p = "route" /\ ~inv.opts.split
    \/ pc = "route" /\ p = "dns"
    \/ pc = "dns" /\ p = "firewall"
    \/ pc = "firewall" /\ p = "shim"
    \/ pc = "shim" /\ p = "lan" /\ ~inv.opts.split
    \/ pc = "lan" /\ p = "split"
    \/ pc = "split" /\ p = "shim" /\ inv.opts.split

Begins(p) == p \in Building /\ todo = <<>> /\ Follows(p) /\ Enter(p)

Succeeds ==
    /\ todo = <<>> /\ Established
    /\ \/ pc = "shim" /\ inv.opts.split
       \/ pc \in {"split", "undoSplit"} /\ ~inv.opts.split

\* doConnect is about to put the mode back.
GivesUp ==
    /\ pc \in {"teardown", "undo"} /\ todo = <<>> /\ inv.saved
    /\ pc = "teardown" => inv.err
    /\ pc' = "mode" /\ todo' = <<One("mode")>>
    /\ UNCHANGED <<host, inv, sess, budget>>

\* An invocation returns without having established a session.
Ends ==
    /\ pc \in {"disconnect", "teardown", "undo", "mode"} /\ todo = <<>>
    /\ pc = "teardown" => inv.err
    /\ pc \in {"teardown", "undo"} => ~inv.saved \/ cfg.LastSplit = inv.prevMode
    /\ pc' = "idle" /\ todo' = <<>>
    /\ SameCall /\ inv'.base = inv.base /\ inv'.prior = inv.prior
    /\ pc # "disconnect" => ~inv'.ok
    /\ UNCHANGED <<host, sess, budget>>

LEMMA NextCases ==
    ASSUME TypeOK, ShapeInv, [Next]_vars
    PROVE  \/ \E o \in Options : Connect(o)
           \/ Disconnect
           \/ Exec
           \/ CommandFails
           \/ \E p \in Building : Begins(p)
           \/ Succeeds
           \/ GivesUp
           \/ Ends
           \/ Crash
           \/ LinkLost
           \/ Reboot
           \/ UNCHANGED vars
<1>0. inv.opts.split \in BOOLEAN /\ inv.err \in BOOLEAN
  BY DEF TypeOK, Invocation, ConnectOpts
<1>1. ASSUME Advance
      PROVE (\E p \in Building : Begins(p)) \/ Succeeds \/ GivesUp \/ Ends
  <2>0. todo = <<>>
    BY <1>1 DEF Advance
  <2>1. CASE pc = "teardown" /\ ~inv.err /\ Enter("save")
    <3>1. Begins("save")
      BY <2>0, <2>1 DEF Begins, Follows, Building
    <3> QED BY <3>1 DEF Building
  <2>2. CASE pc \in Building /\ After(pc) # "idle" /\ Enter(After(pc))
    <3>1. After(pc) \in Building
      BY <2>2, AfterType
    <3>2. Follows(After(pc))
      BY <1>0, <2>2 DEF Follows, After, Building, ShapeInv, FullOnly
    <3>3. Begins(After(pc))
      BY <2>0, <2>2, <3>1, <3>2 DEF Begins
    <3> QED BY <3>1, <3>3
  <2>3. CASE pc \in Building /\ After(pc) = "idle" /\ Established
    <3>1. \/ pc = "shim" /\ inv.opts.split
          \/ pc \in {"split", "undoSplit"} /\ ~inv.opts.split
      BY <1>0, <2>3 DEF After, Building
    <3> QED BY <2>0, <2>3, <3>1 DEF Succeeds
  <2>4. CASE pc = "undoSplit" /\ Established
    BY <2>0, <2>4 DEF Succeeds, ShapeInv, FullOnly
  <2>5. ASSUME NEW ok \in BOOLEAN, Return(ok), UNCHANGED <<host, sess, budget>>,
               pc \in {"disconnect", "teardown", "undo", "mode"},
               pc = "teardown" => inv.err,
               pc # "disconnect" => ok = FALSE,
               pc \in {"teardown", "undo"} => ~inv.saved \/ cfg.LastSplit = inv.prevMode
        PROVE Ends
    <3>1. /\ pc' = "idle" /\ todo' = <<>>
          /\ SameCall /\ inv'.base = inv.base /\ inv'.prior = inv.prior
          /\ inv'.ok = ok
      BY <2>5, ReturnFields DEF SameCall
    <3> QED BY <2>0, <2>5, <3>1 DEF Ends
  <2>6. CASE pc = "disconnect" /\ Return(~inv.err) /\ UNCHANGED <<host, sess, budget>>
    BY <1>0, <2>5, <2>6
  <2>7. CASE pc = "mode" /\ Return(FALSE) /\ UNCHANGED <<host, sess, budget>>
    BY <2>5, <2>7
  <2>8. CASE (pc = "undo" \/ (pc = "teardown" /\ inv.err)) /\ Fail
    <3>1. CASE inv.saved /\ cfg.LastSplit # inv.prevMode
      BY <2>0, <2>8, <3>1 DEF Fail, GivesUp
    <3>2. CASE ~(inv.saved /\ cfg.LastSplit # inv.prevMode)
      <4>1. Return(FALSE) /\ UNCHANGED <<host, sess, budget>>
        BY <2>8, <3>2 DEF Fail
      <4> QED BY <2>5, <2>8, <3>2, <4>1
    <3> QED BY <3>1, <3>2
  <2> QED BY <1>1, <2>1, <2>2, <2>3, <2>4, <2>6, <2>7, <2>8 DEF Advance
<1> QED BY <1>1 DEF Next

LEMMA SucceedsFields ==
    ASSUME TypeOK, Succeeds
    PROVE  /\ pc' = "idle" /\ todo' = <<>> /\ UNCHANGED <<host, budget>>
           /\ SameCall /\ inv'.ok /\ inv'.base = inv.base /\ inv'.prior = inv.prior
           /\ sess' = IF inv.opts.split THEN "split" ELSE "full"
<1>1. Return(TRUE) /\ UNCHANGED <<host, budget>>
      /\ sess' = IF inv.opts.split THEN "split" ELSE "full"
  BY DEF Succeeds, Established
<1>2. /\ pc' = "idle" /\ todo' = <<>>
      /\ SameCall /\ inv'.base = inv.base /\ inv'.prior = inv.prior
      /\ inv'.ok = TRUE
  BY <1>1, ReturnFields DEF SameCall
<1> QED BY <1>1, <1>2

LEMMA ConnectFields ==
    ASSUME NEW o \in Options, Connect(o)
    PROVE  /\ pc = "idle" /\ UNCHANGED host
           /\ budget' = budget \/ Spend("fail")
           /\ inv'.verb = "connect" /\ inv'.opts = o /\ inv'.end = cfg.LastEndpoint
           /\ inv'.prior = split.file.SrcValidMark /\ inv'.prevMode = cfg.LastSplit
           /\ ~inv'.saved /\ ~inv'.err /\ ~inv'.ok /\ ~inv'.base /\ inv'.fails = 0
           /\ \/ o.split /\ pc' = "teardown" /\ todo' = Teardown
              \/ ~o.split /\ pc' = "teardown" /\ todo' = SplitDown \o Teardown
              \/ /\ ~o.split /\ pc' = "save" /\ todo' = <<One("config")>>
                 /\ sess' = sess \/ sess' = "none"
                 /\ \/ ~NeedsDisconnect /\ sess' = sess /\ budget' = budget
                    \/ Spend("fail") /\ sess' # "full"
BY DEF Connect, SplitTeardown

LEMMA DisconnectFields ==
    ASSUME Disconnect
    PROVE  /\ pc = "idle" /\ UNCHANGED <<host, budget>>
           /\ inv'.verb = "disconnect" /\ inv'.end = cfg.LastEndpoint
           /\ inv'.prior = split.file.SrcValidMark /\ inv'.opts = NoOpts
           /\ ~inv'.saved /\ ~inv'.err /\ ~inv'.ok /\ ~inv'.base /\ inv'.fails = 0
           /\ pc' = "disconnect" /\ todo' = SplitDown \o Teardown
BY DEF Disconnect

LEMMA NoneRuns ==
    ASSUME Crash \/ Reboot
    PROVE  /\ pc' = "idle" /\ todo' = <<>> /\ inv'.verb = "none" /\ ~inv'.base
BY DEF Crash, Reboot, NoInvocation

\* The commands by the phase that runs them.
LEMMA RunningOp ==
    ASSUME TypeOK, IdleDone, ShapeInv, todo # <<>>, NEW c, c = Head(todo)
    PROVE  /\ pc # "idle"
           /\ pc \in Removing => /\ c \in RemoveCmds /\ c.op \in RemoveOps
                                 /\ c.op \notin FamOps => c = One(c.op)
           /\ pc = "split" => c.op \in MakeOps
           /\ pc \in Removing \cup Stepped \cup {"split"}
<1>1. pc # "idle"
  BY DEF IdleDone
<1>2. pc \in Removing => c \in RemoveCmds
  BY ElemsHeadTail DEF ShapeInv
<1>3. pc = "split" => c \in MakeCmds
  BY ElemsHeadTail DEF ShapeInv
<1>4. pc \in Removing \cup Stepped \cup {"split"}
  BY <1>1 DEF TypeOK, Phases, Removing, Stepped
<1> QED BY <1>1, <1>2, <1>3, <1>4 DEF RemoveCmds, MakeCmds

LEMMA ShapeInit == Init => ShapeInv
BY DEF Init, HostInit, ShapeInv, Removing, Stepped, FullOnly, Dialling, Building

LEMMA ShapeExec ==
    ASSUME TypeOK, IdleDone, ShapeInv, Exec
    PROVE  ShapeInv'
<1> DEFINE c == Head(todo)
<1>1. /\ c \in Command /\ todo # <<>> /\ Tail(todo) \in Seq(Command)
      /\ pc' = pc /\ inv' = inv
      /\ c.op # "restore" \/ dns.backup = "none" => todo' = Tail(todo)
      /\ c.op = "restore" /\ dns.backup # "none"
            => todo' = <<One("rmBackup")>> \o Tail(todo)
  BY ExecFields
<1>2. /\ pc # "idle"
      /\ pc \in Removing => c \in RemoveCmds /\ c.op \in RemoveOps
      /\ pc = "split" => c.op \in MakeOps
      /\ pc \in Removing \cup Stepped \cup {"split"}
  BY <1>1, RunningOp
<1>3. /\ c.op \in CfgOps \/ cfg' = cfg
      /\ c.op = "config" => cfg'.LastEndpoint = inv.opts.relay
      /\ c.op = "mode" => cfg'.LastEndpoint = cfg.LastEndpoint
      /\ c.op \in DnsOps \/ (dns'.resolv = dns.resolv /\ dns'.backup = dns.backup)
      /\ c.op \in DnsOps =>
           /\ dns'.resolv = CASE c.op = "resolv" -> "mullvad"
                              [] c.op = "restore" -> IF dns.backup = "none"
                                                       THEN dns.resolv ELSE dns.backup
                              [] OTHER -> dns.resolv
           /\ dns'.backup = CASE c.op = "backup" -> dns.resolv
                              [] c.op = "rmBackup" -> "none"
                              [] OTHER -> dns.backup
  <2>1. CASE c.op \in WgOps
    BY <2>1, ExecWg DEF WgOps, DnsOps
  <2>2. CASE c.op \in RouteOps
    BY <2>2, ExecRoute DEF RouteOps, DnsOps
  <2>3. CASE c.op \in DnsOps
    BY <2>3, ExecDns DEF DnsOps
  <2>4. CASE c.op \in FwOps \cup ShimOps \cup SplitOps
    BY <2>4, ExecRest DEF FwOps, ShimOps, SplitOps, DnsOps
  <2>5. CASE c.op \in CfgOps
    BY <2>5, ExecRest DEF CfgOps, DnsOps
  <2>6. c.op \in Ops
    BY <1>1 DEF Command
  <2> QED BY <2>1, <2>2, <2>3, <2>4, <2>5, <2>6 DEF Ops
<1>4. ASSUME pc \in Removing
      PROVE  todo' \in Seq(RemoveCmds) /\ Ordered(todo')
  <2>0. todo \in Seq(RemoveCmds) /\ Ordered(todo)
    BY <1>4 DEF ShapeInv
  <2> DEFINE rest == Tail(todo)
             one == <<One("rmBackup")>>
  <2>1. rest \in Seq(RemoveCmds) /\ Ordered(rest)
    BY <1>1, <2>0, OrderedHead, ElemsHeadTail
  <2>2. one \in Seq(RemoveCmds) /\ Ordered(one) /\ Elems(one) = {One("rmBackup")}
    BY DownParts, OrderedShort, ElemsTuple1
  <2>3. todo' = rest \/ todo' = one \o rest
    BY <1>1
  <2> HIDE DEF rest, one
  <2>4. \A x \in Elems(one), y \in Elems(rest) : Before(x, y)
    BY <2>2 DEF Before, One
  <2>5. Ordered(one \o rest)
    BY <2>1, <2>2, <2>4, OrderedConcat
  <2>6. one \o rest \in Seq(RemoveCmds)
    BY <2>1, <2>2
  <2> QED BY <2>1, <2>3, <2>5, <2>6
<1>5. ASSUME pc \in Stepped
      PROVE  /\ todo' \in Suffixes(pc)
             /\ pc = "save" => cfg'.LastEndpoint = inv.opts.relay
             /\ pc # "save" => cfg'.LastEndpoint = cfg.LastEndpoint
             /\ ~FileDns => dns'.resolv = dns.resolv /\ dns'.backup = dns.backup
  <2>1. /\ Tail(todo) \in Suffixes(pc)
        /\ c.op # "restore"
        /\ pc = "save" => c.op = "config"
        /\ pc # "save" => c.op # "config"
        /\ ~FileDns => c.op \notin {"backup", "resolv", "rmBackup"}
    BY <1>1, <1>5, StepHead DEF Stepped
  <2>2. todo' = Tail(todo)
    BY <1>1, <2>1
  <2> QED BY <1>3, <2>1, <2>2 DEF CfgOps, DnsOps
<1>6. ASSUME pc = "split"
      PROVE  todo' \in Seq(MakeCmds) /\ cfg' = cfg /\ c.op \notin DnsOps
  <2>1. todo \in Seq(MakeCmds) /\ c.op \in MakeOps
    BY <1>2, <1>6 DEF ShapeInv
  <2>2. Tail(todo) \in Seq(MakeCmds)
    BY <1>1, <2>1, ElemsHeadTail
  <2>3. c.op \notin {"restore"} \cup CfgOps \cup DnsOps
    BY <2>1 DEF MakeOps, CfgOps, DnsOps
  <2> QED BY <1>1, <1>3, <2>2, <2>3
<1>7. ASSUME pc \in Removing
      PROVE  cfg' = cfg /\ c.op \notin {"backup", "resolv"}
  BY <1>2, <1>3, <1>7 DEF RemoveOps, Unmake, CfgOps
<1>8. ~FileDns => dns'.resolv = "orig" /\ dns'.backup = "none"
  <2> SUFFICES ASSUME ~FileDns PROVE dns'.resolv = "orig" /\ dns'.backup = "none"
    OBVIOUS
  <2>1. dns.resolv = "orig" /\ dns.backup = "none"
    BY DEF ShapeInv
  <2> QED BY <1>2, <1>3, <1>5, <1>6, <1>7, <2>1
<1>9. /\ pc \in Removing \cup {"split"} => pc \notin Stepped
      /\ "split" \notin Removing
  BY DEF Removing, Stepped
<1> HIDE DEF c
<1>10. /\ pc \in {"teardown", "disconnect", "undo"} => cfg' = cfg
       /\ pc \in Dialling \ {"save"} => cfg'.LastEndpoint = cfg.LastEndpoint
       /\ pc = "save" => cfg'.LastEndpoint = inv.opts.relay
  BY <1>2, <1>5, <1>6, <1>7 DEF Removing, Stepped, Dialling, Building
<1> QED BY <1>1, <1>4, <1>5, <1>6, <1>8, <1>10 DEF ShapeInv

LEMMA ShapeFails ==
    ASSUME TypeOK, IdleDone, ShapeInv, CommandFails
    PROVE  ShapeInv'
<1>1. /\ inv'.verb = inv.verb /\ inv'.opts = inv.opts /\ inv'.end = inv.end
      /\ inv'.base = inv.base /\ todo # <<>>
      /\ cfg' = cfg /\ dns' = dns
      /\ pc \in Lenient => todo' = Tail(todo) /\ pc' = pc
      /\ pc \notin Lenient =>
           /\ todo' = Undo(Head(todo))
           /\ pc' = IF pc = "split" /\ ~inv.opts.split THEN "undoSplit" ELSE "undo"
  BY FailsFields DEF host
<1>2. pc # "idle" /\ todo \in Seq(Command)
  BY <1>1 DEF IdleDone, TypeOK
<1>3. CASE pc \in Lenient
  <2>1. pc \in Removing => Tail(todo) \in Seq(RemoveCmds) /\ Ordered(Tail(todo))
    BY <1>1, OrderedHead, ElemsHeadTail DEF ShapeInv
  <2>2. pc \in Stepped => Tail(todo) \in Suffixes(pc)
    BY <1>1, StepHead
  <2>3. pc \notin {"split", "save"}
    BY <1>3 DEF Lenient
  <2> QED BY <1>1, <1>3, <2>1, <2>2, <2>3 DEF ShapeInv
<1>4. CASE pc \notin Lenient
  <2>1. pc \in Building /\ pc # "lan"
    BY <1>2, <1>4 DEF TypeOK, Phases, Lenient, Building
  <2>2. /\ todo' \in Seq(RemoveCmds) /\ Ordered(todo')
        /\ pc = "save" => todo' = <<>>
    BY <1>1, <1>4, <2>1, UndoParts
  <2>3. /\ pc' \in {"undo", "undoSplit"}
        /\ pc' = "undoSplit" => pc = "split" /\ ~inv.opts.split
    BY <1>1, <1>4
  <2>4. inv.verb = "connect"
    BY <2>1 DEF ShapeInv, Building
  <2>5. pc # "save" => inv.end = inv.opts.relay /\ cfg.LastEndpoint = inv.opts.relay
    BY <2>1 DEF ShapeInv, Dialling
  <2>6. ~FileDns => dns'.resolv = "orig" /\ dns'.backup = "none"
    BY <1>1 DEF ShapeInv
  <2> QED BY <1>1, <2>2, <2>3, <2>4, <2>5, <2>6
          DEF ShapeInv, Stepped, FullOnly, Dialling, Building
<1> QED BY <1>3, <1>4

LEMMA ShapeBegins ==
    ASSUME TypeOK, ShapeInv, NEW p \in Building, Begins(p)
    PROVE  ShapeInv'
<1>1. /\ pc' = p /\ cfg' = cfg /\ dns' = dns
      /\ inv'.verb = inv.verb /\ inv'.opts = inv.opts
      /\ p # "wg" => inv'.base = inv.base
      /\ p # "split" => inv'.end = inv.opts.relay /\ todo' = Program(p)
      /\ p = "split" => /\ inv'.end = inv.end
                        /\ todo' = <<>> \/ todo' = SplitUp(inv.opts.split)
  BY EnterFields DEF Begins, host
<1>2. inv.opts.split \in BOOLEAN
  BY DEF TypeOK, Invocation, ConnectOpts
<1>3. p # "split" => todo' \in Suffixes(p)
  BY <1>1 DEF Program, Suffixes, Building
<1>4. p = "split" => todo' \in Seq(MakeCmds)
  BY <1>1, <1>2, MakePrograms, NothingToDo
<1>5. p \in FullOnly => ~inv.opts.split
  BY DEF Begins, Follows, FullOnly, ShapeInv
<1>6. inv.verb = "connect" /\ (p = "save" => ~inv.base) /\ p \notin Removing
  BY DEF Begins, Follows, ShapeInv, Removing
<1>7. p # "save" => cfg.LastEndpoint = inv.opts.relay
  BY DEF Begins, Follows, ShapeInv, Dialling, Building
<1>8. p = "split" => inv.end = inv.opts.relay
  BY DEF Begins, Follows, ShapeInv, Dialling, Building
<1>9. p = "save" => todo' # <<>>
  <2> SUFFICES ASSUME p = "save" PROVE todo' # <<>>
    OBVIOUS
  <2>1. todo' = <<One("config")>>
    BY <1>1 DEF Program
  <2> QED BY <2>1
<1>10. ~FileDns => dns'.resolv = "orig" /\ dns'.backup = "none"
  BY <1>1 DEF ShapeInv
<1>11. /\ pc' \notin {"idle", "disconnect", "teardown", "undo", "mode"}
       /\ p # "split" => p \in Stepped
  BY <1>1 DEF Building, Stepped
<1> QED BY <1>1, <1>3, <1>4, <1>5, <1>6, <1>7, <1>8, <1>9, <1>10, <1>11
        DEF ShapeInv, Dialling, Stepped

LEMMA ShapeNext ==
    ASSUME TypeOK, IdleDone, ShapeInv, [Next]_vars
    PROVE  ShapeInv'
<1>d. ~FileDns => dns.resolv = "orig" /\ dns.backup = "none"
  BY DEF ShapeInv
<1>t. /\ Teardown \in Seq(RemoveCmds) /\ Ordered(Teardown)
      /\ SplitDown \o Teardown \in Seq(RemoveCmds) /\ Ordered(SplitDown \o Teardown)
  BY TeardownParts, DownThen, NotSplit
<1>1. ASSUME NEW o \in Options, Connect(o) PROVE ShapeInv'
  <2>1. /\ cfg' = cfg /\ dns' = dns
        /\ inv'.verb = "connect" /\ inv'.end = cfg.LastEndpoint /\ ~inv'.base
        /\ \/ pc' = "teardown" /\ todo' \in {Teardown, SplitDown \o Teardown}
           \/ pc' = "save" /\ todo' = <<One("config")>>
    BY <1>1, ConnectFields DEF host
  <2>2. CASE pc' = "teardown"
    <3>1. todo' \in Seq(RemoveCmds) /\ Ordered(todo')
      BY <1>t, <2>1, <2>2
    <3> QED BY <1>d, <2>1, <2>2, <3>1
            DEF ShapeInv, Stepped, FullOnly, Dialling, Building
  <2>3. CASE pc' = "save"
    <3>1. todo' = <<One("config")>>
      BY <2>1, <2>3
    <3>2. todo' \in Suffixes("save") /\ todo' # <<>>
      BY <3>1 DEF Suffixes
    <3> QED BY <1>d, <2>1, <2>3, <3>2
            DEF ShapeInv, Removing, FullOnly, Dialling, Building
  <2> QED BY <2>1, <2>2, <2>3
<1>2. CASE Disconnect
  <2>1. /\ cfg' = cfg /\ dns' = dns
        /\ inv'.verb = "disconnect" /\ inv'.end = cfg.LastEndpoint /\ ~inv'.base
        /\ pc' = "disconnect" /\ todo' = SplitDown \o Teardown
    BY <1>2, DisconnectFields DEF host
  <2>2. todo' \in Seq(RemoveCmds) /\ Ordered(todo')
    BY <1>t, <2>1
  <2> QED BY <1>d, <2>1, <2>2 DEF ShapeInv, Stepped, FullOnly, Dialling, Building
<1>3. CASE Exec
  BY <1>3, ShapeExec
<1>4. CASE CommandFails
  BY <1>4, ShapeFails
<1>5. ASSUME NEW p \in Building, Begins(p) PROVE ShapeInv'
  BY <1>5, ShapeBegins
<1>6. ASSUME pc' = "idle", dns' = dns PROVE ShapeInv'
  BY <1>d, <1>6 DEF ShapeInv, Removing, Stepped, FullOnly, Dialling, Building
<1>7. CASE Succeeds
  BY <1>6, <1>7, SucceedsFields DEF host
<1>8. CASE Ends \/ Crash
  BY <1>6, <1>8 DEF Ends, Crash, host
<1>9. CASE GivesUp
  <2>1. pc' = "mode" /\ todo' = <<One("mode")>> /\ inv.verb = "connect" /\ inv' = inv
        /\ dns' = dns
    BY <1>9 DEF GivesUp, host, ShapeInv
  <2>2. todo' \in Suffixes("mode")
    BY <2>1 DEF Suffixes
  <2> QED BY <1>d, <2>1, <2>2 DEF ShapeInv, Removing, FullOnly, Dialling, Building
<1>10. CASE LinkLost
  <2>1. /\ UNCHANGED <<pc, todo, inv, cfg>>
        /\ dns'.resolv = dns.resolv /\ dns'.backup = dns.backup
    BY <1>10, LinkGoneFields DEF LinkLost, TypeOK
  <2> QED BY <2>1 DEF ShapeInv
<1>11. CASE Reboot
  <2>1. pc' = "idle" /\ dns'.resolv = dns.resolv /\ dns'.backup = "none"
    BY <1>11 DEF Reboot, TypeOK, HostTypeOK
  <2> QED BY <1>d, <2>1 DEF ShapeInv, Removing, Stepped, FullOnly, Dialling, Building
<1>12. CASE UNCHANGED vars
  BY <1>12 DEF vars, host, ShapeInv
<1> QED BY <1>1, <1>2, <1>3, <1>4, <1>5, <1>7, <1>8, <1>9, <1>10, <1>11, <1>12,
           NextCases

-----------------------------------------------------------------------------
(* What a command does in the phase that runs it.                          *)

LEMMA SteppedEffect ==
    ASSUME TypeOK, IdleDone, ShapeInv, Exec, pc \in Stepped
    PROVE  /\ UNCHANGED <<pc, inv, sess, budget, split>>
           /\ todo # <<>> /\ todo' = Tail(todo)
           /\ pc # "wg" => link' = link
           /\ pc \in {"save", "mode"} =>
                 UNCHANGED <<route, dns, fw, shim>> /\ todo' = <<>>
           /\ pc = "mode" => /\ cfg'.LastEndpoint = cfg.LastEndpoint
                             /\ cfg'.LastSplit = inv.prevMode
           /\ pc \notin {"save", "mode"} => cfg' = cfg
           /\ pc = "wg" => /\ UNCHANGED <<route, dns, fw, shim>>
                           /\ todo = WgUp => link = "absent"
                           /\ todo' # WgUp /\ link' # "absent"
                           /\ todo' = <<>> => link' = "up"
                           /\ link' # "up" => link # "up"
           /\ pc = "route" => /\ UNCHANGED <<dns, fw, shim>>
                              /\ route'.lan = route.lan
                              /\ todo' # RouteSet
                              /\ route'.pins \subseteq route.pins \cup {inv.end}
           /\ pc = "dns" => /\ UNCHANGED <<route, fw, shim>>
                            /\ FileDns /\ todo = DnsSet =>
                                  /\ dns'.resolv = dns.resolv
                                  /\ dns'.backup = dns.resolv
                            /\ FileDns /\ todo # DnsSet =>
                                  /\ dns'.backup = dns.backup /\ todo' = <<>>
                            /\ ~FileDns => todo' = <<>>
           /\ pc = "firewall" => /\ UNCHANGED <<route, dns, shim>>
                                 /\ todo' = <<>> /\ fw' = inv.end
           /\ pc = "shim" => UNCHANGED <<route, dns, fw>> /\ todo' = <<>>
           /\ pc = "lan" => /\ UNCHANGED <<dns, fw, shim>> /\ todo' = <<>>
                            /\ route'.def = route.def /\ route'.pins = route.pins
<1> DEFINE c == Head(todo)
<1>1. /\ todo # <<>> /\ UNCHANGED <<pc, inv, sess, budget>>
      /\ c.op # "restore" => todo' = Tail(todo)
  BY ExecFields
<1>2. ~Refused(c, inv.end)
  BY DEF Exec
<1>3. CASE pc \in {"save", "mode"}
  <2>1. c.op \in CfgOps /\ Tail(todo) = <<>> /\ (pc = "mode" => c.op = "mode")
    BY <1>1, <1>3, StepHead DEF CfgOps
  <2>2. todo' = Tail(todo)
    BY <1>1, <2>1 DEF CfgOps
  <2> QED BY <1>1, <1>3, <2>1, <2>2, ExecRest DEF CfgOps
<1>4. CASE pc = "wg"
  <2>1. /\ c.op \in {"linkAdd", "linkConf", "linkUp"}
        /\ c.op = "linkAdd" <=> todo = WgUp
        /\ c.op = "linkUp" <=> Tail(todo) = <<>>
        /\ Tail(todo) # WgUp
    BY <1>1, <1>4, StepHead
  <2>2. todo' = Tail(todo)
    BY <1>1, <2>1
  <2>3. /\ c.op = "linkAdd" => link = "absent"
        /\ c.op \in {"linkConf", "linkUp"} => link # "absent"
    BY <1>2 DEF Refused
  <2>4. c.op \in WgOps /\ c.op # "linkDel"
    BY <2>1 DEF WgOps
  <2>5. UNCHANGED <<route, dns>>
    <3>1. WgCmd(c)
      BY <2>4 DEF Exec, Do, WgOps, RouteOps, DnsOps, FwOps, ShimOps, SplitOps, CfgOps
    <3> QED BY <2>4, <3>1 DEF WgCmd
  <2>6. /\ UNCHANGED <<fw, shim, cfg, split>>
        /\ c.op = "linkAdd" => link' = "down"
        /\ c.op = "linkUp" => link' = "up"
        /\ c.op = "linkConf" => link' = link
    BY <2>4, ExecWg
  <2> QED BY <1>1, <1>4, <2>1, <2>2, <2>3, <2>5, <2>6
<1>5. CASE pc = "route"
  <2>1. c.op \in {"pin", "default"} /\ Tail(todo) # RouteSet
    BY <1>1, <1>5, StepHead
  <2>2. todo' = Tail(todo)
    BY <1>1, <2>1
  <2>3. /\ UNCHANGED <<link, dns, fw, shim, split, cfg>>
        /\ route'.lan = route.lan
        /\ route'.pins \subseteq route.pins \cup {inv.end}
    BY <2>1, ExecRoute DEF RouteOps
  <2> QED BY <1>1, <1>5, <2>1, <2>2, <2>3
<1>6. CASE pc = "dns"
  <2>1. /\ FileDns => /\ c.op \in {"backup", "resolv"}
                      /\ c.op = "backup" <=> todo = DnsSet
                      /\ c.op = "resolv" <=> Tail(todo) = <<>>
        /\ ~FileDns => c.op = "setLink" /\ Tail(todo) = <<>>
    BY <1>1, <1>6, StepHead
  <2>2. todo' = Tail(todo) /\ c.op \in DnsOps
    BY <1>1, <2>1 DEF DnsOps
  <2>3. /\ UNCHANGED <<link, route, fw, shim, split, cfg>>
        /\ c.op = "backup" => dns'.resolv = dns.resolv /\ dns'.backup = dns.resolv
        /\ c.op = "resolv" => dns'.backup = dns.backup
    BY <2>2, ExecDns
  <2> QED BY <1>1, <1>6, <2>1, <2>2, <2>3
<1>7. CASE pc = "firewall"
  <2>1. c.op = "dropAll" /\ Tail(todo) = <<>>
    BY <1>1, <1>7, StepHead
  <2> QED BY <1>1, <1>7, <2>1, ExecRest DEF FwOps
<1>8. CASE pc = "shim"
  <2>1. c.op = "start" /\ Tail(todo) = <<>>
    BY <1>1, <1>8, StepHead
  <2> QED BY <1>1, <1>8, <2>1, ExecRest DEF ShimOps
<1>9. CASE pc = "lan"
  <2>1. c.op = "lan" /\ Tail(todo) = <<>>
    BY <1>1, <1>9, StepHead
  <2>2. /\ UNCHANGED <<link, dns, fw, shim, split, cfg>>
        /\ route'.def = route.def /\ route'.pins = route.pins
    BY <2>1, ExecRoute DEF RouteOps
  <2> QED BY <1>1, <1>9, <2>1, <2>2
<1> HIDE DEF c
<1> QED BY <1>3, <1>4, <1>5, <1>6, <1>7, <1>8, <1>9 DEF Stepped

LEMMA SplitEffect ==
    ASSUME TypeOK, IdleDone, ShapeInv, Exec, pc = "split", NEW c, c = Head(todo)
    PROVE  /\ UNCHANGED <<pc, inv, sess, budget, link, route, dns, fw, shim, cfg>>
           /\ todo # <<>> /\ todo' = Tail(todo) /\ c \in Command
           /\ c.op \in MakeOps /\ c.op \in SplitOps
           /\ SplitCmd(c, inv.opts.split, inv.prior)
<1>1. /\ todo # <<>> /\ UNCHANGED <<pc, inv, sess, budget>> /\ c \in Command
      /\ c.op # "restore" => todo' = Tail(todo)
  BY ExecFields
<1>2. c.op \in MakeOps
  BY <1>1, RunningOp
<1>3. c.op \in SplitOps /\ c.op # "restore"
  BY <1>2 DEF MakeOps, SplitOps
<1> QED BY <1>1, <1>2, <1>3, ExecRest

LEMMA RemovingEffect ==
    ASSUME TypeOK, IdleDone, ShapeInv, Exec, pc \in Removing, NEW c, c = Head(todo)
    PROVE  /\ UNCHANGED <<pc, inv, sess, budget, cfg>> /\ todo # <<>>
           /\ c \in RemoveCmds
           /\ link' = link \/ link' = "absent"
           /\ route'.def \subseteq route.def /\ route'.pins \subseteq route.pins
           /\ route'.lan => route.lan
           /\ dns'.perLink => dns.perLink
           /\ fw' = fw \/ fw' = NoRelay
           /\ shim' => shim
           /\ c = One("linkDel") => /\ link' = "absent" /\ route'.def = {}
                                    /\ ~dns'.perLink /\ todo' = <<>>
           /\ c = One("unlan") => ~route'.lan
           /\ c = One("stop") => ~shim'
           /\ c = One("undrop") => fw' = NoRelay
           /\ c = One("unpin") => route'.pins = route.pins \ {inv.end}
           /\ c = One("restore") /\ dns.backup # "none" =>
                 dns'.resolv = dns.backup /\ One("rmBackup") \in Elems(todo')
           /\ c # One("restore") \/ dns.backup = "none" =>
                 dns'.resolv = dns.resolv /\ todo' = Tail(todo)
           /\ c # One("rmBackup") => dns'.backup = dns.backup
           /\ c = One("rmBackup") => dns'.backup = "none"
           /\ \A x : x \in Elems(todo) => x = c \/ x \in Elems(todo')
           /\ \A x : x \in Elems(todo') => \/ x \in Elems(todo)
                                           \/ /\ x = One("rmBackup")
                                              /\ c = One("restore") /\ dns.backup # "none"
           /\ \A x : x \in Elems(todo') => x = One("rmBackup") \/ Before(c, x)
           /\ c.op \in SplitOps => SplitCmd(c, inv.opts.split, inv.prior)
           /\ c.op \notin SplitOps => split' = split \/ LinkGone
           /\ todo' = <<>> \/ link' = link
<1>1. /\ todo # <<>> /\ UNCHANGED <<pc, inv, sess, budget>> /\ c \in Command
      /\ Elems(todo) = {c} \cup Elems(Tail(todo))
      /\ c.op # "restore" \/ dns.backup = "none" => todo' = Tail(todo)
      /\ c.op = "restore" /\ dns.backup # "none"
            => Elems(todo') = {One("rmBackup")} \cup Elems(Tail(todo))
  BY ExecFields
<1>2. /\ c \in RemoveCmds /\ c.op \in RemoveOps
      /\ c.op \notin FamOps => c = One(c.op)
  BY <1>1, RunningOp
<1>3. \A x \in Elems(Tail(todo)) : Before(c, x)
  BY <1>1, OrderedHead DEF ShapeInv
<1>4. c.op = "linkDel" => Tail(todo) = <<>>
  BY <1>1, OrderedHead DEF ShapeInv
<1>5. \A op : One(op).op = op
  BY DEF One
<1>6. /\ c = One("linkDel") <=> c.op = "linkDel"
      /\ c = One("unlan") <=> c.op = "unlan"
      /\ c = One("stop") <=> c.op = "stop"
      /\ c = One("undrop") <=> c.op = "undrop"
      /\ c = One("unpin") <=> c.op = "unpin"
      /\ c = One("restore") <=> c.op = "restore"
      /\ c = One("rmBackup") <=> c.op = "rmBackup"
  BY <1>2, <1>5 DEF FamOps
<1>7. /\ \A x : x \in Elems(todo) => x = c \/ x \in Elems(todo')
      /\ \A x : x \in Elems(todo') => \/ x \in Elems(todo)
                                      \/ /\ x = One("rmBackup")
                                         /\ c = One("restore") /\ dns.backup # "none"
      /\ \A x : x \in Elems(todo') => x = One("rmBackup") \/ Before(c, x)
      /\ c = One("restore") /\ dns.backup # "none" => One("rmBackup") \in Elems(todo')
      /\ c # One("restore") \/ dns.backup = "none" => todo' = Tail(todo)
  BY <1>1, <1>3, <1>6
<1>8. CASE c.op = "linkDel"
  <2>1. todo' = <<>>
    BY <1>1, <1>4, <1>8
  <2> QED BY <1>1, <1>2, <1>6, <1>7, <1>8, <2>1, ExecWg DEF WgOps, SplitOps
<1>9. CASE c.op \in {"unlan", "undefault", "unpin"}
  BY <1>1, <1>2, <1>6, <1>7, <1>9, ExecRoute DEF RouteOps, SplitOps
<1>10. CASE c.op \in {"restore", "rmBackup", "revert"}
  BY <1>1, <1>2, <1>6, <1>7, <1>10, ExecDns DEF DnsOps, SplitOps
<1>11. CASE c.op \in {"undrop", "stop"}
  BY <1>1, <1>2, <1>6, <1>7, <1>11, ExecRest DEF FwOps, ShimOps, SplitOps
<1>12. CASE c.op \in Unmake \cup {"rm", "markOff"}
  <2>1. c.op \in SplitOps
    BY <1>12 DEF Unmake, SplitOps
  <2>2. c.op \notin {"linkDel", "unlan", "stop", "undrop", "unpin", "restore", "rmBackup"}
    BY <1>12 DEF Unmake
  <2> QED BY <1>1, <1>2, <1>6, <1>7, <2>1, <2>2, ExecRest
<1> QED BY <1>2, <1>8, <1>9, <1>10, <1>11, <1>12 DEF RemoveOps

\* Only a command that builds can be refused.
LEMMA NotRefused ==
    ASSUME TypeOK, IdleDone, ShapeInv, CommandFails, Refused(Head(todo), inv.end)
    PROVE  /\ pc \in {"wg", "route", "dns", "split"}
           /\ pc = "wg" /\ todo = WgUp => link # "absent"
           /\ pc = "wg" /\ todo # WgUp => link = "absent"
           /\ pc = "route" => link # "up" \/ (todo = RouteSet /\ inv.end \in route.pins)
           /\ pc \in {"dns", "split"} => link # "up"
<1> DEFINE c == Head(todo)
<1>0. todo # <<>>
  BY DEF CommandFails
<1>1. /\ c.op \in {"linkAdd", "linkConf", "linkUp", "setLink", "default", "dev", "pin"}
      /\ c.op = "linkAdd" => link # "absent"
      /\ c.op \in {"linkConf", "linkUp", "setLink"} => link = "absent"
      /\ c.op \in {"default", "dev"} => link # "up"
      /\ c.op = "pin" => inv.end \in route.pins
  BY DEF Refused
<1>2. /\ pc \in Removing => c.op \in RemoveOps
      /\ pc = "split" => c.op \in MakeOps
      /\ pc \in Removing \cup Stepped \cup {"split"}
  BY <1>0, RunningOp
<1>3. pc \notin Removing
  BY <1>1, <1>2 DEF RemoveOps, Unmake
<1>4. CASE pc = "split"
  BY <1>1, <1>2, <1>4 DEF MakeOps
<1>5. CASE pc \in Stepped
  <2>1. /\ pc = "save" => c.op = "config"
        /\ pc = "wg" => /\ c.op \in {"linkAdd", "linkConf", "linkUp"}
                        /\ c.op = "linkAdd" <=> todo = WgUp
        /\ pc = "route" => /\ c.op \in {"pin", "default"}
                           /\ c.op = "pin" <=> todo = RouteSet
        /\ pc = "dns" => c.op \in {"backup", "resolv", "setLink"}
        /\ pc = "firewall" => c.op = "dropAll"
        /\ pc = "shim" => c.op = "start"
        /\ pc = "lan" => c.op = "lan"
        /\ pc = "mode" => c.op = "mode"
    BY <1>0, <1>5, StepHead
  <2> QED BY <1>1, <1>5, <2>1 DEF Stepped
<1> QED BY <1>2, <1>3, <1>4, <1>5

-----------------------------------------------------------------------------
(* The mode that a reconnect replays.                                      *)

\* inv.saved is doConnect's: this attempt has written its own mode.  Until
\* then, and after the deferred restore, the saved mode is the earlier one.
ModeInv ==
    /\ pc \in {"undo", "mode"} => inv.fails >= 1
    /\ pc \in {"teardown", "save"} => ~inv.saved
    /\ pc \in Dialling \ {"save"} => inv.saved
    /\ \/ pc = "teardown"
       \/ pc = "save" /\ todo # <<>>
       \/ pc = "undo" /\ ~inv.saved
       => cfg.LastSplit = inv.prevMode
    /\ pc = "mode" /\ todo = <<>> /\ inv.fails = 1 => cfg.LastSplit = inv.prevMode
    /\ pc = "idle" /\ inv.verb = "connect" /\ ~inv.ok /\ inv.fails = 1
          => cfg.LastSplit = inv.prevMode

LEMMA ModeInit == Init => ModeInv
BY DEF Init, ModeInv, Dialling, Building, NoInvocation

LEMMA ModeNext ==
    ASSUME TypeOK, IdleDone, ShapeInv, ModeInv, [Next]_vars
    PROVE  ModeInv'
<1>1. ASSUME NEW o \in Options, Connect(o) PROVE ModeInv'
  <2>1. /\ cfg' = cfg /\ inv'.prevMode = cfg.LastSplit /\ ~inv'.saved
        /\ pc' \in {"teardown", "save"}
    BY <1>1, ConnectFields DEF host
  <2> QED BY <2>1 DEF ModeInv, Dialling, Building
<1>2. CASE Disconnect
  <2>1. pc' = "disconnect"
    BY <1>2, DisconnectFields
  <2> QED BY <2>1 DEF ModeInv, Dialling, Building
<1>3. CASE Exec
  <2>1. todo # <<>> /\ UNCHANGED <<pc, inv>> /\ pc \in Removing \cup Stepped \cup {"split"}
    BY <1>3, ExecFields, RunningOp
  <2>2. CASE pc \in Removing
    <3>1. cfg' = cfg
      BY <1>3, <2>2, RemovingEffect
    <3> QED BY <2>1, <2>2, <3>1 DEF ModeInv, Removing
  <2>3. CASE pc \in Stepped
    <3>1. /\ pc \in {"save", "mode"} => todo' = <<>>
          /\ pc = "mode" => cfg'.LastSplit = inv.prevMode
          /\ pc \notin {"save", "mode"} => cfg' = cfg
      BY <1>3, <2>3, SteppedEffect
    <3> QED BY <2>1, <2>3, <3>1 DEF ModeInv, Stepped
  <2>4. CASE pc = "split"
    BY <2>1, <2>4 DEF ModeInv
  <2> QED BY <2>1, <2>2, <2>3, <2>4
<1>4. CASE CommandFails
  <2>1. /\ inv'.verb = inv.verb /\ inv'.prevMode = inv.prevMode
        /\ inv'.saved = inv.saved /\ inv'.ok = inv.ok
        /\ inv'.fails = inv.fails + 1 /\ inv.fails \in Nat
        /\ cfg' = cfg /\ todo # <<>>
        /\ pc \in Lenient => pc' = pc
        /\ pc \notin Lenient => pc' \in {"undo", "undoSplit"}
        /\ pc' = "undoSplit" => pc \in {"split", "undoSplit"}
    BY <1>4, FailsFields DEF host
  <2>2. pc # "idle"
    BY <2>1 DEF IdleDone
  <2>3. CASE pc \in Lenient
    BY <2>1, <2>2, <2>3 DEF ModeInv, Lenient
  <2>4. CASE pc \notin Lenient
    <3>1. pc \in Building
      BY <2>2, <2>4 DEF TypeOK, Phases, Lenient, Building
    <3> QED BY <2>1, <2>4, <3>1 DEF ModeInv, Dialling, Building
  <2> QED BY <2>3, <2>4
<1>5. ASSUME NEW p \in Building, Begins(p) PROVE ModeInv'
  <2>1. /\ pc' = p /\ cfg' = cfg /\ inv'.prevMode = inv.prevMode
        /\ p # "wg" => inv'.saved = inv.saved
        /\ p = "wg" => inv'.saved
    BY <1>5, EnterFields DEF Begins, host
  <2>2. /\ p = "save" => pc = "teardown"
        /\ p \notin {"save", "wg"} => pc \in Dialling \ {"save"}
    BY <1>5 DEF Begins, Follows, Dialling, Building
  <2> QED BY <2>1, <2>2 DEF ModeInv, Dialling, Building
<1>6. CASE Succeeds
  <2>1. pc' = "idle" /\ inv'.ok
    BY <1>6, SucceedsFields
  <2> QED BY <2>1 DEF ModeInv, Dialling, Building
<1>7. CASE GivesUp
  <2>1. pc' = "mode" /\ inv' = inv /\ pc = "undo" /\ todo' # <<>>
    <3>1. pc' = "mode" /\ inv' = inv /\ todo' = <<One("mode")>>
      BY <1>7 DEF GivesUp
    <3>2. pc = "undo"
      BY <1>7 DEF GivesUp, ModeInv
    <3>3. todo' # <<>>
      BY <3>1
    <3> QED BY <3>1, <3>2, <3>3
  <2> QED BY <2>1 DEF ModeInv, Dialling, Building
<1>8. CASE Ends
  <2>1. /\ pc' = "idle" /\ cfg' = cfg /\ SameCall /\ todo = <<>>
        /\ pc \in {"disconnect", "teardown", "undo", "mode"}
        /\ pc \in {"teardown", "undo"} => ~inv.saved \/ cfg.LastSplit = inv.prevMode
    BY <1>8 DEF Ends, host
  <2>2. pc = "disconnect" => inv.verb = "disconnect"
    BY DEF ShapeInv
  <2> QED BY <2>1, <2>2 DEF ModeInv, Dialling, Building, SameCall
<1>9. CASE Crash \/ Reboot
  <2>1. pc' = "idle" /\ inv'.verb = "none"
    BY <1>9, NoneRuns
  <2> QED BY <2>1 DEF ModeInv, Dialling, Building
<1>10. CASE UNCHANGED <<pc, todo, inv, cfg>>
  BY <1>10 DEF ModeInv
<1> QED BY <1>1, <1>2, <1>3, <1>4, <1>5, <1>6, <1>7, <1>8, <1>9, <1>10,
           NextCases DEF LinkLost, vars, host

-----------------------------------------------------------------------------
(* An attempt on a clean host, and what is known without it.               *)

\* A connect that began on a clean host and met at most the failure whose
\* undo is running.
Rolling == /\ inv.base
           /\ pc = "idle" => ~inv.ok
           /\ inv.fails = IF pc \in {"undo", "mode", "idle"} THEN 1 ELSE 0

\* The premises under which what a session left is known (Certain), and with
\* it the administrator's resolv.conf (Kept).
Benign == NoneFailed /\ (NoneKilled \/ NoLoss)
Certain == Benign \/ Rolling
Kept == (Benign /\ NoReboot) \/ Rolling

\* An attempt begins on a clean host.
Fresh == Begins("wg") /\ HostClean

LEMMA RollingNext ==
    ASSUME TypeOK, IdleDone, ShapeInv, ModeInv, [Next]_vars, Rolling'
    PROVE  /\ Rolling \/ Fresh
           /\ CommandFails => pc \notin Lenient /\ pc' = "undo"
<1>1. ASSUME NEW o \in Options, Connect(o) PROVE FALSE
  BY <1>1, ConnectFields DEF Rolling
<1>2. CASE Disconnect
  BY <1>2, DisconnectFields DEF Rolling
<1>3. CASE Exec
  <2>1. UNCHANGED <<pc, inv>>
    BY <1>3 DEF Exec
  <2>2. ~CommandFails
    BY <2>1, FailsFields
  <2> QED BY <2>1, <2>2 DEF Rolling
<1>4. CASE CommandFails
  <2>1. /\ inv'.base = inv.base /\ inv'.ok = inv.ok
        /\ inv'.fails = inv.fails + 1 /\ inv.fails \in Nat
        /\ todo # <<>>
        /\ pc \in Lenient => pc' = pc
        /\ pc \notin Lenient => pc' \in {"undo", "undoSplit"}
    BY <1>4, FailsFields
  <2>2. pc # "idle"
    BY <2>1 DEF IdleDone
  <2>3. inv'.fails = 1 /\ inv.fails = 0 /\ pc' \in {"undo", "mode", "idle"}
    BY <2>1 DEF Rolling
  <2>4. pc \notin {"undo", "mode"}
    BY <2>3 DEF ModeInv
  <2>5. pc \notin Lenient
    BY <2>1, <2>2, <2>3, <2>4
  <2> QED BY <2>1, <2>2, <2>3, <2>4, <2>5 DEF Rolling
<1>5. ASSUME NEW p \in Building, Begins(p) PROVE (Rolling \/ Fresh) /\ ~CommandFails
  <2>1. /\ pc' = p /\ todo = <<>>
        /\ inv'.ok = inv.ok /\ inv'.fails = inv.fails
        /\ p # "wg" => inv'.base = inv.base
        /\ p = "wg" => inv'.base = HostClean
        /\ pc \notin {"undo", "mode", "idle"}
    BY <1>5, EnterFields DEF Begins, Follows
  <2>2. p = "wg" => Fresh
    BY <1>5, <2>1 DEF Rolling, Fresh
  <2>3. p # "wg" => Rolling
    BY <2>1 DEF Rolling, Building
  <2> QED BY <2>1, <2>2, <2>3 DEF CommandFails
<1>6. CASE Succeeds
  BY <1>6, SucceedsFields DEF Rolling
<1>7. CASE GivesUp
  BY <1>7 DEF GivesUp, Rolling, ShapeInv, CommandFails
<1>8. CASE Ends
  <2>1. /\ pc' = "idle" /\ inv'.base = inv.base /\ inv'.fails = inv.fails
        /\ pc \in {"disconnect", "teardown", "undo", "mode"} /\ todo = <<>>
    BY <1>8 DEF Ends, SameCall
  <2> QED BY <2>1 DEF Rolling, ShapeInv, CommandFails
<1>9. CASE Crash \/ Reboot
  BY <1>9, NoneRuns DEF Rolling
<1>10. CASE UNCHANGED <<pc, todo, inv>>
  BY <1>10 DEF Rolling, CommandFails, ModeInv
<1> QED BY <1>1, <1>2, <1>3, <1>4, <1>5, <1>6, <1>7, <1>8, <1>9, <1>10,
           NextCases DEF LinkLost, vars

\* Each premise held before the step, or the step begins an attempt.
LEMMA PremisesNext ==
    ASSUME TypeOK, IdleDone, ShapeInv, ModeInv, BudgetInv, [Next]_vars
    PROVE  /\ Benign' => Benign
           /\ Certain' => Certain \/ Fresh
           /\ Kept' => Kept \/ Fresh
           /\ NoneFailed' \/ Rolling' => NoneFailed \/ Rolling \/ Fresh
BY RollingNext, History DEF Benign, Certain, Kept

\* A failed command that matters is one that builds.
LEMMA FailsBuilding ==
    ASSUME TypeOK, IdleDone, ShapeInv, ModeInv, BudgetInv, [Next]_vars,
           CommandFails, NoneFailed' \/ Rolling'
    PROVE  /\ pc \in Building /\ pc # "lan" /\ todo # <<>>
           /\ todo' = Undo(Head(todo)) /\ pc' \in {"undo", "undoSplit"}
           /\ pc' = "undoSplit" <=> pc = "split" /\ ~inv.opts.split
           /\ NoneFailed' => Refused(Head(todo), inv.end)
           /\ Rolling' => pc' = "undo"
           /\ UNCHANGED <<host, sess>> /\ inv'.opts = inv.opts /\ inv'.verb = inv.verb
           /\ inv'.end = inv.end /\ inv'.prior = inv.prior
<1>1. NoneFailed' => Refused(Head(todo), inv.end)
  BY History
<1>2. Rolling' => pc \notin Lenient /\ pc' = "undo"
  BY RollingNext
<1>3. Refused(Head(todo), inv.end) => pc \in {"wg", "route", "dns", "split"}
  BY NotRefused
<1>4. pc \notin Lenient
  BY <1>1, <1>2, <1>3 DEF Lenient
<1>5. /\ todo # <<>> /\ UNCHANGED <<host, sess>>
      /\ inv'.opts = inv.opts /\ inv'.verb = inv.verb
      /\ inv'.end = inv.end /\ inv'.prior = inv.prior
      /\ todo' = Undo(Head(todo))
      /\ pc' = IF pc = "split" /\ ~inv.opts.split THEN "undoSplit" ELSE "undo"
  BY <1>4, FailsFields
<1>6. pc \in Building /\ pc # "lan"
  BY <1>4, <1>5 DEF TypeOK, Phases, Lenient, Building, IdleDone
<1> QED BY <1>1, <1>2, <1>5, <1>6

-----------------------------------------------------------------------------
(* What the split package put on the host is announced by its state file.  *)

DelOp(n) == CASE n = 97 -> "del97" [] n = 98 -> "del98" [] n = 99 -> "del99"

\* Whatever is on the host is about to be taken off.
SplitLeft ==
    /\ \A f \in Fam, n \in Pri : <<f, n>> \in split.rules => Left(Cmd(DelOp(n), f))
    /\ \A f \in Fam : split.nft[f] = "none" \/ Left(Cmd("delNft", f))
    /\ \A f \in Fam : split.tbl[f] = EmptyTable \/ Left(Cmd("flush", f))

SplitEmpty == /\ split.rules = {}
              /\ \A f \in Fam : split.nft[f] = "none" /\ split.tbl[f] = EmptyTable

\* split.up writes the state file before anything it describes, and a
\* teardown removes it after everything it describes.
FiledInv ==
    (NoneFailed \/ Rolling) =>
        /\ split.file.present \/ SplitEmpty
        /\ pc = "split" /\ todo # <<>> /\ Head(todo).op # "save" => split.file.present
        /\ pc \in Removing /\ Left(One("rm")) => SplitLeft
        /\ pc = "disconnect" => ~split.file.present \/ Left(One("rm"))

LEMMA CleanHost ==
    ASSUME HostClean
    PROVE  /\ route = NoRoutes /\ ~dns.perLink /\ fw = NoRelay /\ ~shim
           /\ dns.resolv = "orig" /\ link = "absent"
           /\ split.file.present \/ SplitEmpty
BY DEF HostClean, SessionClean, KernelClean, SplitEmpty

LEMMA StrippedLeft ==
    ASSUME Stripped \subseteq Elems(todo')
    PROVE  SplitLeft' /\ Left(One("rm"))' /\ Left(One("markOff"))'
<1>1. \A f \in Fam, op \in Unmake : Cmd(op, f) \in Elems(todo')
  BY DEF Stripped
<1>2. \A n \in Pri : DelOp(n) \in Unmake
  BY DEF DelOp, Pri, Unmake
<1>3. One("rm") \in Elems(todo') /\ One("markOff") \in Elems(todo')
  BY DEF Stripped
<1> QED BY <1>1, <1>2, <1>3 DEF SplitLeft, Left, Unmake

\* The teardown at the head of a connect or a disconnect.
LEMMA DownLeft ==
    ASSUME todo' = Teardown \/ todo' = SplitDown \o Teardown
    PROVE  /\ Elems(Teardown) \subseteq Elems(todo')
           /\ Left(One("rm"))' \/ Left(One("markOff"))' =>
                 split.file.present /\ todo' # Teardown
           /\ todo' = SplitDown \o Teardown /\ split.file.present
                 => Stripped \subseteq Elems(todo')
           /\ ~Left(One("rmBackup"))'
<1>1. /\ Elems(SplitDown \o Teardown)
           = (IF split.file.present THEN Stripped ELSE {}) \cup Elems(Teardown)
  BY TeardownParts, NotSplit, DownThen
<1>2. /\ Elems(Teardown) = {One("unlan"), One("stop"), One("undrop"), One("linkDel")}
                         \cup Elems(DnsRestore) \cup Elems(RouteUnset)
      /\ Elems(RouteUnset) = {Cmd("undefault", "v4"), Cmd("undefault", "v6"), One("unpin")}
      /\ Elems(DnsRestore) = {One(IF FileDns THEN "restore" ELSE "revert")}
  BY TeardownParts, DownParts
<1>3. \A x \in Elems(Teardown) : x.op \notin {"rm", "markOff", "rmBackup"}
  BY <1>2 DEF One, Cmd
<1>4. \A x \in Stripped : x.op # "rmBackup"
  BY DEF Stripped, One, Cmd, Unmake
<1>5. \A op : One(op).op = op
  BY DEF One
<1> QED BY <1>1, <1>3, <1>4, <1>5 DEF Left

\* One command of a teardown: it takes off what it is there for, and leaves
\* the rest to the commands after it.
LEMMA FiledRemoves ==
    ASSUME TypeOK, IdleDone, ShapeInv, FiledInv, Exec, pc \in Removing,
           NoneFailed \/ Rolling
    PROVE  /\ split'.file.present \/ SplitEmpty'
           /\ Left(One("rm"))' => SplitLeft'
           /\ pc = "disconnect" => ~split'.file.present \/ Left(One("rm"))'
<1> DEFINE c == Head(todo)
<1>1. /\ c \in RemoveCmds /\ UNCHANGED pc
      /\ \A x : x \in Elems(todo) => x = c \/ x \in Elems(todo')
      /\ \A x : x \in Elems(todo') => x \in Elems(todo) \/ x = One("rmBackup")
      /\ \A x : x \in Elems(todo') => x = One("rmBackup") \/ Before(c, x)
      /\ c.op \in SplitOps => SplitCmd(c, inv.opts.split, inv.prior)
      /\ c.op \notin SplitOps => split' = split \/ LinkGone
  BY RemovingEffect
<1>2. /\ split.file.present \/ SplitEmpty
      /\ Left(One("rm")) => SplitLeft
      /\ pc = "disconnect" => ~split.file.present \/ Left(One("rm"))
  BY DEF FiledInv
<1>3. \A op : One(op).op = op
  BY DEF One
<1>4. Left(One("rm"))' => Left(One("rm"))
  BY <1>1, <1>3 DEF Left
<1>5. c.op = "rm" => c = One("rm")
  BY <1>1 DEF RemoveCmds, FamOps
<1>6. c \in Command /\ c.op \in RemoveOps /\ HostTypeOK
      /\ inv.opts.split \in BOOLEAN /\ inv.prior \in {0, 1}
  BY <1>1 DEF RemoveCmds, TypeOK, Invocation, ConnectOpts
<1>7. /\ \A f \in Fam, n \in Pri : DelOp(n) \in Unmake /\ Cmd(DelOp(n), f).op = DelOp(n)
      /\ \A f \in Fam, op \in Unmake : Cmd(op, f).op = op /\ Cmd(op, f).fam = f
      /\ "flush" \in Unmake /\ "delNft" \in Unmake
      /\ Unmake \subseteq SplitOps
      /\ "rm" \notin Unmake /\ "rmBackup" \notin Unmake
  BY DEF DelOp, Pri, Unmake, Cmd, SplitOps
<1> HIDE DEF c
<1>8. CASE c.op = "rm"
  <2>1. \A x \in Elems(todo) : x.op \notin Unmake
    BY <1>1, <1>3, <1>5, <1>7, <1>8 DEF Before
  <2>2. SplitLeft
    <3>1. c \in Elems(todo)
      BY ExecFields DEF c
    <3> QED BY <1>2, <1>5, <1>8, <3>1 DEF Left
  <2>3. SplitEmpty
    <3>1. \A f \in Fam, n \in Pri : <<f, n>> \notin split.rules
      <4>1. ASSUME NEW f \in Fam, NEW n \in Pri, <<f, n>> \in split.rules PROVE FALSE
        <5>1. Cmd(DelOp(n), f) \in Elems(todo)
          BY <2>2, <4>1 DEF SplitLeft, Left
        <5>2. Cmd(DelOp(n), f).op \in Unmake
          BY <1>7
        <5> QED BY <2>1, <5>1, <5>2
      <4> QED BY <4>1
    <3>2. \A f \in Fam : split.nft[f] = "none" /\ split.tbl[f] = EmptyTable
      BY <1>7, <2>1, <2>2 DEF SplitLeft, Left
    <3>3. split.rules \subseteq Fam \X Pri
      BY <1>6 DEF HostTypeOK, SplitState
    <3> QED BY <3>1, <3>2, <3>3 DEF SplitEmpty
  <2>4. /\ ~split'.file.present /\ split'.rules = split.rules
        /\ split'.nft = split.nft /\ split'.tbl = split.tbl
    BY <1>1, <1>6, <1>8, SplitFields DEF SplitOps
  <2>5. SplitEmpty'
    BY <2>3, <2>4 DEF SplitEmpty
  <2>6. SplitLeft'
    BY <2>5 DEF SplitEmpty, SplitLeft
  <2> QED BY <2>4, <2>5, <2>6
<1>9. CASE c.op \in Unmake
  <2>1. /\ split'.file = split.file
        /\ split'.rules \subseteq split.rules
        /\ c.op = "del97" => split'.rules = split.rules \ {<<c.fam, 97>>}
        /\ c.op = "del98" => split'.rules = split.rules \ {<<c.fam, 98>>}
        /\ c.op = "del99" => split'.rules = split.rules \ {<<c.fam, 99>>}
        /\ \A f \in Fam : split.nft[f] = "none" => split'.nft[f] = "none"
        /\ c.op = "delNft" => split'.nft[c.fam] = "none"
        /\ \A f \in Fam : split.tbl[f] = EmptyTable => split'.tbl[f] = EmptyTable
        /\ c.op = "flush" => split'.tbl[c.fam] = EmptyTable
    <3>1. SplitCmd(c, inv.opts.split, inv.prior) /\ c.op \in SplitOps /\ c.fam \in Fam
      BY <1>1, <1>6, <1>7, <1>9 DEF Command, FamOps, Unmake
    <3> HIDE DEF SplitCmd
    <3> QED BY <1>6, <1>9, <3>1, SplitFields DEF Unmake
  <2>2. split.file.present \/ SplitEmpty'
    BY <1>2, <2>1 DEF SplitEmpty
  <2>3. ASSUME Left(One("rm"))' PROVE SplitLeft'
    <3>1. SplitLeft
      BY <1>2, <1>4, <2>3
    <3>2. ASSUME NEW f \in Fam, NEW n \in Pri, <<f, n>> \in split'.rules
          PROVE  Left(Cmd(DelOp(n), f))'
      <4>1. Cmd(DelOp(n), f) \in Elems(todo)
        BY <2>1, <3>1, <3>2 DEF SplitLeft, Left
      <4>2. c # Cmd(DelOp(n), f)
        BY <2>1, <3>2 DEF Cmd, DelOp, Pri
      <4> QED BY <1>1, <4>1, <4>2 DEF Left
    <3>3. ASSUME NEW f \in Fam PROVE /\ split'.nft[f] = "none" \/ Left(Cmd("delNft", f))'
                                     /\ split'.tbl[f] = EmptyTable \/ Left(Cmd("flush", f))'
      <4>1. /\ c = Cmd("delNft", f) => c.op = "delNft" /\ c.fam = f
            /\ c = Cmd("flush", f) => c.op = "flush" /\ c.fam = f
        BY DEF Cmd
      <4> QED BY <1>1, <2>1, <3>1, <4>1 DEF SplitLeft, Left
    <3> QED BY <3>2, <3>3 DEF SplitLeft
  <2>4. Left(One("rm")) => Left(One("rm"))'
    BY <1>1, <1>3, <1>7, <1>9 DEF Left
  <2> QED BY <1>2, <2>1, <2>2, <2>3, <2>4
<1>10. CASE c.op \notin Unmake \cup {"rm"}
  <2>1. /\ split'.file = split.file
        /\ split'.rules = split.rules /\ split'.nft = split.nft
        /\ \A f \in Fam : split.tbl[f] = EmptyTable => split'.tbl[f] = EmptyTable
    <3>1. CASE c.op \in SplitOps
      <4>1. c.op = "markOff"
        BY <1>6, <1>10, <3>1 DEF RemoveOps, SplitOps
      <4> QED BY <1>1, <1>6, <3>1, <4>1, SplitFields
    <3>2. CASE c.op \notin SplitOps
      BY <1>1, <1>6, <3>2, LinkGoneFields
    <3> QED BY <3>1, <3>2
  <2>2. split.file.present \/ SplitEmpty'
    BY <1>2, <2>1 DEF SplitEmpty
  <2>3. \A f \in Fam, op \in Unmake : Left(Cmd(op, f)) => Left(Cmd(op, f))'
    BY <1>1, <1>7, <1>10 DEF Left
  <2>4. SplitLeft => SplitLeft'
    BY <1>7, <2>1, <2>3 DEF SplitLeft
  <2>5. Left(One("rm")) => Left(One("rm"))'
    BY <1>1, <1>3, <1>10 DEF Left
  <2> QED BY <1>2, <1>4, <2>1, <2>2, <2>4, <2>5
<1> QED BY <1>8, <1>9, <1>10

LEMMA FiledExec ==
    ASSUME TypeOK, IdleDone, ShapeInv, FiledInv, Exec, NoneFailed \/ Rolling
    PROVE  FiledInv'
<1>1. todo # <<>> /\ UNCHANGED <<pc, inv>> /\ pc \in Removing \cup Stepped \cup {"split"}
  BY ExecFields, RunningOp
<1>2. CASE pc \in Removing
  <2>1. pc' # "split"
    BY <1>1, <1>2 DEF Removing
  <2> QED BY <1>1, <1>2, <2>1, FiledRemoves DEF FiledInv
<1>3. CASE pc \in Stepped
  <2>1. split' = split
    BY <1>3, SteppedEffect
  <2>2. pc' \notin Removing \cup {"split"}
    BY <1>1, <1>3 DEF Stepped, Removing
  <2> QED BY <1>1, <2>1, <2>2 DEF FiledInv, SplitEmpty, Removing
<1>4. CASE pc = "split"
  <2> DEFINE c == Head(todo)
  <2>1. /\ c \in Command /\ c.op \in MakeOps /\ c.op \in SplitOps
        /\ SplitCmd(c, inv.opts.split, inv.prior)
    BY <1>4, SplitEffect
  <2>2. c.op # "save" => split.file.present
    BY <1>1, <1>4 DEF FiledInv
  <2>3. HostTypeOK /\ inv.opts.split \in BOOLEAN /\ inv.prior \in {0, 1}
    BY DEF TypeOK, Invocation, ConnectOpts
  <2> HIDE DEF c
  <2>4. /\ c.op = "save" => split'.file.present
        /\ c.op \notin {"save", "rm"} => split'.file = split.file
    BY <2>1, <2>3, SplitFields
  <2>5. split'.file.present
    BY <2>1, <2>2, <2>4 DEF MakeOps
  <2> QED BY <1>1, <1>4, <2>5 DEF FiledInv, Removing
<1> QED BY <1>1, <1>2, <1>3, <1>4

LEMMA FiledInit == Init => FiledInv
BY DEF Init, HostInit, FiledInv, SplitEmpty, NoSplit, Removing

LEMMA FiledNext ==
    ASSUME TypeOK, IdleDone, ShapeInv, ModeInv, BudgetInv, FiledInv, [Next]_vars
    PROVE  FiledInv'
<1> SUFFICES ASSUME NoneFailed' \/ Rolling' PROVE FiledInv'
  BY DEF FiledInv
<1>0. NoneFailed \/ Rolling \/ Fresh
  BY PremisesNext
<1>f. split.file.present \/ SplitEmpty
  BY <1>0, CleanHost DEF FiledInv, Fresh
<1>p. UNCHANGED split => split'.file.present \/ SplitEmpty'
  BY <1>f DEF SplitEmpty
<1>1. ASSUME NEW o \in Options, Connect(o) PROVE FiledInv'
  <2>1. /\ UNCHANGED host
        /\ \/ pc' = "teardown" /\ (todo' = Teardown \/ todo' = SplitDown \o Teardown)
           \/ pc' = "save"
    BY <1>1, ConnectFields
  <2>2. pc' = "teardown" /\ Left(One("rm"))' => SplitLeft'
    BY <2>1, DownLeft, StrippedLeft
  <2> QED BY <1>p, <2>1, <2>2 DEF FiledInv, host, Removing
<1>2. CASE Disconnect
  <2>1. UNCHANGED host /\ pc' = "disconnect" /\ todo' = SplitDown \o Teardown
    BY <1>2, DisconnectFields
  <2>2. split.file.present => SplitLeft' /\ Left(One("rm"))'
    BY <2>1, DownLeft, StrippedLeft
  <2>3. Left(One("rm"))' => split.file.present
    BY <2>1, DownLeft
  <2> QED BY <1>p, <2>1, <2>2, <2>3 DEF FiledInv, host
<1>3. CASE Exec
  <2>1. NoneFailed \/ Rolling
    BY <1>3, <1>0 DEF Exec, Fresh, Begins
  <2> QED BY <1>3, <2>1, FiledExec
<1>4. CASE CommandFails
  <2>1. /\ pc \in Building /\ pc # "lan" /\ UNCHANGED host
        /\ todo' = Undo(Head(todo)) /\ pc' \in {"undo", "undoSplit"}
    BY <1>4, FailsBuilding
  <2>2. Left(One("rm"))' => SplitLeft'
    BY <2>1, UndoParts, StrippedLeft DEF Left
  <2> QED BY <1>p, <2>1, <2>2 DEF FiledInv, host
<1>5. ASSUME NEW p \in Building, Begins(p) PROVE FiledInv'
  <2>1. /\ pc' = p /\ UNCHANGED host
        /\ p = "split" => todo' = <<>> \/ todo' = SplitUp(inv.opts.split)
    BY <1>5, EnterFields DEF Begins
  <2>2. inv.opts.split \in BOOLEAN
    BY DEF TypeOK, Invocation, ConnectOpts
  <2>3. p = "split" /\ todo' # <<>> => Head(todo').op = "save"
    BY <2>1, <2>2, SaveFirst
  <2> QED BY <1>p, <2>1, <2>3 DEF FiledInv, Removing, Building, host
<1>6. CASE Succeeds \/ GivesUp \/ Ends \/ Crash
  <2>1. UNCHANGED host /\ pc' \in {"idle", "mode"}
    BY <1>6, SucceedsFields DEF GivesUp, Ends, Crash
  <2> QED BY <1>p, <2>1 DEF FiledInv, Removing, host
<1>7. CASE LinkLost
  <2>1. /\ UNCHANGED <<pc, todo>> /\ LinkGone /\ HostTypeOK
    BY <1>7 DEF LinkLost, TypeOK
  <2>2. /\ split'.file = split.file /\ split'.rules = split.rules
        /\ split'.nft = split.nft
        /\ \A f \in Fam : split.tbl[f] = EmptyTable => split'.tbl[f] = EmptyTable
    BY <2>1, LinkGoneFields
  <2>3. NoneFailed \/ Rolling
    BY <1>7, History DEF Rolling, LinkLost
  <2>4. SplitLeft => SplitLeft'
    BY <2>1, <2>2 DEF SplitLeft, Left
  <2>5. split'.file.present \/ SplitEmpty'
    BY <1>f, <2>2 DEF SplitEmpty
  <2> QED BY <2>1, <2>2, <2>3, <2>4, <2>5 DEF FiledInv, Left
<1>8. CASE Reboot
  <2>1. split' = NoSplit /\ pc' = "idle"
    BY <1>8 DEF Reboot
  <2> QED BY <2>1 DEF FiledInv, SplitEmpty, NoSplit, Removing
<1>9. CASE UNCHANGED vars
  <2>1. NoneFailed \/ Rolling
    BY <1>9 DEF vars, Rolling, NoneFailed
  <2> QED BY <1>9, <2>1 DEF FiledInv, SplitEmpty, SplitLeft, Left, vars, host
<1> QED BY <1>1, <1>2, <1>3, <1>4, <1>5, <1>6, <1>7, <1>8, <1>9, NextCases

-----------------------------------------------------------------------------
(* What of a session is on the host in which phase.                        *)

\* Nothing of a full session but its link, its shim and resolv.conf.
Bare == /\ route.def = {} /\ route.pins = {} /\ ~route.lan
        /\ ~dns.perLink /\ fw = NoRelay

Orig == dns.resolv = "orig"

\* The phases after dns.set.
TakesFull == {"firewall", "shim", "lan", "split", "undoSplit"}

\* Host routes, per-link DNS and kill-switch: an attempt starts without,
\* makes them in the order of its phases, and a teardown or an undo has a
\* command left for each that is there.
RoutesInv ==
    Certain =>
        /\ route.pins \subseteq {cfg.LastEndpoint}
        /\ \/ pc \in {"save", "wg", "mode"}
           \/ pc \in {"split", "shim"} /\ inv.opts.split
           => Bare /\ (Kept => Orig)
        /\ pc = "route" => /\ fw = NoRelay /\ ~route.lan
                           /\ todo = RouteSet => route.pins = {}
                           /\ Kept => Orig
        /\ pc = "dns" => fw = NoRelay /\ ~route.lan
        /\ pc = "firewall" => ~route.lan /\ (todo # <<>> => fw = NoRelay)
        /\ pc = "shim" /\ ~inv.opts.split => ~route.lan
        /\ pc = "undo" => /\ route.def = {} \/ Left(One("linkDel"))
                          /\ ~dns.perLink \/ Left(One("linkDel"))
                          /\ ~route.lan
                          /\ fw = NoRelay \/ Left(One("undrop"))
        /\ pc \in {"undo", "teardown", "disconnect"} =>
              route.pins = {} \/ Left(One("unpin"))

\* The administrator's resolv.conf is in place or in the backup, the backup
\* never holds mvad's own, and it is removed only once written back.
ResolvInv ==
    /\ Kept =>
        /\ Orig \/ dns.backup = "orig"
        /\ pc = "dns" => /\ todo # <<>> => Orig
                         /\ todo # DnsSet /\ FileDns => dns.backup = "orig"
        /\ pc \in Removing /\ Left(One("rmBackup")) => Orig
        /\ \/ pc \in Removing /\ Left(One("restore"))
           \/ pc \in TakesFull /\ ~inv.opts.split
           => dns.backup # "mullvad"
        /\ pc \in {"undo", "teardown", "disconnect"} => Orig \/ Left(One("restore"))
    /\ Benign /\ NoReboot => dns.backup # "mullvad"

\* A teardown has a command left for everything it is there to remove.
TeardownInv ==
    NoneFailed /\ pc \in {"teardown", "disconnect"} =>
        /\ route.def = {} \/ Left(One("linkDel"))
        /\ ~dns.perLink \/ Left(One("linkDel"))
        /\ link = "absent" \/ Left(One("linkDel"))
        /\ ~route.lan \/ Left(One("unlan"))
        /\ fw = NoRelay \/ Left(One("undrop"))
        /\ ~shim \/ Left(One("stop"))
        /\ dns.backup = "none" \/ Left(One("restore")) \/ Left(One("rmBackup"))
        /\ ~inv.err

\* The phases of an attempt before its shim is started.
BeforeShim == \/ pc \in {"wg", "route", "dns", "firewall", "undo", "mode"}
              \/ pc = "shim" /\ todo # <<>>
              \/ pc = "split" /\ inv.opts.split

\* What one failed command of an attempt on a clean host leaves.
CleanInv ==
    Rolling =>
        /\ pc = "undo" => link = "absent" \/ Left(One("linkDel"))
        /\ pc = "wg" /\ todo = WgUp => link = "absent"
        /\ pc \in {"idle", "mode"} => Bare /\ Orig /\ link = "absent"
        /\ BeforeShim \/ pc = "idle" => ~shim

\* As long as no link was lost, a link that is not up means that nothing
\* else of a session is there.
LinkInv ==
    NoneFailed /\ NoLoss =>
        /\ \/ pc \in {"route", "dns"} \cup TakesFull
           \/ pc = "wg" /\ todo = <<>>
           => link = "up"
        /\ link # "up" => Bare /\ ~shim /\ (NoReboot => Orig)
        /\ pc = "undo" => todo = <<>> \/ link # "up"

\* As long as no invocation was killed, the kill-switch means that between
\* two of them; only a split session leaves its shim behind.
IdleInv ==
    NoneFailed /\ NoneKilled =>
        /\ pc = "idle" => fw # NoRelay \/ (Bare /\ (NoReboot => Orig))
        /\ BeforeShim \/ pc = "save" \/ (pc = "idle" /\ fw = NoRelay)
              => (shim => sess = "split")

LEMMA TeardownLeft ==
    /\ One("linkDel") \in Elems(Teardown) /\ One("unlan") \in Elems(Teardown)
    /\ One("undrop") \in Elems(Teardown) /\ One("stop") \in Elems(Teardown)
    /\ One("unpin") \in Elems(Teardown)
    /\ FileDns => One("restore") \in Elems(Teardown)
BY TeardownParts, DownParts

LEMMA NoneLeft == \A x : ~(x \in Elems(<<>>))
BY ElemsEmpty

\* Exec changes none of the premises.
LEMMA ExecPremises ==
    ASSUME Exec
    PROVE  /\ Certain' = Certain /\ Kept' = Kept /\ Benign' = Benign
           /\ Rolling' = Rolling /\ NoneFailed' = NoneFailed
           /\ NoneKilled' = NoneKilled /\ NoLoss' = NoLoss /\ NoReboot' = NoReboot
<1>1. UNCHANGED <<pc, inv, budget>>
  BY DEF Exec
<1>2. Rolling' = Rolling /\ NoneFailed' = NoneFailed
      /\ NoneKilled' = NoneKilled /\ NoLoss' = NoLoss /\ NoReboot' = NoReboot
  BY <1>1 DEF Rolling, NoneFailed, NoneKilled, NoLoss, NoReboot
<1> QED BY <1>2 DEF Certain, Kept, Benign

LEMMA RoutesInit == Init => RoutesInv
BY DEF Init, HostInit, RoutesInv, NoRoutes

LEMMA RoutesExec ==
    ASSUME TypeOK, IdleDone, ShapeInv, RoutesInv, Exec, Certain
    PROVE  RoutesInv'
<1>0. /\ Certain' /\ (Kept' = Kept)
      /\ UNCHANGED <<pc, inv>> /\ todo # <<>>
      /\ pc \in Removing \cup Stepped \cup {"split"}
  BY ExecPremises, ExecFields, RunningOp
<1>1. CASE pc \in Removing
  <2> DEFINE c == Head(todo)
  <2>1. /\ cfg' = cfg
        /\ route'.def \subseteq route.def /\ route'.pins \subseteq route.pins
        /\ route'.lan => route.lan
        /\ dns'.perLink => dns.perLink
        /\ fw' = fw \/ fw' = NoRelay
        /\ c = One("linkDel") => route'.def = {} /\ ~dns'.perLink
        /\ c = One("undrop") => fw' = NoRelay
        /\ c = One("unpin") => route'.pins = route.pins \ {inv.end}
        /\ \A x : Left(x) => x = c \/ Left(x)'
    BY <1>1, RemovingEffect DEF Left
  <2>2. pc \in {"undo", "teardown", "disconnect"} => inv.end = cfg.LastEndpoint
    BY <1>0 DEF ShapeInv
  <2>3. route.pins \subseteq {cfg.LastEndpoint}
    BY DEF RoutesInv
  <2>4. c = One("unpin") /\ pc \in {"undo", "teardown", "disconnect"} => route'.pins = {}
    BY <2>1, <2>2, <2>3
  <2> HIDE DEF c
  <2>5. pc = "undo" => /\ route'.def = {} \/ Left(One("linkDel"))'
                       /\ ~dns'.perLink \/ Left(One("linkDel"))'
                       /\ ~route'.lan
                       /\ fw' = NoRelay \/ Left(One("undrop"))'
    BY <2>1 DEF RoutesInv
  <2>6. pc \in {"undo", "teardown", "disconnect"} =>
              route'.pins = {} \/ Left(One("unpin"))'
    BY <2>1, <2>4 DEF RoutesInv
  <2> QED BY <1>0, <1>1, <2>1, <2>3, <2>5, <2>6 DEF RoutesInv, Removing
<1>2. CASE pc \in Stepped
  <2>1. pc \notin {"undo", "teardown", "disconnect", "split"}
    BY <1>2 DEF Stepped
  <2>2. CASE pc \in {"save", "wg", "mode"}
    <3>1. UNCHANGED <<route, dns, fw>>
      BY <1>2, <2>2, SteppedEffect
    <3>2. Bare /\ (Kept => Orig)
      BY <2>2 DEF RoutesInv
    <3>3. Bare' /\ (Kept' => Orig') /\ route'.pins = {}
      BY <1>0, <3>1, <3>2 DEF Bare, Orig
    <3> QED BY <1>0, <2>2, <3>3 DEF RoutesInv
  <2>3. CASE pc = "route"
    <3>1. /\ UNCHANGED <<dns, fw, cfg>> /\ route'.lan = route.lan /\ todo' # RouteSet
          /\ route'.pins \subseteq route.pins \cup {inv.end}
      BY <1>2, <2>3, SteppedEffect
    <3>2. inv.end = cfg.LastEndpoint
      BY <2>3 DEF ShapeInv, Dialling, Building
    <3>3. route.pins \subseteq {cfg.LastEndpoint} /\ fw = NoRelay /\ ~route.lan
          /\ (Kept => Orig)
      BY <2>3 DEF RoutesInv
    <3> QED BY <1>0, <2>3, <3>1, <3>2, <3>3 DEF RoutesInv, Orig
  <2>4. CASE pc = "dns"
    <3>1. UNCHANGED <<route, fw, cfg>>
      BY <1>2, <2>4, SteppedEffect
    <3> QED BY <1>0, <2>4, <3>1 DEF RoutesInv
  <2>5. CASE pc = "firewall"
    <3>1. UNCHANGED <<route, cfg>> /\ todo' = <<>>
      BY <1>2, <2>5, SteppedEffect
    <3> QED BY <1>0, <2>5, <3>1 DEF RoutesInv
  <2>6. CASE pc = "shim"
    <3>1. UNCHANGED <<route, dns, fw, cfg>>
      BY <1>2, <2>6, SteppedEffect
    <3> QED BY <1>0, <2>6, <3>1 DEF RoutesInv, Bare, Orig
  <2>7. CASE pc = "lan"
    <3>1. route'.pins = route.pins /\ cfg' = cfg
      BY <1>2, <2>7, SteppedEffect
    <3> QED BY <1>0, <2>7, <3>1 DEF RoutesInv
  <2> QED BY <1>2, <2>2, <2>3, <2>4, <2>5, <2>6, <2>7 DEF Stepped
<1>3. CASE pc = "split"
  <2>1. UNCHANGED <<route, dns, fw, cfg>>
    BY <1>3, SplitEffect
  <2> QED BY <1>0, <1>3, <2>1 DEF RoutesInv, Bare, Orig
<1> QED BY <1>0, <1>1, <1>2, <1>3

LEMMA RoutesFails ==
    ASSUME TypeOK, IdleDone, ShapeInv, ModeInv, BudgetInv, RoutesInv, [Next]_vars,
           CommandFails, Certain'
    PROVE  RoutesInv'
<1> DEFINE c == Head(todo)
<1>1. /\ pc \in Building /\ pc # "lan" /\ todo # <<>>
      /\ todo' = Undo(c) /\ pc' \in {"undo", "undoSplit"}
      /\ pc' = "undoSplit" <=> pc = "split" /\ ~inv.opts.split
      /\ UNCHANGED <<route, dns, fw, cfg>>
  BY FailsBuilding DEF Certain, Benign, host
<1>2. Certain
  BY <1>1, PremisesNext DEF Fresh, Begins
<1>3. CASE pc = "split" /\ ~inv.opts.split
  BY <1>1, <1>2, <1>3 DEF RoutesInv
<1>4. CASE ~(pc = "split" /\ ~inv.opts.split)
  <2>1. \/ pc \in {"save", "wg"} \/ (pc \in {"shim", "split"} /\ inv.opts.split)
        \/ pc \in {"route", "dns", "firewall"}
        \/ pc = "shim" /\ ~inv.opts.split
    BY <1>1, <1>4 DEF Building
  <2>2. CASE \/ pc \in {"save", "wg"} \/ (pc \in {"shim", "split"} /\ inv.opts.split)
    <3>1. Bare
      BY <1>2, <2>2 DEF RoutesInv
    <3> QED BY <1>1, <1>2, <1>4, <3>1 DEF RoutesInv, Bare
  <2>3. CASE pc \in {"route", "dns", "firewall"} \/ (pc = "shim" /\ ~inv.opts.split)
    <3>1. /\ Left(One("linkDel"))'
          /\ Left(One("unpin"))' \/ (pc = "route" /\ c.op = "pin")
          /\ pc = "shim" => Left(One("undrop"))'
      BY <1>1, <2>3, UndoParts DEF Left
    <3>2. pc = "route" /\ c.op = "pin" => todo = RouteSet
      BY <1>1, StepHead DEF Stepped
    <3>3. /\ route.pins \subseteq {cfg.LastEndpoint} /\ ~route.lan
          /\ pc \in {"route", "dns", "firewall"} => fw = NoRelay
          /\ pc = "route" /\ todo = RouteSet => route.pins = {}
      BY <1>1, <1>2, <2>3 DEF RoutesInv
    <3> QED BY <1>1, <1>4, <2>3, <3>1, <3>2, <3>3 DEF RoutesInv
  <2> QED BY <2>1, <2>2, <2>3
<1> QED BY <1>3, <1>4

\* Nothing is left after a teardown or an undo that has run its commands.
LEMMA NothingLeft ==
    ASSUME TypeOK, RoutesInv, ResolvInv, TeardownInv, todo = <<>>,
           \/ pc = "undo" /\ Certain
           \/ pc \in {"teardown", "disconnect"} /\ NoneFailed
    PROVE  /\ Certain => Bare
           /\ route.def = {} /\ ~route.lan /\ ~dns.perLink /\ fw = NoRelay
           /\ Kept => Orig
           /\ pc # "undo" => link = "absent" /\ ~shim /\ ~inv.err /\ dns.backup = "none"
<1>1. \A x : ~Left(x)
  BY NoneLeft DEF Left
<1> QED BY <1>1 DEF RoutesInv, ResolvInv, TeardownInv, Bare

LEMMA RoutesNext ==
    ASSUME TypeOK, IdleDone, ShapeInv, ModeInv, BudgetInv, RoutesInv, ResolvInv,
           TeardownInv, LinkInv, IdleInv, [Next]_vars
    PROVE  RoutesInv'
<1> SUFFICES ASSUME Certain' PROVE RoutesInv'
  BY DEF RoutesInv
<1>0. Certain \/ Fresh
  BY PremisesNext
<1>k. Kept' => Kept \/ Fresh
  BY PremisesNext
<1>p. route.pins \subseteq {cfg.LastEndpoint}
  <2>1. CASE Fresh
    <3>1. route = NoRoutes
      BY <2>1, CleanHost DEF Fresh
    <3> QED BY <3>1 DEF NoRoutes
  <2> QED BY <1>0, <2>1 DEF RoutesInv
<1>1. ASSUME NEW o \in Options, Connect(o) PROVE RoutesInv'
  <2>0. /\ pc = "idle" /\ UNCHANGED host /\ ~inv'.base
        /\ \/ pc' = "teardown" /\ (todo' = Teardown \/ todo' = SplitDown \o Teardown)
           \/ pc' = "save" /\ (~NeedsDisconnect \/ Spend("fail"))
    BY <1>1, ConnectFields
  <2>2. Benign' /\ Benign /\ (Kept' => NoReboot)
    BY <2>0, PremisesNext, History DEF Certain, Kept, Rolling
  <2>1. /\ pc = "idle" /\ UNCHANGED host /\ ~inv'.base
        /\ \/ pc' = "teardown" /\ (todo' = Teardown \/ todo' = SplitDown \o Teardown)
           \/ pc' = "save" /\ ~NeedsDisconnect
    BY <2>0, <2>2, FailSpent DEF Benign
  <2>3. CASE pc' = "teardown"
    <3>1. Left(One("unpin"))'
      BY <2>1, <2>3, DownLeft, TeardownLeft DEF Left
    <3> QED BY <1>p, <2>1, <2>3, <3>1 DEF RoutesInv, host
  <2>4. CASE pc' = "save"
    <3>1. link # "up" /\ fw = NoRelay
      BY <2>1, <2>4 DEF NeedsDisconnect
    <3>2. Bare /\ (NoReboot => Orig)
      BY <2>1, <2>2, <3>1 DEF Benign, LinkInv, IdleInv
    <3> QED BY <1>p, <2>1, <2>2, <2>4, <3>2 DEF RoutesInv, host, Bare, Orig
  <2> QED BY <2>1, <2>3, <2>4
<1>2. CASE Disconnect
  <2>1. UNCHANGED host /\ pc' = "disconnect" /\ todo' = SplitDown \o Teardown
    BY <1>2, DisconnectFields
  <2>2. Left(One("unpin"))'
    BY <2>1, DownLeft, TeardownLeft DEF Left
  <2> QED BY <1>p, <2>1, <2>2 DEF RoutesInv, host
<1>3. CASE Exec
  BY <1>3, RoutesExec, ExecPremises
<1>4. CASE CommandFails
  BY <1>4, RoutesFails
<1>5. ASSUME NEW p \in Building, Begins(p) PROVE RoutesInv'
  <2>1. /\ pc' = p /\ UNCHANGED host /\ todo = <<>> /\ Follows(p)
        /\ inv'.opts = inv.opts /\ (p # "wg" => inv'.base = inv.base)
    BY <1>5, EnterFields DEF Begins
  <2>2. CASE p = "save"
    <3>1. pc = "teardown" /\ ~inv'.base /\ ~Fresh
      <4>1. pc = "teardown"
        BY <2>1, <2>2 DEF Follows
      <4> QED BY <2>1, <2>2, <4>1 DEF ShapeInv, Fresh, Begins, Follows
    <3>2. Benign' /\ Certain /\ NoneFailed
      BY <1>0, <3>1, PremisesNext DEF Certain, Rolling, Benign
    <3>3. Bare /\ (Kept' => Orig)
      BY <1>k, <2>1, <3>1, <3>2, NothingLeft
    <3> QED BY <1>p, <2>1, <2>2, <3>3 DEF RoutesInv, host, Bare, Orig
  <2>3. CASE p = "wg"
    <3>1. pc = "save"
      BY <2>1, <2>3 DEF Follows
    <3>2. Bare /\ (Kept' => Orig)
      <4>1. CASE Fresh
        BY <4>1, CleanHost DEF Fresh, Bare, Orig, NoRoutes
      <4>2. CASE ~Fresh
        BY <1>0, <1>k, <3>1, <4>2 DEF RoutesInv
      <4> QED BY <4>1, <4>2
    <3> QED BY <1>p, <2>1, <2>3, <3>2 DEF RoutesInv, host, Bare, Orig
  <2>4. CASE p \notin {"save", "wg"}
    <3>1. ~Fresh
      BY <2>1, <2>4, EnterFields DEF Fresh, Begins
    <3>2. Certain /\ (Kept' => Kept)
      BY <1>0, <1>k, <3>1
    <3>3. CASE p \in {"route", "dns", "firewall", "lan"}
      BY <1>p, <2>1, <3>2, <3>3 DEF RoutesInv, Follows, host, Bare, Orig
    <3>4. CASE p = "shim"
      <4>1. \/ pc = "firewall" /\ ~inv.opts.split
            \/ pc = "split" /\ inv.opts.split
        BY <2>1, <3>4 DEF Follows, ShapeInv, FullOnly
      <4> QED BY <1>p, <2>1, <3>2, <3>4, <4>1 DEF RoutesInv, host, Bare, Orig
    <3>5. CASE p = "split"
      <4>1. \/ pc = "wg"
            \/ pc = "lan" /\ ~inv.opts.split
        BY <2>1, <3>5 DEF Follows, ShapeInv, FullOnly
      <4> QED BY <1>p, <2>1, <3>2, <3>5, <4>1 DEF RoutesInv, host, Bare, Orig
    <3> QED BY <2>4, <3>3, <3>4, <3>5 DEF Building
  <2> QED BY <2>2, <2>3, <2>4
<1>6. CASE Succeeds \/ Ends \/ Crash
  <2>1. UNCHANGED host /\ pc' = "idle"
    BY <1>6, SucceedsFields DEF Ends, Crash
  <2> QED BY <1>p, <2>1 DEF RoutesInv, host
<1>7. CASE GivesUp
  <2>1. UNCHANGED host /\ pc' = "mode" /\ pc = "undo" /\ todo = <<>>
    BY <1>7 DEF GivesUp, ModeInv
  <2>2. ~Fresh
    BY <2>1 DEF Fresh, Begins, Follows
  <2>3. Bare /\ (Kept' => Orig)
    BY <1>0, <1>k, <2>1, <2>2, NothingLeft
  <2> QED BY <1>p, <2>1, <2>3 DEF RoutesInv, host, Bare, Orig
<1>8. CASE LinkLost
  <2>1. /\ UNCHANGED <<pc, todo, inv, fw, cfg>> /\ LinkGone /\ HostTypeOK
    BY <1>8 DEF LinkLost, TypeOK
  <2>2. /\ route'.def = {} /\ route'.pins = route.pins /\ route'.lan = route.lan
        /\ dns'.resolv = dns.resolv /\ ~dns'.perLink
    BY <2>1, LinkGoneFields
  <2>3. ~Fresh
    BY <2>1, EnterFields DEF Fresh, Begins, Follows, Building
  <2> QED BY <1>0, <1>k, <2>1, <2>2, <2>3 DEF RoutesInv, Bare, Orig, Left
<1>9. CASE Reboot
  <2>1. route' = NoRoutes /\ pc' = "idle"
    BY <1>9 DEF Reboot
  <2> QED BY <2>1 DEF RoutesInv, NoRoutes
<1>10. CASE UNCHANGED vars
  <2>1. Certain' = Certain /\ Kept' = Kept
    BY <1>10 DEF vars, Certain, Kept, Rolling, Benign, NoneFailed, NoneKilled, NoLoss, NoReboot
  <2> QED BY <1>10, <2>1 DEF RoutesInv, Bare, Orig, Left, vars, host
<1> QED BY <1>1, <1>2, <1>3, <1>4, <1>5, <1>6, <1>7, <1>8, <1>9, <1>10, NextCases

\* An attempt begins only when "save" goes on to "wg".
LEMMA FreshFields ==
    ASSUME TypeOK, Fresh
    PROVE  /\ pc = "save" /\ pc' = "wg" /\ todo = <<>> /\ todo' = WgUp
           /\ UNCHANGED host
BY EnterFields DEF Fresh, Begins, Follows, Program, Building

LEMMA ResolvInit == Init => ResolvInv
BY DEF Init, HostInit, ResolvInv, Orig, Removing, TakesFull

LEMMA ResolvExec ==
    ASSUME TypeOK, IdleDone, ShapeInv, ShapeInv', ResolvInv, Exec, Kept
    PROVE  ResolvInv'
<1>0. /\ Kept' /\ ((Benign /\ NoReboot)' = (Benign /\ NoReboot))
      /\ UNCHANGED <<pc, inv>> /\ todo # <<>>
      /\ pc \in Removing \cup Stepped \cup {"split"}
  BY ExecPremises, ExecFields, RunningOp
<1>t. dns.backup \in {"none", "orig", "mullvad"}
  BY DEF TypeOK, HostTypeOK
<1>1. CASE pc \in Removing
  <2> DEFINE c == Head(todo)
  <2>1. /\ c = One("restore") /\ dns.backup # "none" => dns'.resolv = dns.backup
        /\ c # One("restore") \/ dns.backup = "none" => dns'.resolv = dns.resolv
        /\ c # One("rmBackup") => dns'.backup = dns.backup
        /\ c = One("rmBackup") => dns'.backup = "none"
        /\ \A x : Left(x) => x = c \/ Left(x)'
        /\ \A x : Left(x)' => \/ Left(x)
                              \/ /\ x = One("rmBackup")
                                 /\ c = One("restore") /\ dns.backup # "none"
    BY <1>1, RemovingEffect DEF Left
  <2>2. Left(c) /\ One("rmBackup") # One("restore")
    BY ExecFields DEF Left, One
  <2>3. pc = "undoSplit" => ~inv.opts.split
    BY DEF ShapeInv, FullOnly
  <2> HIDE DEF c
  <2>4. /\ Orig \/ dns.backup = "orig"
        /\ Left(One("rmBackup")) => Orig
        /\ Left(One("restore")) => dns.backup # "mullvad"
        /\ pc = "undoSplit" => dns.backup # "mullvad"
        /\ pc \in {"undo", "teardown", "disconnect"} => Orig \/ Left(One("restore"))
        /\ Benign /\ NoReboot => dns.backup # "mullvad"
    BY <1>1, <2>3 DEF ResolvInv, TakesFull
  <2>5. CASE c = One("restore") /\ dns.backup # "none"
    <3>1. dns.backup = "orig" /\ dns'.resolv = "orig" /\ dns'.backup = "orig"
      BY <1>t, <2>1, <2>2, <2>4, <2>5
    <3> QED BY <1>0, <1>1, <3>1 DEF ResolvInv, Orig, Removing
  <2>6. CASE c = One("restore") /\ dns.backup = "none"
    <3>1. Orig' /\ dns'.backup = "none"
      BY <2>1, <2>2, <2>4, <2>6 DEF Orig
    <3> QED BY <1>0, <1>1, <3>1 DEF ResolvInv, Removing
  <2>7. CASE c = One("rmBackup")
    <3>1. Orig' /\ dns'.backup = "none"
      BY <2>1, <2>2, <2>4, <2>7 DEF Orig
    <3> QED BY <1>0, <1>1, <3>1 DEF ResolvInv, Removing
  <2>8. CASE c \notin {One("restore"), One("rmBackup")}
    <3>1. /\ dns'.resolv = dns.resolv /\ dns'.backup = dns.backup
          /\ Left(One("restore"))' <=> Left(One("restore"))
          /\ Left(One("rmBackup"))' <=> Left(One("rmBackup"))
      BY <2>1, <2>8
    <3> QED BY <1>0, <1>1, <2>4, <3>1 DEF ResolvInv, Orig, Removing, TakesFull
  <2> QED BY <2>5, <2>6, <2>7, <2>8
<1>2. CASE pc \in Stepped
  <2>1. CASE pc # "dns"
    <3>1. UNCHANGED dns
      BY <1>2, <2>1, SteppedEffect DEF Stepped
    <3> QED BY <1>0, <1>2, <2>1, <3>1 DEF ResolvInv, Orig, Stepped, Removing
  <2>2. CASE pc = "dns" /\ FileDns
    <3>1. /\ todo = DnsSet => dns'.resolv = dns.resolv /\ dns'.backup = dns.resolv
          /\ todo # DnsSet => dns'.backup = dns.backup /\ todo' = <<>>
      BY <1>2, <2>2, SteppedEffect
    <3>2. Orig /\ (todo # DnsSet => dns.backup = "orig")
      BY <1>0, <2>2 DEF ResolvInv
    <3>3. dns'.backup = "orig" /\ (todo' # <<>> => Orig')
      BY <3>1, <3>2 DEF Orig
    <3> QED BY <1>0, <2>2, <3>3 DEF ResolvInv, Removing, TakesFull
  <2>3. CASE pc = "dns" /\ ~FileDns
    <3>1. Orig' /\ dns'.backup = "none"
      BY <2>3 DEF ShapeInv, Orig
    <3> QED BY <1>0, <2>3, <3>1 DEF ResolvInv
  <2> QED BY <2>1, <2>2, <2>3
<1>3. CASE pc = "split"
  <2>1. UNCHANGED dns
    BY <1>3, SplitEffect
  <2> QED BY <1>0, <1>3, <2>1 DEF ResolvInv, Orig, Removing
<1> QED BY <1>0, <1>1, <1>2, <1>3

LEMMA ResolvFails ==
    ASSUME TypeOK, IdleDone, ShapeInv, ModeInv, BudgetInv, RoutesInv, ResolvInv,
           [Next]_vars, CommandFails, Kept'
    PROVE  ResolvInv'
<1> DEFINE c == Head(todo)
<1>1. /\ pc \in Building /\ pc # "lan" /\ todo # <<>>
      /\ todo' = Undo(c) /\ pc' \in {"undo", "undoSplit"}
      /\ pc' = "undoSplit" <=> pc = "split" /\ ~inv.opts.split
      /\ UNCHANGED dns /\ inv'.opts = inv.opts
  BY FailsBuilding DEF Kept, Benign, host
<1>2. Kept /\ Certain /\ (Benign' /\ NoReboot' => Benign /\ NoReboot)
  <2>1. Kept
    BY <1>1, PremisesNext DEF Fresh, Begins
  <2> QED BY <2>1, PremisesNext, History DEF Kept, Certain
<1>3. /\ ~Left(One("rmBackup"))'
      /\ Left(One("restore"))' => pc = "firewall" \/ (pc = "shim" /\ ~inv.opts.split)
      /\ FileDns /\ (pc = "firewall" \/ (pc = "shim" /\ ~inv.opts.split))
           => Left(One("restore"))'
  BY <1>1, UndoParts DEF Left
<1>4. /\ pc = "firewall" => ~inv.opts.split
      /\ ~FileDns => Orig
  BY DEF ShapeInv, FullOnly, Orig
<1> HIDE DEF c
<1>5. pc' = "undo" => Orig \/ Left(One("restore"))'
  <2>1. \/ pc \in {"save", "wg"} \/ (pc \in {"shim", "split"} /\ inv.opts.split)
        \/ pc \in {"route", "dns"}
        \/ pc = "firewall" \/ (pc = "shim" /\ ~inv.opts.split)
        \/ pc = "split" /\ ~inv.opts.split
    BY <1>1 DEF Building
  <2>2. CASE \/ pc \in {"save", "wg", "route"} \/ (pc \in {"shim", "split"} /\ inv.opts.split)
    BY <1>2, <2>2 DEF RoutesInv
  <2>3. CASE pc = "dns"
    BY <1>1, <1>2, <2>3 DEF ResolvInv
  <2> QED BY <1>1, <1>3, <1>4, <2>1, <2>2, <2>3
<1>6. /\ Orig \/ dns.backup = "orig"
      /\ pc \in TakesFull /\ ~inv.opts.split => dns.backup # "mullvad"
      /\ Benign /\ NoReboot => dns.backup # "mullvad"
  BY <1>2 DEF ResolvInv
<1>7. /\ Left(One("restore"))' => dns.backup # "mullvad"
      /\ pc' = "undoSplit" => dns.backup # "mullvad"
  BY <1>1, <1>3, <1>4, <1>6 DEF TakesFull
<1>8. pc' = "undo" => pc' \notin TakesFull
  BY DEF TakesFull
<1> QED BY <1>1, <1>2, <1>3, <1>5, <1>6, <1>7, <1>8 DEF ResolvInv, Orig

LEMMA ResolvNext ==
    ASSUME TypeOK, IdleDone, ShapeInv, ShapeInv', ModeInv, BudgetInv, RoutesInv,
           ResolvInv, [Next]_vars
    PROVE  ResolvInv'
<1>b. Benign' /\ NoReboot' => Benign /\ NoReboot /\ Kept'
  BY PremisesNext, History DEF Kept
<1> SUFFICES ASSUME Kept' PROVE ResolvInv'
  BY <1>b DEF ResolvInv
<1>0. Kept \/ Fresh
  BY PremisesNext
<1>p. /\ Orig \/ dns.backup = "orig"
      /\ Benign /\ NoReboot => dns.backup # "mullvad"
  BY <1>0, CleanHost DEF Fresh, ResolvInv, Orig
<1>1. CASE (\E o \in Options : Connect(o)) \/ Disconnect
  <2>1. /\ UNCHANGED host /\ ~inv'.base
        /\ \/ /\ pc' \in {"teardown", "disconnect"}
              /\ todo' = Teardown \/ todo' = SplitDown \o Teardown
           \/ pc' = "save"
    BY <1>1, ConnectFields, DisconnectFields
  <2>2. Benign' /\ NoReboot'
    BY <2>1 DEF Kept, Rolling
  <2>3. CASE pc' = "save"
    BY <1>b, <1>p, <2>1, <2>2, <2>3 DEF ResolvInv, Orig, Removing, TakesFull, host
  <2>4. CASE pc' \in {"teardown", "disconnect"}
    <3>1. ~Left(One("rmBackup"))' /\ (FileDns => Left(One("restore"))')
      BY <2>1, <2>4, DownLeft, TeardownLeft DEF Left
    <3>2. ~FileDns => Orig
      BY DEF ShapeInv, Orig
    <3> QED BY <1>b, <1>p, <2>1, <2>2, <2>4, <3>1, <3>2
            DEF ResolvInv, Orig, TakesFull, host
  <2> QED BY <2>1, <2>3, <2>4
<1>3. CASE Exec
  BY <1>3, ResolvExec, ExecPremises
<1>4. CASE CommandFails
  BY <1>4, ResolvFails
<1>5. ASSUME NEW p \in Building, Begins(p) PROVE ResolvInv'
  <2>1. /\ pc' = p /\ UNCHANGED host /\ todo = <<>> /\ Follows(p)
        /\ inv'.opts = inv.opts
        /\ p = "dns" => todo' = DnsSet
    BY <1>5, EnterFields DEF Begins, Program
  <2>2. CASE p \in {"save", "wg", "route"}
    BY <1>b, <1>p, <2>1, <2>2 DEF ResolvInv, Orig, Removing, TakesFull, host
  <2>3. CASE p \notin {"save", "wg", "route"}
    <3>1. Kept /\ Certain
      <4>1. ~Fresh
        BY <2>1, <2>3, FreshFields
      <4> QED BY <1>0, <4>1 DEF Kept, Certain
    <3>2. CASE p = "dns"
      <4>1. pc = "route"
        BY <2>1, <3>2 DEF Follows
      <4>2. Orig
        BY <3>1, <4>1 DEF RoutesInv
      <4> QED BY <1>b, <1>p, <2>1, <3>2, <4>2 DEF ResolvInv, Orig, Removing, TakesFull, host
    <3>3. CASE p \in TakesFull
      <4>1. \/ inv.opts.split
            \/ pc = "dns"
            \/ pc \in TakesFull
        BY <2>1, <3>3 DEF Follows, TakesFull, ShapeInv, FullOnly
      <4>2. pc = "dns" /\ FileDns => dns.backup = "orig"
        BY <2>1, <3>1, NotEmpty DEF ResolvInv
      <4>3. ~FileDns => dns.backup = "none"
        BY DEF ShapeInv
      <4>4. ~inv.opts.split => dns.backup # "mullvad"
        BY <3>1, <4>1, <4>2, <4>3 DEF ResolvInv
      <4>5. pc' \notin Removing \cup {"dns"}
        BY <2>1, <2>3, <3>3 DEF Building, Removing, TakesFull
      <4> QED BY <1>b, <1>p, <2>1, <4>4, <4>5 DEF ResolvInv, Orig, Removing, host
    <3> QED BY <2>3, <3>2, <3>3 DEF Building, TakesFull
  <2> QED BY <2>2, <2>3
<1>6. CASE Succeeds \/ GivesUp \/ Ends \/ Crash
  <2>1. UNCHANGED host /\ pc' \in {"idle", "mode"}
    BY <1>6, SucceedsFields DEF GivesUp, Ends, Crash
  <2> QED BY <1>b, <1>p, <2>1 DEF ResolvInv, Orig, Removing, TakesFull, host
<1>7. CASE LinkLost
  <2>1. /\ UNCHANGED <<pc, todo, inv>> /\ LinkGone /\ HostTypeOK
    BY <1>7 DEF LinkLost, TypeOK
  <2>2. dns'.resolv = dns.resolv /\ dns'.backup = dns.backup
    BY <2>1, LinkGoneFields
  <2>3. Kept
    BY <1>0, <2>1, FreshFields
  <2> QED BY <1>b, <2>1, <2>2, <2>3 DEF ResolvInv, Orig, Left
<1>8. CASE Reboot
  BY <1>8, History, NoneRuns DEF Kept, Rolling
<1>9. CASE UNCHANGED vars
  <2>1. Kept' = Kept /\ ((Benign /\ NoReboot)' = (Benign /\ NoReboot))
    BY <1>9 DEF vars, Kept, Rolling, Benign, NoneFailed, NoneKilled, NoLoss, NoReboot
  <2> QED BY <1>9, <2>1 DEF ResolvInv, Orig, Left, vars, host
<1> QED BY <1>1, <1>3, <1>4, <1>5, <1>6, <1>7, <1>8, <1>9, NextCases

LEMMA TeardownInit == Init => TeardownInv
BY DEF Init, TeardownInv

LEMMA TeardownNext ==
    ASSUME TypeOK, IdleDone, ShapeInv, ModeInv, BudgetInv, TeardownInv, [Next]_vars
    PROVE  TeardownInv'
<1> SUFFICES ASSUME NoneFailed', pc' \in {"teardown", "disconnect"} PROVE TeardownInv'
  BY DEF TeardownInv
<1>0. NoneFailed
  BY History
<1>1. CASE (\E o \in Options : Connect(o)) \/ Disconnect
  <2>1. /\ UNCHANGED host /\ ~inv'.err
        /\ todo' = Teardown \/ todo' = SplitDown \o Teardown
    BY <1>1, ConnectFields, DisconnectFields
  <2>2. /\ Left(One("linkDel"))' /\ Left(One("unlan"))' /\ Left(One("undrop"))'
        /\ Left(One("stop"))' /\ (FileDns => Left(One("restore"))')
    BY <2>1, DownLeft, TeardownLeft DEF Left
  <2>3. ~FileDns => dns.backup = "none"
    BY DEF ShapeInv
  <2> QED BY <2>1, <2>2, <2>3 DEF TeardownInv, host
<1>3. CASE Exec
  <2> DEFINE c == Head(todo)
  <2>1. UNCHANGED <<pc, inv>>
    BY <1>3 DEF Exec
  <2>2. /\ link' = link \/ link' = "absent"
        /\ route'.def \subseteq route.def /\ (route'.lan => route.lan)
        /\ dns'.perLink => dns.perLink
        /\ fw' = fw \/ fw' = NoRelay
        /\ shim' => shim
        /\ c = One("linkDel") => link' = "absent" /\ route'.def = {} /\ ~dns'.perLink
        /\ c = One("unlan") => ~route'.lan
        /\ c = One("stop") => ~shim'
        /\ c = One("undrop") => fw' = NoRelay
        /\ c = One("restore") /\ dns.backup # "none" => Left(One("rmBackup"))'
        /\ c # One("rmBackup") => dns'.backup = dns.backup
        /\ c = One("rmBackup") => dns'.backup = "none"
        /\ \A x : Left(x) => x = c \/ Left(x)'
    BY <1>3, <2>1, RemovingEffect DEF Left, Removing
  <2>3. One("rmBackup") # One("restore")
    BY DEF One
  <2> HIDE DEF c
  <2> QED BY <1>0, <2>1, <2>2, <2>3 DEF TeardownInv
<1>4. CASE CommandFails
  BY <1>4, FailsBuilding
<1>5. ASSUME NEW p \in Building, Begins(p) PROVE FALSE
  BY <1>5, EnterFields DEF Begins, Building
<1>6. CASE Succeeds \/ GivesUp \/ Ends \/ Crash \/ Reboot
  BY <1>6, SucceedsFields DEF GivesUp, Ends, Crash, Reboot
<1>7. CASE LinkLost
  <2>1. /\ UNCHANGED <<pc, todo, inv, fw, shim>> /\ LinkGone /\ HostTypeOK
    BY <1>7 DEF LinkLost, TypeOK
  <2>2. /\ link' = "absent" /\ route'.def = {} /\ route'.lan = route.lan
        /\ ~dns'.perLink /\ dns'.backup = dns.backup
    BY <2>1, LinkGoneFields
  <2> QED BY <1>0, <2>1, <2>2 DEF TeardownInv, Left
<1>8. CASE UNCHANGED vars
  BY <1>0, <1>8 DEF TeardownInv, Left, vars, host
<1> QED BY <1>1, <1>3, <1>4, <1>5, <1>6, <1>7, <1>8, NextCases

LEMMA CleanInit == Init => CleanInv
BY DEF Init, CleanInv, Rolling, NoInvocation

LEMMA CleanExec ==
    ASSUME TypeOK, IdleDone, ShapeInv, CleanInv, Exec, Rolling
    PROVE  CleanInv'
<1>0. /\ Rolling' /\ UNCHANGED <<pc, inv>> /\ todo # <<>>
      /\ pc \in Removing \cup Stepped \cup {"split"}
  BY ExecPremises, ExecFields, RunningOp
<1>1. CASE pc \in Removing
  <2> DEFINE c == Head(todo)
  <2>1. /\ link' = link \/ link' = "absent"
        /\ shim' => shim
        /\ c = One("linkDel") => link' = "absent"
        /\ \A x : Left(x) => x = c \/ Left(x)'
    BY <1>1, RemovingEffect DEF Left
  <2> HIDE DEF c
  <2> QED BY <1>0, <1>1, <2>1 DEF CleanInv, BeforeShim, Removing
<1>2. CASE pc \in Stepped
  <2>1. CASE pc \in {"save", "wg", "mode"}
    <3>1. /\ UNCHANGED <<route, dns, fw, shim>>
          /\ pc # "wg" => link' = link
          /\ pc = "wg" => todo' # WgUp
      BY <1>2, <2>1, SteppedEffect
    <3> QED BY <1>0, <2>1, <3>1 DEF CleanInv, BeforeShim, Bare, Orig
  <2>2. CASE pc \in {"route", "dns", "firewall"}
    <3>1. shim' = shim
      BY <1>2, <2>2, SteppedEffect
    <3> QED BY <1>0, <2>2, <3>1 DEF CleanInv, BeforeShim
  <2>3. CASE pc \in {"shim", "lan"}
    <3>1. pc = "shim" => todo' = <<>>
      BY <1>2, <2>3, SteppedEffect
    <3> QED BY <1>0, <2>3, <3>1 DEF CleanInv, BeforeShim
  <2> QED BY <1>2, <2>1, <2>2, <2>3 DEF Stepped
<1>3. CASE pc = "split"
  <2>1. UNCHANGED shim
    BY <1>3, SplitEffect
  <2> QED BY <1>0, <1>3, <2>1 DEF CleanInv, BeforeShim
<1> QED BY <1>0, <1>1, <1>2, <1>3

LEMMA CleanNext ==
    ASSUME TypeOK, IdleDone, ShapeInv, ModeInv, BudgetInv, RoutesInv, ResolvInv,
           TeardownInv, CleanInv, [Next]_vars
    PROVE  CleanInv'
<1> SUFFICES ASSUME Rolling' PROVE CleanInv'
  BY DEF CleanInv
<1>0. Rolling \/ Fresh
  BY RollingNext
<1>1. CASE (\E o \in Options : Connect(o)) \/ Disconnect
  BY <1>1, ConnectFields, DisconnectFields DEF Rolling
<1>2. CASE Exec
  BY <1>2, CleanExec, ExecPremises
<1>3. CASE CommandFails
  <2> DEFINE c == Head(todo)
  <2>1. /\ pc \in Building /\ pc # "lan" /\ todo # <<>>
        /\ todo' = Undo(c) /\ pc' = "undo"
        /\ ~(pc = "split" /\ ~inv.opts.split)
        /\ UNCHANGED <<link, shim>>
    BY <1>3, FailsBuilding DEF host
  <2>2. Rolling
    BY <1>0, <2>1 DEF Fresh, Begins
  <2>3. pc # "save"
    BY <2>2 DEF Rolling, ShapeInv
  <2>4. BeforeShim
    BY <2>1, <2>3 DEF BeforeShim, Building
  <2>5. link = "absent" \/ Left(One("linkDel"))'
    <3>1. pc = "wg" /\ c.op = "linkAdd" => todo = WgUp
      BY <2>1, StepHead DEF Stepped
    <3>2. \/ pc = "wg" /\ c.op = "linkAdd"
          \/ Left(One("linkDel"))'
      BY <2>1, <2>3, UndoParts DEF Building, Left
    <3> QED BY <2>2, <3>1, <3>2 DEF CleanInv
  <2> QED BY <2>1, <2>2, <2>4, <2>5 DEF CleanInv
<1>4. ASSUME NEW p \in Building, Begins(p) PROVE CleanInv'
  <2>1. /\ pc' = p /\ UNCHANGED host /\ todo = <<>> /\ Follows(p)
        /\ inv'.opts = inv.opts
    BY <1>4, EnterFields DEF Begins
  <2>2. CASE Fresh
    <3>1. pc' = "wg" /\ link = "absent" /\ ~shim
      BY <2>2, FreshFields, CleanHost DEF Fresh
    <3> QED BY <2>1, <3>1 DEF CleanInv, host
  <2>3. CASE ~Fresh
    <3>1. Rolling
      BY <1>0, <2>3
    <3>2. pc \notin {"teardown", "save"}
      BY <3>1 DEF Rolling, ShapeInv
    <3>3. p \notin {"save", "wg", "undo", "mode", "idle"}
      BY <2>1, <3>2 DEF Follows, Building
    <3>4. ~shim \/ ~BeforeShim'
      <4>1. CASE p \in {"route", "dns", "firewall"}
        BY <2>1, <3>1, <4>1 DEF Follows, CleanInv, BeforeShim
      <4>2. CASE p \in {"shim", "split"}
        <5>1. \/ pc \in {"firewall", "wg"}
              \/ pc = "split" /\ inv.opts.split
              \/ p = "split" /\ ~inv.opts.split
          BY <2>1, <4>2 DEF Follows, ShapeInv, FullOnly
        <5> QED BY <2>1, <3>1, <4>2, <5>1 DEF CleanInv, BeforeShim
      <4>3. CASE p = "lan"
        BY <2>1, <4>3 DEF BeforeShim
      <4> QED BY <3>3, <4>1, <4>2, <4>3 DEF Building
    <3> QED BY <2>1, <3>3, <3>4 DEF CleanInv, host
  <2> QED BY <2>2, <2>3
<1>5. CASE Succeeds
  BY <1>5, SucceedsFields DEF Rolling
<1>6. CASE GivesUp \/ Ends
  <2>1. UNCHANGED host /\ pc' \in {"idle", "mode"} /\ todo = <<>>
        /\ pc \in {"disconnect", "teardown", "undo", "mode"}
    BY <1>6 DEF GivesUp, Ends
  <2>2. Rolling /\ Certain /\ Kept
    BY <1>0, <2>1, FreshFields DEF Certain, Kept
  <2>3. pc \in {"undo", "mode"}
    BY <2>1, <2>2 DEF Rolling, ShapeInv
  <2>4. Bare /\ Orig /\ link = "absent" /\ ~shim
    <3>1. pc = "undo" => Bare /\ Orig
      BY <2>1, <2>2, NothingLeft
    <3>2. ~Left(One("linkDel"))
      BY <2>1, NoneLeft DEF Left
    <3> QED BY <2>2, <2>3, <3>1, <3>2 DEF CleanInv, BeforeShim
  <2> QED BY <2>1, <2>4 DEF CleanInv, host, Bare, Orig
<1>7. CASE Crash \/ Reboot
  BY <1>7, NoneRuns DEF Rolling
<1>8. CASE LinkLost
  <2>1. /\ UNCHANGED <<pc, todo, inv, fw, shim>> /\ LinkGone /\ HostTypeOK
    BY <1>8 DEF LinkLost, TypeOK
  <2>2. /\ link' = "absent" /\ route'.def = {} /\ route'.pins = route.pins
        /\ route'.lan = route.lan /\ dns'.resolv = dns.resolv /\ ~dns'.perLink
    BY <2>1, LinkGoneFields
  <2>3. Rolling
    BY <1>0, <2>1, FreshFields
  <2> QED BY <2>1, <2>2, <2>3 DEF CleanInv, BeforeShim, Bare, Orig
<1>9. CASE UNCHANGED vars
  <2>1. Rolling
    BY <1>9 DEF vars, Rolling
  <2> QED BY <1>9, <2>1 DEF CleanInv, BeforeShim, Bare, Orig, Left, vars, host
<1> QED BY <1>1, <1>2, <1>3, <1>4, <1>5, <1>6, <1>7, <1>8, <1>9, NextCases

LEMMA LinkInit == Init => LinkInv
BY DEF Init, HostInit, LinkInv, Bare, Orig, NoRoutes, TakesFull

LEMMA LinkExec ==
    ASSUME TypeOK, IdleDone, GuardInv, ShapeInv, RoutesInv', ResolvInv, ResolvInv',
           TeardownInv', LinkInv, Exec, NoneFailed, NoLoss
    PROVE  LinkInv'
<1>0. /\ NoneFailed' /\ NoLoss' /\ NoReboot' = NoReboot
      /\ Certain' /\ (NoReboot => Kept /\ Kept')
      /\ UNCHANGED <<pc, inv>> /\ todo # <<>>
      /\ pc \in Removing \cup Stepped \cup {"split"}
  BY ExecPremises, ExecFields, RunningOp DEF Certain, Kept, Benign
<1>1. CASE pc \in Removing
  <2> DEFINE c == Head(todo)
  <2>1. /\ link' = link \/ link' = "absent"
        /\ todo' = <<>> \/ link' = link
        /\ route'.def \subseteq route.def /\ route'.pins \subseteq route.pins
        /\ route'.lan => route.lan
        /\ dns'.perLink => dns.perLink
        /\ fw' = fw \/ fw' = NoRelay
        /\ shim' => shim
        /\ c = One("restore") /\ dns.backup # "none" => dns'.resolv = dns.backup
        /\ c # One("restore") \/ dns.backup = "none" => dns'.resolv = dns.resolv
    BY <1>1, RemovingEffect
  <2>2. Left(c)
    BY ExecFields DEF Left
  <2>3. pc = "undoSplit" => link' = link
    <3>1. pc = "undoSplit" => c \in PhaseCmds("undoSplit")
      BY <1>0, ElemsHeadTail DEF GuardInv, Dialling
    <3>2. pc = "undoSplit" => c.op \in SplitOps
      BY <3>1 DEF PhaseCmds, PhaseOps
    <3> QED BY <3>2, ExecRest
  <2>t. dns.backup \in {"none", "orig", "mullvad"}
    BY DEF TypeOK, HostTypeOK
  <2> HIDE DEF c
  <2>4. CASE link # "up"
    <3>1. link' # "up"
      BY <2>1, <2>4
    <3>2. Bare /\ ~shim /\ (NoReboot => Orig)
      BY <2>4 DEF LinkInv
    <3>3. Bare' /\ ~shim'
      BY <2>1, <3>2 DEF Bare
    <3>4. NoReboot => Orig'
      <4>1. NoReboot /\ c = One("restore") => dns.backup # "mullvad"
        BY <1>0, <1>1, <2>2 DEF ResolvInv
      <4> QED BY <2>1, <2>t, <3>2, <4>1 DEF Orig
    <3>5. pc # "undoSplit"
      BY <2>4 DEF LinkInv, TakesFull
    <3> QED BY <1>0, <1>1, <3>1, <3>3, <3>4, <3>5 DEF LinkInv, Removing, TakesFull
  <2>5. CASE link = "up" /\ link' = "up"
    BY <1>0, <1>1, <2>5 DEF LinkInv
  <2>6. CASE link = "up" /\ link' # "up"
    <3>1. todo' = <<>> /\ pc \in {"teardown", "disconnect"}
      BY <1>0, <1>1, <2>1, <2>3, <2>6 DEF LinkInv, Removing
    <3>2. \A x : ~Left(x)'
      BY <3>1, NoneLeft DEF Left
    <3>3. /\ route'.def = {} /\ ~route'.lan /\ ~dns'.perLink /\ fw' = NoRelay /\ ~shim'
      BY <1>0, <3>1, <3>2 DEF TeardownInv
    <3>4. route'.pins = {}
      BY <1>0, <3>1, <3>2 DEF RoutesInv
    <3>5. NoReboot => Orig'
      BY <1>0, <3>1, <3>2 DEF ResolvInv
    <3> QED BY <1>0, <3>1, <3>3, <3>4, <3>5 DEF LinkInv, Bare, TakesFull
  <2> QED BY <2>4, <2>5, <2>6
<1>2. CASE pc \in {"save", "wg", "mode"}
  <2>1. /\ UNCHANGED <<route, dns, fw, shim>>
        /\ pc # "wg" => link' = link
        /\ pc = "wg" => /\ todo' = <<>> => link' = "up"
                        /\ link' # "up" => link # "up"
    BY <1>2, SteppedEffect DEF Stepped
  <2> QED BY <1>0, <1>2, <2>1 DEF LinkInv, Bare, Orig, TakesFull
<1>3. CASE pc \in {"route", "dns", "firewall", "shim", "lan", "split"}
  <2>1. link' = link
    BY <1>3, SteppedEffect, SplitEffect DEF Stepped
  <2>2. link = "up"
    BY <1>3 DEF LinkInv, TakesFull
  <2> QED BY <1>0, <1>3, <2>1, <2>2 DEF LinkInv
<1> QED BY <1>0, <1>1, <1>2, <1>3 DEF Stepped

LEMMA LinkNext ==
    ASSUME TypeOK, IdleDone, GuardInv, ShapeInv, ModeInv, BudgetInv, RoutesInv, RoutesInv',
           ResolvInv, ResolvInv', TeardownInv', LinkInv, [Next]_vars
    PROVE  LinkInv'
<1> SUFFICES ASSUME NoneFailed', NoLoss' PROVE LinkInv'
  BY DEF LinkInv
<1>0. NoneFailed /\ NoLoss /\ Certain /\ (NoReboot' => NoReboot)
  BY History DEF Certain, Benign
<1>h. UNCHANGED host /\ link # "up" => Bare' /\ ~shim' /\ (NoReboot' => Orig')
  BY <1>0 DEF LinkInv, Bare, Orig, host
<1>1. CASE (\E o \in Options : Connect(o)) \/ Disconnect
  <2>1. UNCHANGED host /\ pc' \in {"teardown", "save", "disconnect"}
    BY <1>1, ConnectFields, DisconnectFields
  <2> QED BY <1>h, <2>1 DEF LinkInv, TakesFull, host
<1>2. CASE Exec
  BY <1>0, <1>2, LinkExec
<1>3. CASE CommandFails
  <2> DEFINE c == Head(todo)
  <2>1. /\ todo # <<>> /\ todo' = Undo(c) /\ UNCHANGED host
        /\ pc' = "undoSplit" => pc = "split"
        /\ pc' \in {"undo", "undoSplit"}
        /\ Refused(c, inv.end)
    BY <1>3, FailsBuilding
  <2>2. /\ pc \in {"wg", "route", "dns", "split"}
        /\ pc = "wg" /\ todo # WgUp => link = "absent"
        /\ pc = "route" => link # "up" \/ (todo = RouteSet /\ inv.end \in route.pins)
        /\ pc \in {"dns", "split"} => link # "up"
    BY <1>3, <2>1, NotRefused
  <2>3. pc = "wg"
    BY <1>0, <2>2 DEF LinkInv, RoutesInv, TakesFull
  <2>4. todo = WgUp => todo' = <<>>
    BY <2>1, <2>3, UndoParts, StepHead DEF Building, Stepped
  <2> QED BY <1>h, <2>1, <2>2, <2>3, <2>4 DEF LinkInv, TakesFull, host
<1>4. ASSUME NEW p \in Building, Begins(p) PROVE LinkInv'
  <2>1. /\ pc' = p /\ UNCHANGED host /\ todo = <<>> /\ Follows(p)
        /\ p = "wg" => todo' = WgUp
    BY <1>4, EnterFields DEF Begins, Program
  <2>2. CASE p \in {"save", "wg"}
    BY <1>h, <2>1, <2>2, NotEmpty DEF LinkInv, TakesFull, host
  <2>3. CASE p \notin {"save", "wg"}
    <3>1. link = "up"
      BY <1>0, <2>1, <2>3 DEF LinkInv, Follows, TakesFull
    <3> QED BY <2>1, <2>3, <3>1 DEF LinkInv, Building, host
  <2> QED BY <2>2, <2>3
<1>5. CASE Succeeds \/ GivesUp \/ Ends \/ Crash
  <2>1. UNCHANGED host /\ pc' \in {"idle", "mode"}
    BY <1>5, SucceedsFields DEF GivesUp, Ends, Crash
  <2> QED BY <1>h, <2>1 DEF LinkInv, TakesFull, host
<1>6. CASE LinkLost
  BY <1>6, History
<1>7. CASE Reboot
  <2>1. /\ route' = NoRoutes /\ ~dns'.perLink /\ fw' = NoRelay /\ ~shim'
        /\ pc' = "idle" /\ ~NoReboot'
    BY <1>7, History DEF Reboot, TypeOK, HostTypeOK
  <2> QED BY <2>1 DEF LinkInv, Bare, NoRoutes, TakesFull
<1>8. CASE UNCHANGED vars
  BY <1>0, <1>8 DEF LinkInv, Bare, Orig, vars, host
<1> QED BY <1>1, <1>2, <1>3, <1>4, <1>5, <1>6, <1>7, <1>8, NextCases

LEMMA IdleInit == Init => IdleInv
BY DEF Init, HostInit, IdleInv, BeforeShim, Bare, Orig, NoRoutes

LEMMA IdleExec ==
    ASSUME TypeOK, IdleDone, ShapeInv, IdleInv, Exec, NoneFailed, NoneKilled
    PROVE  IdleInv'
<1>0. /\ UNCHANGED <<pc, inv, sess>> /\ todo # <<>> /\ pc # "idle"
      /\ pc \in Removing \cup Stepped \cup {"split"}
  BY ExecFields, RunningOp
<1>1. CASE pc \in Removing
  <2>1. shim' => shim
    BY <1>1, RemovingEffect
  <2> QED BY <1>0, <1>1, <2>1 DEF IdleInv, BeforeShim, Removing
<1>2. CASE pc \in {"save", "wg", "mode", "route", "dns", "firewall", "split"}
  <2>1. shim' = shim
    BY <1>2, SteppedEffect, SplitEffect DEF Stepped
  <2> QED BY <1>0, <1>2, <2>1 DEF IdleInv, BeforeShim
<1>3. CASE pc \in {"shim", "lan"}
  <2>1. todo' = <<>>
    BY <1>3, SteppedEffect DEF Stepped
  <2> QED BY <1>0, <1>3, <2>1 DEF IdleInv, BeforeShim
<1> QED BY <1>0, <1>1, <1>2, <1>3 DEF Stepped

LEMMA IdleNext ==
    ASSUME TypeOK, IdleDone, GuardInv, ShapeInv, ModeInv, BudgetInv, RoutesInv,
           ResolvInv, TeardownInv, IdleInv, [Next]_vars
    PROVE  IdleInv'
<1> SUFFICES ASSUME NoneFailed', NoneKilled' PROVE IdleInv'
  BY DEF IdleInv
<1>0. /\ NoneFailed /\ NoneKilled /\ Certain /\ (NoReboot' => NoReboot)
      /\ NoReboot => Kept
  BY History DEF Certain, Kept, Benign
<1>1. ASSUME NEW o \in Options, Connect(o) PROVE IdleInv'
  <2>1. /\ UNCHANGED host /\ pc = "idle"
        /\ pc' = "teardown" \/ (pc' = "save" /\ sess' = sess /\ ~NeedsDisconnect)
    BY <1>1, ConnectFields, FailSpent
  <2> QED BY <1>0, <2>1 DEF IdleInv, BeforeShim, NeedsDisconnect, host
<1>2. CASE Disconnect
  BY <1>2, DisconnectFields DEF IdleInv, BeforeShim
<1>3. CASE Exec
  BY <1>0, <1>3, IdleExec
<1>4. CASE CommandFails
  <2>1. /\ todo # <<>> /\ UNCHANGED <<host, sess>>
        /\ pc' = "undoSplit" <=> pc = "split" /\ ~inv.opts.split
        /\ pc' \in {"undo", "undoSplit"}
        /\ pc \in Building /\ pc # "lan"
    BY <1>4, FailsBuilding
  <2>2. pc' = "undo" => BeforeShim \/ pc = "save"
    BY <2>1 DEF BeforeShim, Building
  <2> QED BY <1>0, <2>1, <2>2 DEF IdleInv, BeforeShim, host
<1>5. ASSUME NEW p \in Building, Begins(p) PROVE IdleInv'
  <2>1. /\ pc' = p /\ UNCHANGED host /\ todo = <<>> /\ Follows(p)
        /\ inv'.opts = inv.opts
        /\ p # "split" \/ inv.opts.split => sess' = sess
    BY <1>5, EnterFields DEF Begins
  <2>2. CASE p = "save"
    <3>1. ~shim
      BY <1>0, <2>1, <2>2, NothingLeft DEF Follows
    <3> QED BY <2>1, <2>2, <3>1 DEF IdleInv, host
  <2>3. CASE p # "save" /\ BeforeShim'
    <3>1. /\ BeforeShim \/ pc = "save"
          /\ sess' = sess
      BY <2>1, <2>3 DEF Follows, BeforeShim, ShapeInv, FullOnly, Building
    <3> QED BY <1>0, <2>1, <2>3, <3>1 DEF IdleInv, Building, host
  <2>4. CASE p # "save" /\ ~BeforeShim'
    BY <2>1, <2>4 DEF IdleInv, Building
  <2> QED BY <2>2, <2>3, <2>4
<1>6. CASE Succeeds
  <2>1. /\ pc' = "idle" /\ UNCHANGED host
        /\ sess' = IF inv.opts.split THEN "split" ELSE "full"
    BY <1>6, SucceedsFields
  <2>2. CASE inv.opts.split
    <3>1. pc = "shim"
      BY <1>6, <2>2 DEF Succeeds
    <3>2. Bare /\ (Kept => Orig)
      BY <1>0, <2>2, <3>1 DEF RoutesInv
    <3> QED BY <1>0, <2>1, <2>2, <3>2 DEF IdleInv, BeforeShim, Bare, Orig, host
  <2>3. CASE ~inv.opts.split
    <3>1. pc \in {"split", "undoSplit"}
      BY <1>6, <2>3 DEF Succeeds
    <3>2. inv.opts \in Options /\ fw = inv.opts.relay
      BY <2>3, <3>1 DEF GuardInv, Dialling, Building
    <3>3. fw # NoRelay
      BY <3>2, SessionAssumption, HostAssumption
    <3> QED BY <2>1, <3>3 DEF IdleInv, BeforeShim, host
  <2> QED BY <2>2, <2>3
<1>7. CASE GivesUp
  <2>1. UNCHANGED <<host, sess>> /\ pc' = "mode" /\ pc = "undo"
    BY <1>7 DEF GivesUp, ModeInv
  <2> QED BY <1>0, <2>1 DEF IdleInv, BeforeShim, host
<1>8. CASE Ends
  <2>1. /\ UNCHANGED <<host, sess>> /\ pc' = "idle" /\ todo = <<>>
        /\ pc \in {"disconnect", "teardown", "undo", "mode"}
    BY <1>8 DEF Ends
  <2>2. Bare /\ (Kept => Orig)
    BY <1>0, <2>1, NothingLeft DEF RoutesInv
  <2>3. shim => sess = "split"
    BY <1>0, <2>1, NothingLeft DEF IdleInv, BeforeShim
  <2> QED BY <1>0, <2>1, <2>2, <2>3 DEF IdleInv, BeforeShim, Bare, Orig, host
<1>9. CASE Crash
  BY <1>9, History
<1>10. CASE LinkLost
  <2>1. /\ UNCHANGED <<pc, todo, inv, sess, fw, shim>> /\ LinkGone /\ HostTypeOK
    BY <1>10 DEF LinkLost, TypeOK
  <2>2. /\ route'.def = {} /\ route'.pins = route.pins
        /\ route'.lan = route.lan /\ dns'.resolv = dns.resolv /\ ~dns'.perLink
    BY <2>1, LinkGoneFields
  <2> QED BY <1>0, <2>1, <2>2 DEF IdleInv, BeforeShim, Bare, Orig
<1>11. CASE Reboot
  <2>1. /\ route' = NoRoutes /\ ~dns'.perLink /\ fw' = NoRelay /\ ~shim' /\ ~NoReboot'
    BY <1>11, History DEF Reboot, TypeOK, HostTypeOK
  <2> QED BY <2>1 DEF IdleInv, Bare, NoRoutes
<1>12. CASE UNCHANGED vars
  BY <1>0, <1>12 DEF IdleInv, BeforeShim, Bare, Orig, vars, host
<1> QED BY <1>1, <1>2, <1>3, <1>4, <1>5, <1>6, <1>7, <1>8, <1>9, <1>10, <1>11, <1>12,
           NextCases

-----------------------------------------------------------------------------
(* src_valid_mark.                                                         *)

\* The state file keeps the value mvad first found, however many sessions
\* follow each other, and a teardown that removes the file still has the
\* command that puts the value back.
SvmInv ==
    NoneFailed /\ NoneKilled /\ ~OtherWg =>
        /\ split.file.present => split.file.SrcValidMark = InitSvm
        /\ \/ split.file.present
           \/ split.svm = InitSvm
           \/ pc \in Removing /\ Left(One("markOff"))
        /\ \/ pc \in Removing /\ Left(One("markOff"))
           \/ pc = "split" /\ (todo # <<>> \/ inv.opts.split)
           \/ pc = "shim" /\ inv.opts.split
           => inv.prior = InitSvm
        /\ InitSvm = 1 => split.svm = 1
        /\ pc \in Removing /\ Left(One("rm")) => Left(One("markOff"))

LEMMA SvmInit == Init => SvmInv
BY DEF Init, HostInit, SvmInv, NoSplit, NoState, Removing

LEMMA SvmRemoves ==
    ASSUME TypeOK, IdleDone, ShapeInv, SvmInv, Exec, pc \in Removing,
           NoneFailed, NoneKilled, ~OtherWg
    PROVE  SvmInv'
<1> DEFINE c == Head(todo)
           off == One("markOff")
           gone == One("rm")
<1>0. UNCHANGED <<pc, inv>>
  BY DEF Exec
<1>1. /\ c \in RemoveCmds
      /\ \A x : x \in Elems(todo) => x = c \/ x \in Elems(todo')
      /\ \A x : x \in Elems(todo') => x \in Elems(todo) \/ x = One("rmBackup")
      /\ \A x : x \in Elems(todo') => x = One("rmBackup") \/ Before(c, x)
      /\ c.op \in SplitOps => SplitCmd(c, inv.opts.split, inv.prior)
      /\ c.op \notin SplitOps => split' = split \/ LinkGone
  BY RemovingEffect
<1>2. /\ c \in Command /\ c.op \in RemoveOps /\ HostTypeOK
      /\ inv.opts.split \in BOOLEAN /\ inv.prior \in {0, 1} /\ split.svm \in {0, 1}
      /\ c.op \in {"rm", "markOff"} => c = One(c.op)
      /\ c \in Elems(todo)
  BY <1>1, ExecFields DEF RemoveCmds, TypeOK, HostTypeOK, SplitState, Invocation,
                          ConnectOpts, FamOps
<1>3. \A op : One(op).op = op
  BY DEF One
<1>4. /\ Left(off)' => Left(off)
      /\ Left(gone)' => Left(gone)
      /\ Left(off) => c = off \/ Left(off)'
      /\ Left(gone) => c = gone \/ Left(gone)'
  <2>1. off # One("rmBackup") /\ gone # One("rmBackup")
    BY <1>3
  <2> QED BY <1>1, <2>1 DEF Left
<1>5. /\ split.file.present => split.file.SrcValidMark = InitSvm
      /\ split.file.present \/ split.svm = InitSvm \/ Left(off)
      /\ Left(off) => inv.prior = InitSvm
      /\ InitSvm = 1 => split.svm = 1
      /\ Left(gone) => Left(off)
  BY DEF SvmInv
<1>6. /\ c.op = "rm" => ~split'.file.present /\ split'.svm = split.svm
      /\ c.op = "markOff" => /\ split'.file = split.file
                             /\ split'.svm = IF inv.prior = 0 THEN 0 ELSE split.svm
      /\ c.op \notin {"rm", "markOff"} => split'.file = split.file /\ split'.svm = split.svm
  <2>1. CASE c.op \in SplitOps
    <3>1. c.op \notin {"save", "markOn"}
      BY <1>2 DEF RemoveOps, Unmake
    <3> QED BY <1>1, <1>2, <2>1, <3>1, SplitFields
  <2>2. CASE c.op \notin SplitOps
    <3>1. c.op \notin {"rm", "markOff"}
      BY <2>2 DEF SplitOps
    <3> QED BY <1>1, <1>2, <2>2, <3>1, LinkGoneFields
  <2> QED BY <2>1, <2>2
<1>7. c.op = "markOff" => ~Left(gone)'
  <2>1. gone # One("rmBackup") /\ gone.op = "rm"
    BY <1>3
  <2> QED BY <1>1, <2>1 DEF Left, Before
<1>8. /\ c = off <=> c.op = "markOff"
      /\ c = gone <=> c.op = "rm"
      /\ off # gone
  BY <1>2, <1>3
<1>9. Left(c) /\ InitSvm \in {0, 1}
  BY <1>2, HostAssumption DEF Left
<1> HIDE DEF c, off, gone
<1>10. /\ split'.file.present => split'.file.SrcValidMark = InitSvm
       /\ split'.file.present \/ split'.svm = InitSvm \/ Left(off)'
       /\ Left(off)' => inv.prior = InitSvm
       /\ InitSvm = 1 => split'.svm = 1
       /\ Left(gone)' => Left(off)'
  <2>1. CASE c.op = "rm"
    BY <1>4, <1>5, <1>6, <1>8, <1>9, <2>1
  <2>2. CASE c.op = "markOff"
    BY <1>2, <1>4, <1>5, <1>6, <1>7, <1>8, <1>9, <2>2
  <2>3. CASE c.op \notin {"rm", "markOff"}
    BY <1>4, <1>5, <1>6, <1>8, <2>3
  <2> QED BY <2>1, <2>2, <2>3
<1> QED BY <1>0, <1>10 DEF SvmInv, Removing, off, gone

LEMMA SvmNext ==
    ASSUME TypeOK, IdleDone, ShapeInv, ModeInv, BudgetInv, FiledInv, SvmInv, [Next]_vars
    PROVE  SvmInv'
<1> SUFFICES ASSUME NoneFailed', NoneKilled', ~OtherWg PROVE SvmInv'
  BY DEF SvmInv
<1>0. NoneFailed /\ NoneKilled
  BY History
<1>p. /\ split.file.present => split.file.SrcValidMark = InitSvm
      /\ split.file.present \/ split.svm = InitSvm \/ (pc \in Removing /\ todo # <<>>)
      /\ InitSvm = 1 => split.svm = 1
  BY <1>0, NoneLeft DEF SvmInv, Left
<1>1. CASE (\E o \in Options : Connect(o)) \/ Disconnect
  <2>1. /\ UNCHANGED host /\ pc = "idle"
        /\ inv'.prior = split.file.SrcValidMark
        /\ \/ /\ pc' \in {"teardown", "disconnect"}
              /\ todo' = Teardown \/ todo' = SplitDown \o Teardown
           \/ pc' = "save"
    BY <1>1, ConnectFields, DisconnectFields
  <2>2. CASE pc' = "save"
    BY <1>p, <2>1, <2>2 DEF SvmInv, Removing, host
  <2>3. CASE pc' \in {"teardown", "disconnect"}
    <3>1. /\ Left(One("markOff"))' => split.file.present
          /\ Left(One("rm"))' => Left(One("markOff"))'
      BY <2>1, <2>3, DownLeft, StrippedLeft
    <3> QED BY <1>p, <2>1, <2>3, <3>1 DEF SvmInv, Removing, host
  <2> QED BY <2>1, <2>2, <2>3
<1>2. CASE Exec
  <2>1. /\ UNCHANGED <<pc, inv>> /\ todo # <<>>
        /\ pc \in Removing \cup Stepped \cup {"split"}
    BY <1>2, ExecFields, RunningOp
  <2>2. CASE pc \in Removing
    BY <1>0, <1>2, <2>2, SvmRemoves
  <2>3. CASE pc \in Stepped
    <3>1. split' = split /\ pc \notin Removing
      BY <1>2, <2>3, SteppedEffect DEF Stepped, Removing
    <3> QED BY <1>0, <2>1, <2>3, <3>1 DEF SvmInv, Stepped
  <2>4. CASE pc = "split"
    <3> DEFINE c == Head(todo)
    <3>1. /\ c \in Command /\ c.op \in MakeOps /\ c.op \in SplitOps
          /\ SplitCmd(c, inv.opts.split, inv.prior)
      BY <1>2, <2>4, SplitEffect
    <3>2. /\ c.op # "save" => split.file.present
          /\ inv.prior = InitSvm
      BY <1>0, <2>1, <2>4 DEF FiledInv, SvmInv
    <3>3. HostTypeOK /\ inv.opts.split \in BOOLEAN /\ inv.prior \in {0, 1}
      BY DEF TypeOK, Invocation, ConnectOpts
    <3> HIDE DEF c
    <3>4. /\ c.op = "save" => split'.file.present /\ split'.file.SrcValidMark = inv.prior
          /\ c.op # "save" => split'.file = split.file
          /\ split'.svm \in {1, split.svm}
      <4>1. c.op \notin {"rm", "markOff"}
        BY <3>1 DEF MakeOps
      <4> QED BY <3>1, <3>3, <4>1, SplitFields
    <3>5. split'.file.present /\ split'.file.SrcValidMark = InitSvm
      BY <1>p, <3>2, <3>4
    <3> QED BY <1>p, <2>1, <2>4, <3>2, <3>4, <3>5 DEF SvmInv, Removing
  <2> QED BY <2>1, <2>2, <2>3, <2>4
<1>3. CASE CommandFails
  <2>1. /\ pc \in Building /\ pc # "lan" /\ todo # <<>> /\ UNCHANGED host
        /\ todo' = Undo(Head(todo)) /\ pc' \in {"undo", "undoSplit"}
        /\ inv'.prior = inv.prior
    BY <1>3, FailsBuilding
  <2>2. Left(One("rm"))' \/ Left(One("markOff"))' =>
           /\ Stripped \subseteq Elems(todo')
           /\ pc = "split" \/ (pc = "shim" /\ inv.opts.split)
    BY <2>1, UndoParts DEF Left
  <2>3. Left(One("rm"))' => Left(One("markOff"))'
    BY <2>2, StrippedLeft
  <2>4. Left(One("markOff"))' => inv.prior = InitSvm
    BY <1>0, <2>1, <2>2 DEF SvmInv
  <2>5. pc \notin Removing
    BY <2>1 DEF Building, Removing
  <2> QED BY <1>p, <2>1, <2>3, <2>4, <2>5 DEF SvmInv, host
<1>4. ASSUME NEW p \in Building, Begins(p) PROVE SvmInv'
  <2>1. /\ pc' = p /\ UNCHANGED host /\ todo = <<>> /\ Follows(p)
        /\ inv'.opts = inv.opts
        /\ p # "split" => inv'.prior = inv.prior
        /\ p = "split" => \/ todo' = <<>> /\ ~inv.opts.split
                          \/ inv'.prior = IF split.file.present
                                            THEN split.file.SrcValidMark
                                            ELSE split.svm
    BY <1>4, EnterFields DEF Begins
  <2>2. p = "shim" /\ inv.opts.split => inv.prior = InitSvm
    <3>1. p = "shim" /\ inv.opts.split => pc = "split"
      BY <2>1 DEF Follows, ShapeInv, FullOnly
    <3> QED BY <1>0, <3>1 DEF SvmInv
  <2>3. pc' \notin Removing
    BY <2>1 DEF Building, Removing
  <2> QED BY <1>p, <2>1, <2>2, <2>3 DEF SvmInv, host
<1>5. CASE Succeeds \/ GivesUp \/ Ends
  <2>1. UNCHANGED host /\ pc' \in {"idle", "mode"} /\ todo = <<>>
    BY <1>5, SucceedsFields DEF Succeeds, GivesUp, Ends
  <2> QED BY <1>p, <2>1 DEF SvmInv, Removing, host
<1>6. CASE Crash
  BY <1>6, History
<1>7. CASE LinkLost
  <2>1. /\ UNCHANGED <<pc, todo, inv>> /\ LinkGone /\ HostTypeOK
    BY <1>7 DEF LinkLost, TypeOK
  <2>2. split'.file = split.file /\ split'.svm = split.svm
    BY <2>1, LinkGoneFields
  <2> QED BY <1>0, <2>1, <2>2 DEF SvmInv, Left
<1>8. CASE Reboot
  <2>1. split' = NoSplit /\ pc' = "idle"
    BY <1>8 DEF Reboot
  <2> QED BY <2>1 DEF SvmInv, NoSplit, NoState, Removing
<1>9. CASE UNCHANGED vars
  BY <1>0, <1>9 DEF SvmInv, Left, vars, host
<1> QED BY <1>1, <1>2, <1>3, <1>4, <1>5, <1>6, <1>7, <1>8, <1>9, NextCases

-----------------------------------------------------------------------------
(* connect --split recovers.                                               *)

\* Its teardown removes the link whatever it finds, so nothing that follows
\* is refused.
RecoverInv ==
    (NoneFailed /\ NoLoss /\ inv.verb = "connect" /\ inv.opts.split) =>
        /\ pc = "idle" => inv.ok
        /\ pc \notin {"undo", "undoSplit", "mode", "disconnect"}
        /\ pc = "save" \/ (pc = "wg" /\ todo = WgUp) => link = "absent"
        /\ pc = "wg" /\ todo # WgUp => link # "absent"

LEMMA RecoverInit == Init => RecoverInv
BY DEF Init, RecoverInv, NoInvocation

LEMMA RecoverNext ==
    ASSUME TypeOK, IdleDone, ShapeInv, ModeInv, BudgetInv, RoutesInv, ResolvInv,
           TeardownInv, LinkInv, RecoverInv, [Next]_vars
    PROVE  RecoverInv'
<1> SUFFICES ASSUME NoneFailed', NoLoss', inv'.verb = "connect", inv'.opts.split
             PROVE  RecoverInv'
  BY DEF RecoverInv
<1>0. NoneFailed /\ NoLoss
  BY History
<1>1. CASE (\E o \in Options : Connect(o)) \/ Disconnect
  <2>1. pc' = "teardown"
    BY <1>1, ConnectFields, DisconnectFields
  <2> QED BY <2>1 DEF RecoverInv
<1>2. CASE Exec
  <2>1. UNCHANGED <<pc, inv>> /\ todo # <<>> /\ pc # "idle"
    BY <1>2, ExecFields, RunningOp
  <2>2. pc = "save" => link' = link
    BY <1>2, SteppedEffect DEF Stepped
  <2>3. pc = "wg" => todo' # WgUp /\ link' # "absent"
    BY <1>2, SteppedEffect DEF Stepped
  <2> QED BY <1>0, <2>1, <2>2, <2>3 DEF RecoverInv
<1>3. CASE CommandFails
  <2>1. /\ inv'.opts = inv.opts /\ inv'.verb = inv.verb
        /\ Refused(Head(todo), inv.end)
    BY <1>3, FailsBuilding
  <2>2. /\ pc \in {"wg", "route", "dns", "split"}
        /\ pc = "wg" /\ todo = WgUp => link # "absent"
        /\ pc = "wg" /\ todo # WgUp => link = "absent"
        /\ pc \in {"dns", "split"} => link # "up"
    BY <1>3, <2>1, NotRefused
  <2>3. pc \in {"wg", "split"}
    BY <2>1, <2>2 DEF ShapeInv, FullOnly
  <2> QED BY <1>0, <2>1, <2>2, <2>3 DEF RecoverInv, LinkInv, TakesFull
<1>4. ASSUME NEW p \in Building, Begins(p) PROVE RecoverInv'
  <2>1. /\ pc' = p /\ UNCHANGED host /\ todo = <<>> /\ Follows(p)
        /\ inv'.opts = inv.opts /\ inv'.verb = inv.verb
        /\ p = "wg" => todo' = WgUp
    BY <1>4, EnterFields DEF Begins, Program
  <2>2. p = "save" => link = "absent"
    BY <1>0, <2>1, NothingLeft DEF Follows
  <2>3. p = "wg" => link = "absent"
    BY <1>0, <2>1 DEF Follows, RecoverInv
  <2> QED BY <2>1, <2>2, <2>3 DEF RecoverInv, Building, host
<1>5. CASE Succeeds
  BY <1>5, SucceedsFields DEF RecoverInv
<1>6. CASE GivesUp \/ Ends
  <2>1. /\ inv'.opts = inv.opts /\ inv'.verb = inv.verb
        /\ pc \in {"disconnect", "teardown", "undo", "mode"} /\ todo = <<>>
        /\ pc = "teardown" => inv.err
    BY <1>6 DEF GivesUp, Ends, SameCall
  <2> QED BY <1>0, <2>1 DEF RecoverInv, TeardownInv
<1>7. CASE Crash \/ Reboot
  BY <1>7, NoneRuns
<1>8. CASE LinkLost
  BY <1>8, History
<1>9. CASE UNCHANGED vars
  BY <1>0, <1>9 DEF RecoverInv, vars, host
<1> QED BY <1>1, <1>2, <1>3, <1>4, <1>5, <1>6, <1>7, <1>8, <1>9, NextCases

-----------------------------------------------------------------------------
(* disconnect restores.                                                    *)

LEMMA NoRoutesFields ==
    ASSUME TypeOK
    PROVE  Bare => route = NoRoutes
<1>1. route \in [def : SUBSET Fam, pins : SUBSET Relays, lan : BOOLEAN]
  BY DEF TypeOK, HostTypeOK
<1>2. ASSUME Bare PROVE route = NoRoutes
  <2> DEFINE no == FALSE
  <2>1. route.lan = no
    BY <1>1, <1>2 DEF Bare
  <2>2. NoRoutes = [def |-> {}, pins |-> {}, lan |-> no]
    BY DEF NoRoutes
  <2>3. route.def = {} /\ route.pins = {}
    BY <1>2 DEF Bare
  <2> HIDE DEF no
  <2> QED BY <1>1, <2>1, <2>2, <2>3
<1> QED BY <1>2

LEMMA RestoresNext ==
    ASSUME TypeOK, IdleDone, ShapeInv, ModeInv, BudgetInv, FiledInv, RoutesInv, ResolvInv,
           TeardownInv, SvmInv, DisconnectRestores, [Next]_vars
    PROVE  DisconnectRestores'
<1> SUFFICES ASSUME pc' = "idle", inv'.verb = "disconnect", inv'.fails = 0, NoneFailed'
             PROVE  DisconnectRestores'
  BY DEF DisconnectRestores
<1>0. /\ NoneFailed /\ (NoneKilled' => NoneKilled) /\ (NoLoss' => NoLoss)
      /\ NoReboot' => NoReboot
  BY History
<1>1. CASE Ends
  <2>1. UNCHANGED <<host, budget>> /\ inv.verb = "disconnect" /\ todo = <<>>
        /\ pc \in {"disconnect", "teardown", "undo", "mode"}
    BY <1>1 DEF Ends, SameCall
  <2>2. pc = "disconnect"
    BY <2>1 DEF ShapeInv
  <2>3. /\ fw = NoRelay /\ link = "absent" /\ ~shim /\ ~dns.perLink /\ dns.backup = "none"
        /\ Certain => Bare
        /\ Kept => Orig
    BY <1>0, <2>1, <2>2, NothingLeft
  <2>4. \A x : ~Left(x)
    BY <2>1, NoneLeft DEF Left
  <2>5. ~split.file.present /\ SplitEmpty
    BY <1>0, <2>2, <2>4 DEF FiledInv
  <2>6. KernelClean
    BY <2>3, <2>5 DEF KernelClean, SplitEmpty
  <2>7. NoneKilled \/ NoLoss => route = NoRoutes /\ (NoReboot => dns.resolv = "orig")
    BY <1>0, <2>3, NoRoutesFields DEF Certain, Kept, Benign, Orig
  <2>8. NoneKilled /\ ~OtherWg => split.svm = InitSvm
    BY <1>0, <2>4, <2>5 DEF SvmInv
  <2>9. KernelClean'
    BY <2>1, <2>6 DEF KernelClean, host
  <2> QED BY <1>0, <2>1, <2>3, <2>5, <2>7, <2>8, <2>9 DEF DisconnectRestores, host
<1>2. CASE UNCHANGED <<host, pc, inv>>
  <2>1. KernelClean' = KernelClean
    BY <1>2 DEF KernelClean, host
  <2> QED BY <1>0, <1>2, <2>1 DEF DisconnectRestores, host
<1>3. CASE LinkLost
  <2>1. link # "absent" /\ UNCHANGED <<pc, inv>>
    BY <1>3 DEF LinkLost
  <2> QED BY <1>0, <2>1 DEF DisconnectRestores, KernelClean
<1>4. CASE (\E o \in Options : Connect(o)) \/ Disconnect
  BY <1>4, ConnectFields, DisconnectFields
<1>5. CASE Exec
  BY <1>5, RunningOp, ExecFields
<1>6. CASE CommandFails
  BY <1>6, FailsBuilding
<1>7. ASSUME NEW p \in Building, Begins(p) PROVE FALSE
  BY <1>7, EnterFields DEF Begins, Building
<1>8. CASE Succeeds
  BY <1>8, SucceedsFields DEF Succeeds, SameCall, ShapeInv
<1>9. CASE GivesUp
  BY <1>9 DEF GivesUp
<1>10. CASE Crash \/ Reboot
  BY <1>10, NoneRuns
<1> QED BY <1>1, <1>2, <1>3, <1>4, <1>5, <1>6, <1>7, <1>8, <1>9, <1>10, NextCases
        DEF vars

-----------------------------------------------------------------------------
(* The four promises.                                                      *)

\* The inductive invariant of the four: none of its parts is inductive
\* alone.  A teardown that has run leaves nothing because each command it
\* needed was left (RoutesInv, ResolvInv, TeardownInv); that it knew what it
\* needed rests on the order in which a session is built (ShapeInv); and that
\* a connect which sees neither link nor kill-switch may build at once, on
\* what the last invocation left (LinkInv, IdleInv).
PromiseInv ==
    /\ TypeOK /\ IdleDone /\ GuardInv /\ ShapeInv /\ ModeInv /\ BudgetInv
    /\ FiledInv /\ RoutesInv /\ ResolvInv /\ TeardownInv /\ CleanInv
    /\ LinkInv /\ IdleInv /\ SvmInv /\ RecoverInv /\ DisconnectRestores

LEMMA PromiseInit == Init => PromiseInv
<1> SUFFICES ASSUME Init PROVE PromiseInv
  OBVIOUS
<1>1. BudgetInv
  BY SessionAssumption DEF Init, BudgetInv, Faults
<1>2. DisconnectRestores
  BY DEF Init, NoInvocation, DisconnectRestores
<1> QED BY <1>1, <1>2, InitType, GuardInit, ShapeInit, ModeInit, FiledInit, RoutesInit,
           ResolvInit, TeardownInit, CleanInit, LinkInit, IdleInit, SvmInit, RecoverInit
        DEF PromiseInv

LEMMA PromiseNext == PromiseInv /\ [Next]_vars => PromiseInv'
<1> SUFFICES ASSUME PromiseInv, [Next]_vars PROVE PromiseInv'
  OBVIOUS
<1> USE DEF PromiseInv
<1>1. TypeOK' /\ IdleDone'
  BY NextType
<1>2. GuardInv'
  BY GuardNext
<1>3. ShapeInv'
  BY ShapeNext
<1>4. ModeInv' /\ BudgetInv'
  BY ModeNext, History
<1>5. FiledInv'
  BY FiledNext
<1>6. RoutesInv'
  BY RoutesNext
<1>7. ResolvInv'
  BY <1>3, ResolvNext
<1>8. TeardownInv'
  BY TeardownNext
<1>9. CleanInv'
  BY CleanNext
<1>10. LinkInv'
  BY <1>6, <1>7, <1>8, LinkNext
<1>11. IdleInv'
  BY IdleNext
<1>12. SvmInv'
  BY SvmNext
<1>13. RecoverInv'
  BY RecoverNext
<1>14. DisconnectRestores'
  BY RestoresNext
<1> QED BY <1>1, <1>2, <1>3, <1>4, <1>5, <1>6, <1>7, <1>8, <1>9, <1>10, <1>11, <1>12,
           <1>13, <1>14

LEMMA PromisesKept == Spec => []PromiseInv
BY PromiseInit, PromiseNext, PTL DEF Spec

\* A connect that one failing command stops, whichever command of whichever
\* phase, after whatever history of kills, failures, losses and reboots,
\* ends with the mode as it was (the deferred function of doConnect) and, if
\* the host was clean when it began to build, with the host clean again.
THEOREM RollbackIsClean == Spec => []RollbackClean
<1>1. PromiseInv => RollbackClean
  <2> SUFFICES ASSUME PromiseInv, pc = "idle", inv.verb = "connect", ~inv.ok, inv.fails = 1
               PROVE  cfg.LastSplit = inv.prevMode /\ (inv.base => HostClean)
    BY DEF RollbackClean
  <2>1. cfg.LastSplit = inv.prevMode
    BY DEF PromiseInv, ModeInv
  <2>2. ASSUME inv.base PROVE HostClean
    <3>1. Rolling
      BY <2>2 DEF Rolling
    <3>2. Bare /\ Orig /\ link = "absent" /\ ~shim
      BY <3>1 DEF PromiseInv, CleanInv
    <3>3. split.file.present \/ SplitEmpty
      BY <3>1 DEF PromiseInv, FiledInv
    <3>4. route = NoRoutes
      BY <3>2, NoRoutesFields DEF PromiseInv
    <3> QED BY <3>2, <3>3, <3>4
            DEF HostClean, SessionClean, KernelClean, SplitEmpty, Bare, Orig
  <2> QED BY <2>1, <2>2
<1> QED BY <1>1, PromisesKept, PTL

\* A disconnect none of whose commands failed, in a history without failed
\* commands, has restored the host: it takes everything off that any killed
\* or completed invocation left there (doDisconnect).
THEOREM DisconnectIsComplete == Spec => []DisconnectRestores
<1>1. PromiseInv => DisconnectRestores
  BY DEF PromiseInv
<1> QED BY <1>1, PromisesKept, PTL

\* Nothing of a session is where mvad would not look for it: the pinned
\* relay is the saved one, resolv.conf is in place or backed up, and without
\* a link, a kill-switch or a state file there is nothing to take down but
\* the shim of a split session (what doConnect and split.down look at).
THEOREM NothingUntraceable == Spec => []Traceable
<1>1. PromiseInv => Traceable
  <2> SUFFICES ASSUME PromiseInv, NoneFailed, NoneKilled \/ NoLoss PROVE Traceable
    BY DEF Traceable
  <2>1. Certain /\ (NoReboot => Kept)
    BY DEF Certain, Kept, Benign
  <2>2. route.pins \subseteq {cfg.LastEndpoint}
    BY <2>1 DEF PromiseInv, RoutesInv
  <2>3. NoReboot => dns.resolv = "orig" \/ dns.backup = "orig"
    BY <2>1 DEF PromiseInv, ResolvInv, Orig
  <2>4. ASSUME pc = "idle", ~NeedsDisconnect, NoReboot
        PROVE  route = NoRoutes /\ Orig /\ ~dns.perLink /\ (shim => sess = "split")
    <3>1. link # "up" /\ fw = NoRelay
      BY <2>4 DEF NeedsDisconnect
    <3>2. Bare /\ Orig /\ (shim => sess = "split")
      BY <2>4, <3>1 DEF PromiseInv, LinkInv, IdleInv
    <3> QED BY <3>2, NoRoutesFields DEF PromiseInv, Bare
  <2>5. split.file.present \/ SplitEmpty
    BY DEF PromiseInv, FiledInv
  <2> QED BY <2>2, <2>3, <2>4, <2>5 DEF Traceable, SplitEmpty, Orig
<1> QED BY <1>1, PromisesKept, PTL

\* connect --split never ends in an error in a history without failed
\* commands and lost links: whatever a killed invocation or a reboot left,
\* its unconditional teardown removes what would make a command be refused.
THEOREM SplitConnectSucceeds == Spec => []SplitConnectRecovers
<1>1. PromiseInv => SplitConnectRecovers
  BY DEF PromiseInv, RecoverInv, SplitConnectRecovers
<1> QED BY <1>1, PromisesKept, PTL
=============================================================================
