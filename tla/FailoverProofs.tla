--------------------------- MODULE FailoverProofs ---------------------------
(* Proofs about module Failover.                                           *)
EXTENDS Failover, TLAPS

\* The points of a connect, a reconnect or a redial of the timer.
Dialling == inv.pc \in {"fetch", "pick", "teardown", "save", "dial"}

\* The relays are chosen.
Chosen == inv.pc \in {"teardown", "save", "dial"}

\* A dial under way knows what it dials.
DialTyped ==
    /\ Dialling => inv.mode \in Mode /\ inv.cfg \in Config
    /\ Chosen => inv.cfg.last \in Last

\* What is chosen was picked from the list the configuration has by now.
ChosenFits ==
    Chosen =>
        LET ends == inv.cfg.last.ends IN
        /\ inv.cfg.last.mode = inv.mode
        /\ inv.cfg.cache[ends.exit] \in [key : {0, 1}, active : BOOLEAN]
        /\ ends \in Picks

\* After the teardown there is nothing left of the old session, unless a
\* full connect did not see it.
Cleared == inv.pc \in {"save", "dial"} => link = None \/ missed

\* A mode is the one the user's last connect asked for, or that mode put back
\* after the connect failed.
AsAsked(mode) ==
    /\ asked \in Mode
    /\ mode.query = asked.query /\ mode.via = asked.via /\ mode.shim = asked.shim
    /\ mode.split = asked.split \/ putBack

\* A dial puts into effect what was saved; a reconnect or a timer asks for
\* what was asked for before, and a dial of theirs that fails puts back the
\* mode that was there.
DialsAsked ==
    /\ inv.pc = "dial" =>
          /\ disk.last = inv.cfg.last
          /\ inv.verb = "connect" => asked = inv.mode
    /\ Dialling /\ inv.verb # "connect" =>
          AsAsked(inv.mode) /\ inv.prevSplit = inv.mode.split

\* What the configuration remembers is what the user asked for.
Remembered == disk.last # None => AsAsked(disk.last.mode)

\* What is on the host the configuration remembers, unless it was missed.
HostRemembered == link # None \/ fw => disk.last # None

LinkRemembered ==
    link # None /\ ~missed =>
        /\ link.ends = disk.last.ends
        /\ link.split = disk.last.mode.split
        /\ Fits(link.ends.exit, disk.last.mode.query)
        /\ Fits(link.ends.entry, disk.last.mode.via)

\* After a disconnect there is nothing for the timer to redial.
DownMeansDown ==
    down => /\ link = None /\ ~fw
            /\ inv.pc # "dial"
            /\ ~(inv.verb = "timer" /\ Dialling)

\* Until the teardown the timer goes by the session it found: it avoids its
\* relays, and it has not chosen the same session again.
TimerAvoids ==
    inv.verb = "timer" /\ link # None /\ ~missed =>
        /\ inv.pc \in {"fetch", "pick", "teardown"} => inv.avoid = link.ends
        /\ inv.pc \in {"fetch", "pick"} => inv.cfg.last = disk.last
        /\ inv.pc = "teardown" /\ inv.cfg.last.ends = link.ends =>
              inv.mode.shim \/ link.key # inv.cfg.cache[link.ends.exit].key

\* The conjuncts about a dial under way.
DialInv == DialTyped /\ ChosenFits /\ Cleared /\ DialsAsked /\ TimerAvoids

\* The conjuncts about what is on the host.
HostInv == Remembered /\ HostRemembered /\ LinkRemembered

\* The inductive invariant.
FailoverInv == TypeOK /\ DialInv /\ HostInv /\ DownMeansDown

-----------------------------------------------------------------------------
(* The operators *)

LEMMA IdleTyped == Idle \in Invocation /\ Idle.pc = "idle" /\ Idle.verb = "none"
<1> DEFINE no == FALSE
<1>1. no \in BOOLEAN OBVIOUS
<1>2. Idle = [pc |-> "idle", verb |-> "none", mode |-> None, avoid |-> Nowhere,
              cfg |-> None, prevSplit |-> no]
  BY Zenon DEF Idle
<1> HIDE DEF no
<1> QED BY <1>1, <1>2 DEF Invocation, Nowhere

LEMMA PrevSplitTyped == PrevSplit \in BOOLEAN
BY Zenon DEF PrevSplit

LEMMA RedialTyped ==
    ASSUME TypeOK, disk.last # None, NEW verb \in {"reconnect", "timer"}
    PROVE  /\ Redial(verb) \in Invocation
           /\ Redial(verb).pc = "fetch" /\ Redial(verb).verb = verb
           /\ Redial(verb).mode = disk.last.mode /\ disk.last.mode \in Mode
           /\ Redial(verb).avoid = disk.last.ends
           /\ Redial(verb).cfg = disk
           /\ Redial(verb).prevSplit = disk.last.mode.split
<1>1. disk.last \in Last /\ disk \in Config BY DEF TypeOK, Config
<1>2. disk.last.mode \in Mode /\ disk.last.ends \in Ends BY <1>1 DEF Last
<1>3. PrevSplit = disk.last.mode.split BY <1>2 DEF PrevSplit, Mode
<1> HIDE DEF PrevSplit
<1> QED BY <1>1, <1>2, <1>3, PrevSplitTyped DEF Redial, Replay, Invocation, Ends

LEMMA SpendTyped ==
    ASSUME TypeOK, NEW k \in {"user", "relay", "fault"}, Spend(k)
    PROVE  budget' \in [{"user", "relay", "fault"} -> Nat]
BY DEF TypeOK, Spend

\* What PickExcept returns matches the query and is listed.
LEMMA PickExceptFits ==
    ASSUME NEW list \in List, NEW q \in Queries, NEW except,
           NEW r \in PickExcept(list, q, except)
    PROVE  r \in Relays /\ r \in Scope[q] /\ list[r] \in [key : {0, 1}, active : BOOLEAN]
<1>1. r \in Listed(list, q) BY DEF PickExcept, Active
<1> QED BY <1>1, FailoverAssumption DEF Listed, List

\* A prefix with another active relay than the one to avoid gets one.
LEMMA PickExceptAvoids ==
    ASSUME NEW list, NEW q, NEW except, q \notin Exact,
           ~(Active(list, q) \subseteq {except})
    PROVE  except \notin PickExcept(list, q, except)
BY DEF PickExcept

\* A hostname has only its relay.
LEMMA ExactOne ==
    ASSUME NEW q \in Exact, NEW r \in Scope[q], NEW s \in Scope[q]
    PROVE  r = s
BY FailoverAssumption

LEMMA PicksFit ==
    ASSUME inv.mode \in Mode, inv.cfg \in Config, NEW ends \in Picks
    PROVE  /\ ends \in Ends
           /\ Fits(ends.exit, inv.mode.query) /\ Fits(ends.entry, inv.mode.via)
           /\ inv.cfg.cache[ends.exit] \in [key : {0, 1}, active : BOOLEAN]
<1>1. inv.cfg.cache \in List /\ inv.mode.query \in Queries
      /\ inv.mode.query # None
  BY FailoverAssumption DEF Config, Mode
<1>2. ends.exit \in PickExcept(inv.cfg.cache, inv.mode.query, inv.avoid.exit)
  BY DEF Picks
<1>3. /\ ends.exit \in Relays /\ Fits(ends.exit, inv.mode.query)
      /\ inv.cfg.cache[ends.exit] \in [key : {0, 1}, active : BOOLEAN]
  BY <1>1, <1>2, PickExceptFits DEF Fits
<1>4. ends.entry \in Relays \cup {None} /\ Fits(ends.entry, inv.mode.via)
  <2>1. CASE inv.mode.via = None
    BY <2>1 DEF Picks, Fits
  <2>2. CASE inv.mode.via # None
    <3>1. inv.mode.via \in Queries BY <2>2 DEF Mode
    <3>2. ends.entry \in PickExcept(inv.cfg.cache, inv.mode.via, inv.avoid.entry)
      BY <2>2 DEF Picks
    <3> QED BY <1>1, <3>1, <3>2, <2>2, PickExceptFits DEF Fits
  <2> QED BY <2>1, <2>2
<1>5. ends = [exit |-> ends.exit, entry |-> ends.entry]
  BY DEF Picks
<1> QED BY <1>3, <1>4, <1>5 DEF Ends

-----------------------------------------------------------------------------
(* What several steps share *)

LEMMA NoDial ==
    ASSUME DownMeansDown, inv'.pc \in {"idle", "probe", "down"},
           down' = down, link' # None \/ fw' => link # None \/ fw
    PROVE  DialInv' /\ DownMeansDown'
BY DEF DialInv, DialTyped, ChosenFits, Cleared, DialsAsked, TimerAvoids,
       Dialling, Chosen, DownMeansDown

\* A dial goes on without saving or dialling yet.
LEMMA DownKept ==
    ASSUME DownMeansDown, down' = down, inv'.verb = inv.verb, Dialling,
           inv'.pc # "dial", link' # None \/ fw' => link # None \/ fw
    PROVE  DownMeansDown'
BY DEF DownMeansDown, Dialling

\* The host loses parts of the session, or keeps it.
LEMMA HostKept ==
    ASSUME HostInv, asked' = asked, putBack' = putBack, disk'.last = disk.last,
           link' \in {link, None}, link' # None /\ missed => missed',
           link' # None \/ fw' => link # None \/ fw
    PROVE  HostInv'
BY DEF HostInv, Remembered, AsAsked, HostRemembered, LinkRemembered, Fits

\* A dial goes on beside what happens to the host and the relays.
LEMMA DialKept ==
    ASSUME DialInv, UNCHANGED <<inv, asked, putBack, disk>>, link' \in {link, None},
           link' # None => missed' = missed
    PROVE  DialInv'
<1>1. (DialTyped /\ DialsAsked /\ Cleared)'
  BY DEF DialInv, DialTyped, DialsAsked, AsAsked, Cleared, Dialling, Chosen
<1>2. ChosenFits'
  BY DEF DialInv, ChosenFits, Chosen, Picks
<1>3. TimerAvoids'
  BY DEF DialInv, TimerAvoids
<1> QED BY <1>1, <1>2, <1>3 DEF DialInv

LEMMA GoneTyped ==
    ASSUME TypeOK, Gone \/ PartlyGone
    PROVE  /\ link' \in {None, link} /\ fw' \in BOOLEAN /\ shim' \in BOOLEAN
           /\ fresh' \in BOOLEAN /\ missed' \in BOOLEAN /\ (fw' => fw)
           /\ link' # None /\ missed => missed'
<1>1. CASE Gone BY <1>1 DEF Gone
<1>2. CASE PartlyGone
  <2>1. fresh' \in BOOLEAN /\ missed' \in BOOLEAN BY <1>2, Zenon DEF PartlyGone
  <2>2. link' # None /\ missed => missed' BY <1>2, Zenon DEF PartlyGone
  <2>3. fw' \in BOOLEAN /\ (fw' => fw)
    <3>1. CASE fw' = FALSE BY <3>1
    <3>2. CASE fw' = fw BY <3>2 DEF TypeOK
    <3> QED BY <1>2, <3>1, <3>2 DEF PartlyGone
  <2>4. shim' \in BOOLEAN BY <1>2, Zenon DEF PartlyGone, TypeOK
  <2> QED BY <1>2, <2>1, <2>2, <2>3, <2>4 DEF PartlyGone
<1> QED BY <1>1, <1>2

-----------------------------------------------------------------------------
(* The steps *)

LEMMA InitHolds == ASSUME Init PROVE FailoverInv
<1>1. /\ alive \subseteq Relays /\ link \in Links \cup {None}
      /\ asked \in Mode \cup {None} /\ down = FALSE
      /\ budget \in [{"user", "relay", "fault"} -> Nat]
  BY FailoverAssumption DEF Init
<1>2. /\ fw \in BOOLEAN /\ shim \in BOOLEAN /\ fresh \in BOOLEAN /\ excused \in BOOLEAN
      /\ down \in BOOLEAN /\ putBack \in BOOLEAN /\ missed \in BOOLEAN
  BY DEF Init
<1>3. disk \in Config
  BY DEF Init, Config, List
<1>4. server \in List
  <2> DEFINE yes == TRUE
  <2>1. yes \in BOOLEAN OBVIOUS
  <2>2. server = [r \in Relays |-> [key |-> 0, active |-> yes]] BY Zenon DEF Init
  <2> HIDE DEF yes
  <2> QED BY <2>1, <2>2 DEF List
<1>5. inv \in Invocation /\ inv.pc = "idle" BY IdleTyped DEF Init
<1>6. TypeOK BY <1>1, <1>2, <1>3, <1>4, <1>5 DEF TypeOK
<1>7. DialTyped /\ ChosenFits /\ Cleared /\ DialsAsked
  BY <1>5 DEF DialTyped, ChosenFits, Cleared, DialsAsked, Dialling, Chosen
<1>8. /\ Remembered /\ HostRemembered /\ LinkRemembered /\ TimerAvoids
      /\ DownMeansDown
  BY DEF Init, Remembered, HostRemembered, LinkRemembered, TimerAvoids, DownMeansDown
<1> QED BY <1>6, <1>7, <1>8 DEF FailoverInv, DialInv, HostInv

LEMMA ConnectHolds == ASSUME FailoverInv, Connect PROVE FailoverInv'
<1> USE DEF FailoverInv
<1>1. PICK m \in Asks :
        inv' = [pc |-> "fetch", verb |-> "connect", mode |-> m,
                avoid |-> Nowhere, cfg |-> disk, prevSplit |-> PrevSplit]
  BY DEF Connect
<1>2. m \in Mode BY FailoverAssumption
<1>3. /\ inv' \in Invocation /\ inv'.pc = "fetch" /\ inv'.verb = "connect"
      /\ inv'.mode = m /\ inv'.cfg = disk
  <2> HIDE DEF PrevSplit
  <2> QED BY <1>1, <1>2, PrevSplitTyped DEF Invocation, Nowhere, TypeOK
<1>4. TypeOK'
  BY <1>3, SpendTyped DEF Connect, TypeOK, world, host, history
<1>5. DialInv' /\ DownMeansDown'
  BY <1>2, <1>3 DEF DialInv, DialTyped, ChosenFits, Cleared, DialsAsked, TimerAvoids,
       DownMeansDown, Dialling, Chosen, Connect, TypeOK, history, host
<1>6. HostInv'
  BY HostKept DEF Connect, host, history
<1> QED BY <1>4, <1>5, <1>6

LEMMA ReconnectHolds == ASSUME FailoverInv, Reconnect PROVE FailoverInv'
<1> USE DEF FailoverInv
<1>1. /\ inv' \in Invocation /\ inv'.pc = "fetch" /\ inv'.verb = "reconnect"
      /\ inv'.mode \in Mode /\ inv'.mode = disk.last.mode /\ inv'.cfg = disk
      /\ inv'.prevSplit = disk.last.mode.split
  BY RedialTyped DEF Reconnect
<1>2. TypeOK'
  BY <1>1, SpendTyped DEF Reconnect, TypeOK, world, host, history
<1>3. DialInv' /\ DownMeansDown'
  BY <1>1 DEF DialInv, DialTyped, ChosenFits, Cleared, DialsAsked, TimerAvoids,
       DownMeansDown, HostInv, Remembered, AsAsked, Dialling, Chosen, Reconnect,
       TypeOK, history, host
<1>4. HostInv'
  BY HostKept DEF Reconnect, host, history
<1> QED BY <1>2, <1>3, <1>4

LEMMA TimerHolds == ASSUME FailoverInv, Timer PROVE FailoverInv'
<1> USE DEF FailoverInv
<1>1. inv' \in Invocation /\ inv'.pc = "probe"
  BY IdleTyped DEF Timer, Invocation
<1>2. TypeOK' BY <1>1 DEF Timer, TypeOK, world, host, history
<1>3. HostInv' BY HostKept DEF Timer, host, history
<1> QED BY <1>1, <1>2, <1>3, NoDial DEF Timer, host, history

LEMMA DisconnectHolds == ASSUME FailoverInv, Disconnect PROVE FailoverInv'
<1> USE DEF FailoverInv
<1>1. inv' \in Invocation /\ inv'.pc = "down"
  BY IdleTyped DEF Disconnect, Invocation
<1>2. TypeOK' BY <1>1, SpendTyped DEF Disconnect, TypeOK, world, host, history
<1>3. HostInv' BY HostKept DEF Disconnect, host, history
<1> QED BY <1>1, <1>2, <1>3, NoDial DEF Disconnect, host, history

\* The timer redials only what it finds on the host.
LEMMA ProbeHolds == ASSUME FailoverInv, Probe PROVE FailoverInv'
<1> USE DEF FailoverInv
<1>1. /\ budget' \in [{"user", "relay", "fault"} -> Nat]
      /\ \/ inv' = Idle
         \/ /\ link # None \/ fw
            /\ disk.last # None /\ inv' = Redial("timer")
  BY SpendTyped DEF Probe, TunnelDead, TypeOK
<1>2. UNCHANGED <<disk, link, fw, asked, putBack, missed, down>>
  BY DEF Probe, host, history
<1>3. HostInv' BY <1>2, HostKept
<1>4. CASE inv' = Idle
  <2>1. TypeOK' BY <1>1, <1>4, IdleTyped DEF Probe, TypeOK, world, host, history
  <2> QED BY <1>2, <1>3, <1>4, <2>1, NoDial, IdleTyped
<1>5. CASE (link # None \/ fw) /\ disk.last # None /\ inv' = Redial("timer")
  <2>1. /\ inv' \in Invocation /\ inv'.pc = "fetch"
        /\ inv'.mode = disk.last.mode /\ inv'.mode \in Mode
        /\ inv'.cfg = disk /\ inv'.avoid = disk.last.ends
        /\ inv'.prevSplit = disk.last.mode.split
    BY <1>5, RedialTyped
  <2>2. TypeOK' BY <1>1, <2>1 DEF Probe, TypeOK, world, host, history
  <2>3. AsAsked(disk.last.mode) BY <1>5 DEF HostInv, Remembered
  <2>4. (DialTyped /\ ChosenFits /\ Cleared /\ DialsAsked)'
    BY <2>1, <2>3, <1>2 DEF DialTyped, ChosenFits, Cleared, DialsAsked, AsAsked,
         Dialling, Chosen, TypeOK
  <2>5. TimerAvoids'
    BY <2>1, <1>2 DEF HostInv, LinkRemembered, TimerAvoids
  <2>6. DownMeansDown' BY <1>2, <1>5 DEF DownMeansDown
  <2> QED BY <1>3, <2>2, <2>4, <2>5, <2>6 DEF DialInv
<1> QED BY <1>1, <1>4, <1>5

\* The list may change; what it is for does not.
LEMMA FetchHolds == ASSUME FailoverInv, Fetch PROVE FailoverInv'
<1> USE DEF FailoverInv
<1>1. inv.pc = "fetch" /\ inv.mode \in Mode /\ inv.cfg \in Config
  BY DEF Fetch, DialInv, DialTyped, Dialling
<1>2. budget' \in [{"user", "relay", "fault"} -> Nat]
  BY SpendTyped DEF Fetch, TypeOK
<1>3. disk' \in Config /\ disk'.last = disk.last
  BY DEF Fetch, TypeOK, Config
<1>4. /\ inv' \in Invocation /\ inv'.pc = "pick" /\ inv'.verb = inv.verb
      /\ inv'.mode = inv.mode /\ inv'.avoid = inv.avoid
      /\ inv'.cfg \in Config /\ inv'.cfg.last = inv.cfg.last
      /\ inv'.prevSplit = inv.prevSplit
  <2>1. CASE inv' = [inv EXCEPT !.pc = "pick", !.cfg.cache = server]
    <3>1. [inv.cfg EXCEPT !.cache = server] \in Config
          /\ [inv.cfg EXCEPT !.cache = server].last = inv.cfg.last
      BY <1>1 DEF TypeOK, Config
    <3>2. inv' = [inv EXCEPT !.pc = "pick", !.cfg = [inv.cfg EXCEPT !.cache = server]]
      BY <2>1 DEF TypeOK, Invocation
    <3> HIDE DEF Config
    <3> QED BY <3>1, <3>2 DEF TypeOK, Invocation
  <2>2. CASE Goto("pick")
    BY <1>1, <2>2 DEF Goto, TypeOK, Invocation
  <2> QED BY <2>1, <2>2 DEF Fetch
<1>5. UNCHANGED <<link, fw, shim, fresh, asked, down, putBack, missed, alive,
                  server, excused>>
  BY DEF Fetch, host, world, history
<1>6. TypeOK' BY <1>2, <1>3, <1>4, <1>5 DEF TypeOK
<1>7. (DialTyped /\ ChosenFits /\ Cleared /\ DialsAsked)'
  BY <1>1, <1>4, <1>5 DEF DialInv, DialTyped, ChosenFits, Cleared, DialsAsked,
       AsAsked, Dialling, Chosen
<1>8. TimerAvoids'
  BY <1>1, <1>3, <1>4, <1>5 DEF DialInv, TimerAvoids
<1>9. HostInv' BY <1>3, <1>5, HostKept
<1>10. DownMeansDown' BY <1>1, <1>4, <1>5, DownKept DEF Dialling
<1> QED BY <1>6, <1>7, <1>8, <1>9, <1>10 DEF DialInv

\* The relays that are chosen fit; a timer has not chosen what it left.
LEMMA PickHolds ==
    ASSUME FailoverInv, NEW ends \in Ends, Pick(ends) PROVE FailoverInv'
<1> USE DEF FailoverInv
<1>1. inv.pc = "pick" /\ inv.mode \in Mode /\ inv.cfg \in Config /\ ends \in Picks
  BY DEF Pick, DialInv, DialTyped, Dialling
<1>2. UNCHANGED <<link, fw, shim, fresh, asked, down, putBack, missed, alive,
                  server, excused, disk, budget>>
  BY DEF Pick, host, world, history
<1>3. HostInv' BY <1>2, HostKept
<1>4. CASE inv' = Idle
  <2>1. TypeOK' BY <1>2, <1>4, IdleTyped DEF TypeOK
  <2> QED BY <1>2, <1>3, <1>4, <2>1, NoDial, IdleTyped
<1>5. CASE /\ ~Identical(ends)
           /\ inv' = [inv EXCEPT !.pc = "teardown",
                                 !.cfg.last = [mode |-> inv.mode, ends |-> ends]]
  <2> DEFINE cfg == [inv.cfg EXCEPT !.last = [mode |-> inv.mode, ends |-> ends]]
  <2>1. /\ cfg \in Config /\ cfg.last \in Last /\ cfg.cache = inv.cfg.cache
        /\ cfg.last.mode = inv.mode /\ cfg.last.ends = ends
    BY <1>1 DEF Config, Last
  <2>2. inv' = [inv EXCEPT !.pc = "teardown", !.cfg = cfg]
    BY <1>5 DEF TypeOK, Invocation
  <2> HIDE DEF cfg
  <2>3. /\ inv' \in Invocation /\ inv'.pc = "teardown" /\ inv'.verb = inv.verb
        /\ inv'.mode = inv.mode /\ inv'.avoid = inv.avoid /\ inv'.cfg = cfg
        /\ inv'.prevSplit = inv.prevSplit
    BY <2>1, <2>2 DEF TypeOK, Invocation
  <2>4. TypeOK' BY <1>2, <2>3 DEF TypeOK
  <2>5. (DialTyped /\ Cleared /\ DialsAsked)'
    BY <1>1, <1>2, <2>1, <2>3 DEF DialInv, DialTyped, Cleared, DialsAsked, AsAsked,
         Dialling, Chosen
  <2>6. Picks' = Picks BY <2>1, <2>3 DEF Picks
  <2>7. ChosenFits' BY <1>1, <2>1, <2>3, <2>6, PicksFit DEF ChosenFits
  <2>8. TimerAvoids'
    <3>1. SUFFICES ASSUME inv.verb = "timer", link # None, ~missed
                   PROVE  /\ inv.avoid = link.ends
                          /\ ends = link.ends =>
                               inv.mode.shim \/ link.key # cfg.cache[link.ends.exit].key
      BY <1>2, <2>1, <2>3 DEF TimerAvoids
    <3>2. inv.avoid = link.ends /\ inv.cfg.last = disk.last
      BY <1>1, <3>1 DEF DialInv, TimerAvoids
    <3>3. disk.last \in Last /\ disk.last.ends = link.ends
      BY <3>1 DEF HostInv, HostRemembered, LinkRemembered, TypeOK, Config
    <3>4. inv.cfg.last # None BY <3>2, <3>3, FailoverAssumption
    <3> QED BY <1>5, <2>1, <3>1, <3>2, <3>3, <3>4 DEF Identical
  <2>9. DownMeansDown' BY <1>1, <1>2, <2>3, DownKept DEF Dialling
  <2> QED BY <1>3, <2>4, <2>5, <2>7, <2>8, <2>9 DEF DialInv
<1> QED BY <1>4, <1>5 DEF Pick

LEMMA PickFailsHolds ==
    ASSUME FailoverInv, PickFails \/ Refused PROVE FailoverInv'
<1> USE DEF FailoverInv
<1>1. /\ inv' = Idle /\ UNCHANGED <<world, disk, host, history>>
      /\ Spend("fault") \/ UNCHANGED budget
  BY DEF PickFails, Refused
<1>2. TypeOK' BY <1>1, SpendTyped, IdleTyped DEF TypeOK, host, world, history
<1>3. HostInv' BY <1>1, HostKept DEF host, history
<1> QED BY <1>1, <1>2, <1>3, NoDial, IdleTyped DEF host, history

\* Only a teardown that went through, or one that a full connect took for
\* needless, leads to the save.
LEMMA TeardownHolds == ASSUME FailoverInv, Teardown PROVE FailoverInv'
<1> USE DEF FailoverInv
<1>1. inv.pc = "teardown" /\ UNCHANGED <<alive, server, disk, asked, down, putBack>>
  BY DEF Teardown, world
<1>2. /\ fw' \in BOOLEAN /\ shim' \in BOOLEAN /\ fresh' \in BOOLEAN
      /\ missed' \in BOOLEAN /\ excused' \in BOOLEAN
      /\ link' \in {link, None} /\ (fw' => fw)
      /\ link' # None /\ missed => missed'
      /\ budget' \in [{"user", "relay", "fault"} -> Nat]
      /\ inv' = Idle \/ (Goto("save") /\ (link' = None \/ missed'))
  <2>1. CASE /\ Gone
             /\ Goto("save") /\ UNCHANGED <<excused, budget>>
    BY <2>1, GoneTyped DEF Gone, TypeOK
  <2>2. CASE /\ link = None
             /\ Goto("save") /\ UNCHANGED <<host, missed, excused, budget>>
    BY <2>2 DEF host, TypeOK
  <2>3. CASE /\ Spend("fault")
             /\ missed' = (link # None)
             /\ Goto("save") /\ UNCHANGED <<host, excused>>
    BY <2>3, SpendTyped DEF host, TypeOK
  <2>4. CASE /\ Spend("fault")
             /\ PartlyGone
             /\ inv' = Idle /\ excused' = TRUE
    BY <2>4, SpendTyped, GoneTyped
  <2> QED BY <2>1, <2>2, <2>3, <2>4 DEF Teardown
<1>3. HostInv' BY <1>1, <1>2, HostKept
<1>4. link' # None \/ fw' => link # None \/ fw BY <1>2
<1>5. CASE inv' = Idle
  <2>1. TypeOK' BY <1>1, <1>2, <1>5, IdleTyped DEF TypeOK
  <2> QED BY <1>1, <1>3, <1>4, <1>5, <2>1, NoDial, IdleTyped
<1>6. CASE Goto("save") /\ (link' = None \/ missed')
  <2>1. /\ inv' \in Invocation /\ inv'.pc = "save" /\ inv'.verb = inv.verb
        /\ inv'.mode = inv.mode /\ inv'.avoid = inv.avoid /\ inv'.cfg = inv.cfg
        /\ inv'.prevSplit = inv.prevSplit
    BY <1>6 DEF Goto, TypeOK, Invocation
  <2>2. TypeOK' BY <1>1, <1>2, <2>1 DEF TypeOK
  <2>3. (DialTyped /\ Cleared /\ DialsAsked /\ TimerAvoids)'
    BY <1>1, <1>6, <2>1 DEF DialInv, DialTyped, Cleared, DialsAsked, AsAsked,
         TimerAvoids, Dialling, Chosen
  <2>4. Picks' = Picks BY <2>1 DEF Picks
  <2>5. ChosenFits' BY <1>1, <2>1, <2>4 DEF DialInv, ChosenFits, Chosen
  <2>6. DownMeansDown' BY <1>1, <1>4, <2>1, DownKept DEF Dialling
  <2> QED BY <1>3, <2>2, <2>3, <2>5, <2>6 DEF DialInv
<1> QED BY <1>2, <1>5, <1>6

\* What is saved is what the user's connect asked for; a reconnect and a
\* timer save what was asked for before.
LEMMA SaveHolds == ASSUME FailoverInv, Save PROVE FailoverInv'
<1> USE DEF FailoverInv
<1>1. /\ inv.pc = "save" /\ inv.mode \in Mode /\ inv.cfg \in Config
      /\ inv.cfg.last \in Last /\ inv.cfg.last.mode = inv.mode
      /\ link = None \/ missed
      /\ inv.verb # "connect" => AsAsked(inv.mode) /\ inv.prevSplit = inv.mode.split
  BY DEF Save, DialInv, DialTyped, ChosenFits, Cleared, DialsAsked, Dialling, Chosen
<1>2. UNCHANGED <<alive, server, link, fw, shim, fresh, missed>>
  BY DEF Save, world, host
<1>3. CASE /\ disk' = inv.cfg
           /\ IF inv.verb = "connect"
                THEN asked' = inv.mode /\ putBack' = FALSE
                ELSE UNCHANGED <<asked, putBack>>
           /\ down' = (down /\ inv.verb = "timer")
           /\ Goto("dial") /\ UNCHANGED <<excused, budget>>
  <2>1. /\ inv' \in Invocation /\ inv'.pc = "dial" /\ inv'.verb = inv.verb
        /\ inv'.mode = inv.mode /\ inv'.avoid = inv.avoid /\ inv'.cfg = inv.cfg
        /\ inv'.prevSplit = inv.prevSplit
    BY <1>3 DEF Goto, TypeOK, Invocation
  <2>2. /\ AsAsked(inv.mode)'
        /\ inv'.verb = "connect" => asked' = inv.mode
    BY <1>1, <1>3, <2>1 DEF AsAsked
  <2>3. asked' \in Mode /\ putBack' \in BOOLEAN /\ down' \in BOOLEAN
    BY <1>1, <1>3 DEF TypeOK, AsAsked
  <2>4. TypeOK' BY <1>1, <1>2, <1>3, <2>1, <2>3 DEF TypeOK
  <2>5. (DialTyped /\ Cleared /\ TimerAvoids)'
    BY <1>1, <1>2, <2>1 DEF DialTyped, Cleared, TimerAvoids, Dialling, Chosen
  <2>6. DialsAsked'
    BY <1>1, <1>3, <2>1, <2>2 DEF DialsAsked, AsAsked
  <2>7. Picks' = Picks BY <2>1 DEF Picks
  <2>8. ChosenFits' BY <1>1, <2>1, <2>7 DEF DialInv, ChosenFits, Chosen
  <2>9. HostInv'
    <3>1. Remembered' BY <1>1, <1>3, <2>1, <2>2 DEF Remembered, AsAsked
    <3>2. HostRemembered' BY <1>1, <1>3, FailoverAssumption DEF HostRemembered
    <3>3. LinkRemembered' BY <1>1, <1>2 DEF LinkRemembered
    <3> QED BY <3>1, <3>2, <3>3 DEF HostInv
  <2>10. ~down'
    BY <1>1, <1>3 DEF DownMeansDown, Dialling
  <2> QED BY <2>4, <2>5, <2>6, <2>8, <2>9, <2>10 DEF DialInv, DownMeansDown
<1>4. CASE /\ Spend("fault")
           /\ inv' = Idle /\ excused' = TRUE
           /\ UNCHANGED <<disk, asked, down, putBack>>
  <2>1. TypeOK' BY <1>2, <1>4, SpendTyped, IdleTyped DEF TypeOK
  <2>2. HostInv' BY <1>2, <1>4, HostKept
  <2> QED BY <1>2, <1>4, <2>1, <2>2, NoDial, IdleTyped
<1> QED BY <1>3, <1>4 DEF Save

\* The link a dial makes is the one that was saved.
LEMMA DialledFits ==
    ASSUME FailoverInv, inv.pc = "dial", UNCHANGED <<disk, asked, putBack>>,
           link' = NewLink
    PROVE  link' \in Links /\ HostInv'
<1> USE DEF FailoverInv
<1>1. /\ inv.mode \in Mode /\ inv.cfg \in Config /\ inv.cfg.last \in Last
      /\ inv.cfg.last.ends \in Picks
      /\ disk.last = inv.cfg.last
      /\ inv.cfg.last.mode = inv.mode
  BY DEF DialInv, DialTyped, ChosenFits, DialsAsked, Dialling, Chosen
<1>2. /\ inv.cfg.last.ends \in Ends
      /\ Fits(inv.cfg.last.ends.exit, inv.mode.query)
      /\ Fits(inv.cfg.last.ends.entry, inv.mode.via)
      /\ inv.cfg.cache[inv.cfg.last.ends.exit].key \in {0, 1}
  BY <1>1, PicksFit
<1>3. inv.mode.split \in BOOLEAN BY <1>1 DEF Mode
<1>4. link' \in Links BY <1>2, <1>3 DEF Links, NewLink
<1>5. link'.ends = inv.cfg.last.ends /\ link'.split = inv.mode.split
  BY DEF NewLink
<1>6. HostRemembered' BY <1>1, FailoverAssumption DEF HostRemembered
<1>7. LinkRemembered' BY <1>1, <1>2, <1>5 DEF LinkRemembered, Fits
<1>8. Remembered' BY DEF HostInv, Remembered, AsAsked
<1> QED BY <1>4, <1>6, <1>7, <1>8 DEF HostInv

\* What a failed dial puts back of the mode is what was asked for, but for
\* the mode that putBack stands for.
LEMMA PutBackAsAsked ==
    ASSUME FailoverInv, inv.pc = "dial", asked' = asked, ModePutBack
    PROVE  /\ disk' \in Config /\ putBack' \in BOOLEAN /\ disk'.last # None
           /\ Remembered'
<1> USE DEF FailoverInv
<1>1. /\ inv.mode \in Mode /\ disk.last \in Last /\ disk.last.mode = inv.mode
      /\ inv.verb = "connect" => asked = inv.mode
      /\ inv.verb # "connect" => AsAsked(inv.mode) /\ inv.prevSplit = inv.mode.split
      /\ disk.last # None
  BY FailoverAssumption
     DEF DialInv, DialTyped, ChosenFits, DialsAsked, Dialling, Chosen
<1>2. CASE UNCHANGED <<disk, putBack>>
  BY <1>1, <1>2 DEF HostInv, Remembered, AsAsked, TypeOK
<1>3. CASE /\ disk' = [disk EXCEPT !.last.mode.split = inv.prevSplit]
           /\ putBack' = (putBack \/ (inv.verb = "connect"
                                      /\ inv.prevSplit # inv.mode.split))
  <2> DEFINE mode == [disk.last.mode EXCEPT !.split = inv.prevSplit]
             last == [disk.last EXCEPT !.mode = mode]
  <2>1. inv.prevSplit \in BOOLEAN BY DEF TypeOK, Invocation
  <2>2. /\ mode \in Mode /\ mode.query = inv.mode.query /\ mode.via = inv.mode.via
        /\ mode.shim = inv.mode.shim /\ mode.split = inv.prevSplit
    BY <1>1, <2>1 DEF Last, Mode
  <2> HIDE DEF mode
  <2>3. last \in Last /\ last.mode = mode /\ last # None
    BY <1>1, <2>2, FailoverAssumption DEF Last
  <2> HIDE DEF last
  <2>4. disk' = [disk EXCEPT !.last = last] BY <1>3 DEF last, mode, TypeOK, Config
  <2>5. disk' \in Config /\ disk'.last = last BY <2>3, <2>4 DEF TypeOK, Config
  <2>6. putBack' \in BOOLEAN BY <1>3 DEF TypeOK
  <2>7. /\ asked' \in Mode /\ mode.query = asked'.query /\ mode.via = asked'.via
        /\ mode.shim = asked'.shim /\ (mode.split = asked'.split \/ putBack')
    <3>1. CASE inv.verb = "connect"
      BY <1>1, <1>3, <2>2, <3>1
    <3>2. CASE inv.verb # "connect"
      BY <1>1, <1>3, <2>2, <3>2 DEF AsAsked
    <3> QED BY <3>1, <3>2
  <2>8. Remembered' BY <2>3, <2>5, <2>7 DEF Remembered, AsAsked
  <2> QED BY <2>3, <2>5, <2>6, <2>8
<1> QED BY <1>2, <1>3 DEF ModePutBack

\* A dial that is rolled back leaves no new session, whatever mode it puts
\* back.
LEMMA DialHolds == ASSUME FailoverInv, Dial PROVE FailoverInv'
<1> USE DEF FailoverInv
<1>1. /\ inv.pc = "dial" /\ inv.mode \in Mode /\ ~down
      /\ link = None \/ missed
  BY DEF Dial, DialInv, DialTyped, Cleared, Dialling, Chosen, DownMeansDown
<1>2. UNCHANGED <<alive, server, asked, down, missed>> /\ inv' = Idle
  BY DEF Dial, world
<1>3. CASE /\ link' = NewLink
           /\ fw' = ~inv.mode.split
           /\ shim' = inv.mode.shim /\ fresh' = FALSE
           /\ UNCHANGED <<disk, putBack, excused, budget>>
  <2>1. link' \in Links /\ HostInv' BY <1>1, <1>2, <1>3, DialledFits
  <2>2. fw' \in BOOLEAN BY <1>3, Zenon
  <2>3. shim' \in BOOLEAN /\ fresh' \in BOOLEAN BY <1>1, <1>3 DEF Mode
  <2>4. TypeOK' BY <1>2, <1>3, <2>1, <2>2, <2>3, IdleTyped DEF TypeOK
  <2>5. DialInv' /\ DownMeansDown'
    BY <1>1, <1>2, IdleTyped DEF DialInv, DialTyped, ChosenFits, Cleared, DialsAsked,
       TimerAvoids, Dialling, Chosen, DownMeansDown
  <2> QED BY <2>1, <2>4, <2>5
<1>4. CASE /\ IF link = None THEN Spend("fault") ELSE UNCHANGED budget
           /\ excused' = TRUE
           /\ ModePutBack
           /\ fw' \in {fw, fw /\ link # None}
           /\ UNCHANGED <<link, shim, fresh>>
  <2>1. /\ disk' \in Config /\ putBack' \in BOOLEAN /\ disk'.last # None
        /\ Remembered'
    BY <1>1, <1>2, <1>4, PutBackAsAsked
  <2>2. fw' \in BOOLEAN BY <1>4, Zenon DEF TypeOK
  <2>3. budget' \in [{"user", "relay", "fault"} -> Nat]
    BY <1>4, SpendTyped DEF TypeOK
  <2>4. TypeOK' BY <1>2, <1>4, <2>1, <2>2, <2>3, IdleTyped DEF TypeOK
  <2>5. HostInv'
    BY <1>1, <1>2, <1>4, <2>1 DEF HostInv, HostRemembered, LinkRemembered
  <2>6. DialInv' /\ DownMeansDown'
    BY <1>1, <1>2, IdleTyped DEF DialInv, DialTyped, ChosenFits, Cleared, DialsAsked,
       TimerAvoids, Dialling, Chosen, DownMeansDown
  <2> QED BY <2>4, <2>5, <2>6
<1> QED BY <1>3, <1>4 DEF Dial

LEMMA DownHolds == ASSUME FailoverInv, Down PROVE FailoverInv'
<1> USE DEF FailoverInv
<1>1. /\ UNCHANGED <<alive, server, disk, asked, putBack>> /\ inv' = Idle
      /\ Gone \/ PartlyGone
      /\ \/ Gone /\ down' = TRUE /\ UNCHANGED <<excused, budget>>
         \/ Spend("fault") /\ excused' = TRUE /\ UNCHANGED down
  BY DEF Down, world
<1>2. TypeOK' BY <1>1, SpendTyped, GoneTyped, IdleTyped DEF TypeOK
<1>3. HostInv' BY <1>1, GoneTyped, HostKept
<1>4. DialInv' /\ DownMeansDown'
  <2>1. CASE Gone /\ down' = TRUE
    BY <1>1, <2>1, IdleTyped DEF Gone, DialInv, DialTyped, ChosenFits, Cleared,
       DialsAsked, TimerAvoids, Dialling, Chosen, DownMeansDown
  <2>2. CASE UNCHANGED down
    BY <1>1, <2>2, GoneTyped, NoDial, IdleTyped
  <2> QED BY <1>1, <2>1, <2>2
<1> QED BY <1>2, <1>3, <1>4

\* A kill leaves parts of the old session, or parts of the new one that was
\* saved.
LEMMA KillHolds == ASSUME FailoverInv, Kill PROVE FailoverInv'
<1> USE DEF FailoverInv
<1>1. /\ UNCHANGED <<alive, server, disk, asked, down, putBack, missed>>
      /\ inv' = Idle /\ excused' \in BOOLEAN /\ Spend("fault")
  BY DEF Kill, world
<1>2. /\ link' \in Links \cup {None} /\ HostInv'
      /\ fw' \in BOOLEAN /\ shim' \in BOOLEAN /\ fresh' \in BOOLEAN
      /\ down => link' = None /\ ~fw'
  <2>1. CASE UNCHANGED host
    BY <1>1, <2>1, HostKept DEF host, TypeOK, DownMeansDown
  <2>2. CASE fw' = FALSE /\ shim' = FALSE /\ UNCHANGED <<link, fresh>>
    BY <1>1, <2>2, HostKept DEF TypeOK, DownMeansDown
  <2>3. CASE /\ inv.pc = "dial"
             /\ link' = NewLink
             /\ fw' \in {fw, ~inv.mode.split} /\ UNCHANGED <<shim, fresh>>
    <3>1. link' \in Links /\ HostInv' BY <1>1, <2>3, DialledFits
    <3>2. fw' \in BOOLEAN BY <2>3, Zenon DEF TypeOK
    <3> QED BY <2>3, <3>1, <3>2 DEF TypeOK, DownMeansDown
  <2> QED BY <2>1, <2>2, <2>3 DEF Kill
<1>3. TypeOK' BY <1>1, <1>2, SpendTyped, IdleTyped DEF TypeOK
<1>4. DialInv' /\ DownMeansDown'
  BY <1>1, <1>2, IdleTyped DEF DialInv, DialTyped, ChosenFits, Cleared, DialsAsked,
     TimerAvoids, Dialling, Chosen, DownMeansDown
<1> QED BY <1>2, <1>3, <1>4

LEMMA RelayChangesHolds == ASSUME FailoverInv, RelayChanges PROVE FailoverInv'
<1> USE DEF FailoverInv
<1>1. UNCHANGED <<disk, link, fw, shim, fresh, inv, asked, down, putBack, missed,
                  excused>>
  BY DEF RelayChanges, host, history
<1>2. alive' \subseteq Relays /\ server' \in List
  <2>1. PICK r \in Relays :
         \/ /\ alive' = IF r \in alive THEN alive \ {r} ELSE alive \cup {r}
            /\ UNCHANGED server
         \/ /\ server[r] # None /\ server[r].key = 0
            /\ server' = [server EXCEPT ![r].key = 1] /\ UNCHANGED alive
         \/ /\ server[r] # None
            /\ server' \in {[server EXCEPT ![r] = None],
                            [server EXCEPT ![r].active = FALSE]}
            /\ alive' = alive \ {r}
    BY DEF RelayChanges
  <2>2. server[r] # None => server[r] \in [key : {0, 1}, active : BOOLEAN]
    BY DEF TypeOK, List
  <2> QED BY <2>1, <2>2 DEF TypeOK, List
<1>3. TypeOK' BY <1>1, <1>2, SpendTyped DEF RelayChanges, TypeOK
<1> QED BY <1>1, <1>3, HostKept, DialKept DEF DownMeansDown, Dialling

\* The session's own events.
LEMMA SessionEventsHold ==
    ASSUME FailoverInv, LinkLost \/ ShimDies \/ Handshake \/ Expire
    PROVE  FailoverInv'
<1> USE DEF FailoverInv
<1>1. /\ UNCHANGED <<alive, server, disk, inv, asked, down, putBack, excused, fw>>
      /\ link' \in {link, None} /\ missed' \in BOOLEAN
      /\ link' # None => missed' = missed
      /\ shim' \in BOOLEAN /\ fresh' \in BOOLEAN
      /\ Spend("fault") \/ UNCHANGED budget
  BY DEF LinkLost, ShimDies, Handshake, Expire, world, history, TypeOK
<1>2. TypeOK' BY <1>1, SpendTyped DEF TypeOK
<1>3. DownMeansDown' BY <1>1 DEF DownMeansDown, Dialling
<1> QED BY <1>1, <1>2, <1>3, HostKept, DialKept

LEMMA StepHolds == ASSUME FailoverInv, [Next]_vars PROVE FailoverInv'
<1>1. CASE UNCHANGED vars
  <2>1. UNCHANGED <<alive, server, disk, link, fw, shim, fresh, inv, asked, down,
                    putBack, missed, excused, budget>>
    BY <1>1 DEF vars, history
  <2>2. TypeOK' BY <2>1 DEF FailoverInv, TypeOK
  <2>3. DownMeansDown' BY <2>1 DEF FailoverInv, DownMeansDown, Dialling
  <2> QED BY <2>1, <2>2, <2>3, HostKept, DialKept DEF FailoverInv
<1> QED
  BY <1>1, ConnectHolds, ReconnectHolds, DisconnectHolds, TimerHolds, ProbeHolds,
     FetchHolds, PickHolds, PickFailsHolds, TeardownHolds, SaveHolds, DialHolds,
     DownHolds, KillHolds, RelayChangesHolds, SessionEventsHold DEF Next, Step

-----------------------------------------------------------------------------
(* The theorems *)

LEMMA FailoverInvHolds == Spec => []FailoverInv
<1>1. Init => FailoverInv BY InitHolds
<1>2. FailoverInv /\ [Next]_vars => FailoverInv' BY StepHolds
<1> QED BY <1>1, <1>2, PTL DEF Spec

\* However often reconnect --if-dead runs, and whatever fails or is killed in
\* between: after a disconnect that is through, nothing but a dial of the user
\* makes a link again (tunnelDead needs a link or a kill-switch, and a complete
\* teardown leaves neither).
THEOREM TimerStaysDown == Spec => [](TypeOK /\ StaysDown)
<1>1. FailoverInv => TypeOK /\ StaysDown
  BY DEF FailoverInv, DownMeansDown, StaysDown
<1> QED BY <1>1, FailoverInvHolds, PTL

\* For any relays, queries and modes: however often the timer and the user
\* redial, a link is to relays the user's last connect asked for, with as many
\* hops and in the same mode (reconnect replays what connect saved); but for
\* the mode that a failed connect put back (putBack) and an earlier link that
\* a full connect did not see (missed).
THEOREM RedialsStayInScope == Spec => []InScope
<1>1. ASSUME FailoverInv PROVE InScope
  <2>1. SUFFICES ASSUME link # None, ~missed
                 PROVE  /\ asked # None
                        /\ Fits(link.ends.exit, asked.query)
                        /\ Fits(link.ends.entry, asked.via)
                        /\ link.split = asked.split \/ putBack
    BY DEF InScope
  <2>2. AsAsked(disk.last.mode)
    BY <1>1, <2>1 DEF FailoverInv, HostInv, HostRemembered, Remembered
  <2> QED BY <1>1, <2>1, <2>2, FailoverAssumption
          DEF FailoverInv, HostInv, LinkRemembered, AsAsked, Fits
<1>2. FailoverInv => InScope BY <1>1
<1> QED BY <1>2, FailoverInvHolds, PTL

\* What the timer goes by when it takes a session down.
LEMMA AtTeardown ==
    ASSUME FailoverInv, [Next]_vars, UnattendedTeardown
    PROVE  /\ inv'.cfg = inv.cfg /\ AsAsked(inv.mode) /\ inv.avoid = link.ends
           /\ inv.mode \in Mode /\ inv.cfg \in Config /\ inv.cfg.last.ends \in Picks
           /\ Fits(link.ends.exit, asked.query) /\ Fits(link.ends.entry, asked.via)
           /\ inv.cfg.last.ends = link.ends =>
                 asked.shim \/ link.key # inv.cfg.cache[link.ends.exit].key
<1>1. inv.pc = "teardown" /\ inv.verb = "timer" /\ link # None /\ inv'.pc = "save"
      /\ ~missed /\ link' = None
  BY DEF UnattendedTeardown
<1>2. inv' = inv \/ Teardown \/ inv' = Idle
  BY <1>1 DEF Next, vars, Step, Connect, Reconnect, Disconnect, Timer, Probe, Fetch,
       Pick, PickFails, Refused, Save, Dial, Down, Kill, RelayChanges, LinkLost,
       ShimDies, Handshake, Expire
<1>3. Teardown BY <1>1, <1>2, IdleTyped
<1>4. inv'.cfg = inv.cfg
  BY <1>1, <1>3, IdleTyped DEF Teardown, Goto, FailoverInv, TypeOK, Invocation
<1>5. AsAsked(inv.mode) /\ inv.avoid = link.ends /\ inv.mode \in Mode
      /\ inv.cfg \in Config /\ inv.cfg.last.ends \in Picks
  BY <1>1 DEF FailoverInv, DialInv, DialTyped, DialsAsked, ChosenFits, TimerAvoids,
       Dialling, Chosen
<1>6. AsAsked(disk.last.mode)
  BY <1>1 DEF FailoverInv, HostInv, HostRemembered, Remembered
<1>7. Fits(link.ends.exit, asked.query) /\ Fits(link.ends.entry, asked.via)
  BY <1>1, <1>6 DEF FailoverInv, HostInv, LinkRemembered, AsAsked, Fits
<1>8. inv.cfg.last.ends = link.ends =>
        asked.shim \/ link.key # inv.cfg.cache[link.ends.exit].key
  BY <1>1, <1>5 DEF FailoverInv, DialInv, TimerAvoids, AsAsked
<1> QED BY <1>4, <1>5, <1>7, <1>8

\* The timer takes a session down only for one on other relays, both hops, as
\* long as the list that reconnect --if-dead goes by has any: what
\* mullvad.PickExcept is given to avoid is what the link still has.
THEOREM TimerLeavesDead == Spec => LeavesDead
<1> DEFINE A == UnattendedTeardown =>
         \A h \in {"exit", "entry"} :
            LET q == IF h = "exit" THEN asked.query ELSE asked.via
            IN  \/ q = None \/ q \in Exact
                \/ Active(inv.cfg.cache, q) \subseteq {link.ends[h]}
                \/ inv'.cfg.last.ends[h] # link.ends[h]
<1>1. ASSUME FailoverInv, [Next]_vars PROVE A
  <2>1. SUFFICES ASSUME UnattendedTeardown
                 PROVE  /\ \/ asked.query = None \/ asked.query \in Exact
                           \/ Active(inv.cfg.cache, asked.query) \subseteq {link.ends.exit}
                           \/ inv.cfg.last.ends.exit # link.ends.exit
                        /\ \/ asked.via = None \/ asked.via \in Exact
                           \/ Active(inv.cfg.cache, asked.via) \subseteq {link.ends.entry}
                           \/ inv.cfg.last.ends.entry # link.ends.entry
    BY <1>1, AtTeardown
  <2> USE <1>1, AtTeardown, <2>1
  <2>2. inv.cfg.last.ends.exit \in
           PickExcept(inv.cfg.cache, asked.query, link.ends.exit)
    BY DEF Picks, AsAsked
  <2>3. asked.via # None => inv.cfg.last.ends.entry \in
           PickExcept(inv.cfg.cache, asked.via, link.ends.entry)
    BY DEF Picks, AsAsked
  <2> QED BY <2>2, <2>3, PickExceptAvoids
<1>2. FailoverInv /\ [Next]_vars => [A]_vars BY <1>1
<1>3. [][A]_vars => LeavesDead BY DEF LeavesDead
<1> HIDE DEF A
<1> QED BY <1>2, <1>3, FailoverInvHolds, PTL DEF Spec

\* A session whose relays were named one by one is never taken down by the
\* timer for the very same session: the relay's key has changed, or a shim
\* is started anew.
THEOREM TimerLeavesAlone == Spec => LeftAlone
<1> DEFINE A == UnattendedTeardown /\ {asked.query, asked.via} \ {None} \subseteq Exact
         => asked.shim \/ link.key # inv.cfg.cache[link.ends.exit].key
<1>1. ASSUME FailoverInv, [Next]_vars PROVE A
  <2>1. SUFFICES ASSUME UnattendedTeardown,
                        {asked.query, asked.via} \ {None} \subseteq Exact
                 PROVE  inv.cfg.last.ends = link.ends
    BY <1>1, AtTeardown
  <2> USE <1>1, AtTeardown, <2>1
  <2>2. /\ inv.cfg.last.ends \in Ends /\ link.ends \in Ends
        /\ Fits(inv.cfg.last.ends.exit, asked.query)
        /\ Fits(inv.cfg.last.ends.entry, asked.via)
    BY PicksFit DEF FailoverInv, TypeOK, Links, UnattendedTeardown, AsAsked, Fits
  <2>3. asked.query # None BY FailoverAssumption DEF Mode, AsAsked
  <2>4. inv.cfg.last.ends.exit = link.ends.exit BY <2>2, <2>3, ExactOne DEF Fits
  <2>5. inv.cfg.last.ends.entry = link.ends.entry BY <2>2, ExactOne DEF Fits
  <2> QED BY <2>2, <2>4, <2>5 DEF Ends
<1>2. FailoverInv /\ [Next]_vars => [A]_vars BY <1>1
<1>3. [][A]_vars => LeftAlone BY DEF LeftAlone
<1> HIDE DEF A
<1> QED BY <1>2, <1>3, FailoverInvHolds, PTL DEF Spec
=============================================================================
