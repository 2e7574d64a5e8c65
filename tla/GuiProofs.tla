----------------------------- MODULE GuiProofs ------------------------------
(* Proofs about module Gui.                                                *)
EXTENDS Gui, TLAPS

Pairs == [st : State, go : Goroutine]

\* SingleFlight, of a pair of the state struct and the goroutines and of the
\* channel of the verbs' results.
Flight(s, cmd) ==
    /\ s.go.verbs = (IF s.st.running = None \/ cmd \in Verbs THEN {} ELSE {s.st.running})
    /\ cmd \in Verbs => cmd = s.st.running

\* BusyHasWork, of a pair and of the channels of runs and removals; but for
\* the row that is being removed.
Work(s, run, dev) ==
    /\ \A l \in Loaders : l \in s.st.busy <=> s.go.load[l] # "idle"
    /\ s.st.device => s.go.removals > 0 \/ dev
    /\ \A a \in s.st.starting :
          \/ run = a
          \/ \E r \in s.go.runs : r.app = a /\ r.stage = "starting"

\* The row of BusyHasWork.
Row(s, orphan) == s.st.removing # None => orphan \/ s.st.running = "split-rm"

\* From s to t no verb ends, and splitRemoving changes only with a new removal.
Steady(s, t) ==
    /\ s.st.running # None => t.st.running = s.st.running
    /\ t.st.removing = s.st.removing \/ t.st.running = "split-rm"

Good(s, cmd, run, dev) == s \in Pairs /\ Flight(s, cmd) /\ Work(s, run, dev)

\* The inductive invariant.
GuiInv == TypeOK /\ SingleFlight /\ BusyHasWork

-----------------------------------------------------------------------------
(* The handlers *)

LEMMA PairTyped ==
    ASSUME NEW s \in Pairs
    PROVE  s.st \in State /\ s.go \in Goroutine /\ s = [st |-> s.st, go |-> s.go]
BY DEF Pairs

\* A handler that touches neither verbs nor anything that is waited for.
LEMMA Aside ==
    ASSUME NEW s, NEW cmd, NEW run, NEW dev, Good(s, cmd, run, dev),
           NEW t \in State, t.running = s.st.running, t.busy = s.st.busy,
           t.device => s.st.device, t.starting \subseteq s.st.starting
    PROVE  Good([s EXCEPT !.st = t], cmd, run, dev)
<1> DEFINE u == [s EXCEPT !.st = t]
<1>1. u \in Pairs /\ u.st = t /\ u.go = s.go BY DEF Good, Pairs
<1> HIDE DEF u
<1>2. Flight(u, cmd) BY <1>1 DEF Good, Flight
<1>3. Work(u, run, dev) BY <1>1 DEF Good, Work
<1> QED BY <1>1, <1>2, <1>3 DEF Good, u

LEMMA StartGood ==
    ASSUME NEW s, NEW cmd, NEW run, NEW dev, Good(s, cmd, run, dev), NEW v \in Verbs
    PROVE  Good(Start(s, v), cmd, run, dev)
<1>1. CASE s.st.running # None BY <1>1 DEF Start
<1>2. CASE s.st.running = None
  <2> DEFINE t == [s.st EXCEPT !.running = v]
             g == [s.go EXCEPT !.verbs = @ \cup {v}]
  <2>1. s.st \in State /\ s.go \in Goroutine /\ s = [st |-> s.st, go |-> s.go]
    BY PairTyped DEF Good
  <2>2. /\ t \in State /\ t.running = v /\ t.busy = s.st.busy
        /\ t.device = s.st.device /\ t.starting = s.st.starting
    BY <2>1 DEF State
  <2>3. /\ g \in Goroutine /\ g.verbs = s.go.verbs \cup {v} /\ g.load = s.go.load
        /\ g.removals = s.go.removals /\ g.runs = s.go.runs
    BY <2>1 DEF Goroutine
  <2>4. Start(s, v) = [st |-> t, go |-> g]
    BY <1>2, <2>1 DEF Start
  <2> HIDE DEF t, g
  <2>5. cmd \notin Verbs /\ s.go.verbs = {} /\ v # None
    BY <1>2, GuiAssumption DEF Good, Flight
  <2>6. Flight([st |-> t, go |-> g], cmd) BY <2>2, <2>3, <2>5 DEF Flight
  <2>7. Work([st |-> t, go |-> g], run, dev) BY <2>2, <2>3 DEF Good, Work
  <2> QED BY <2>2, <2>3, <2>4, <2>6, <2>7 DEF Good, Pairs
<1> QED BY <1>1, <1>2

LEMMA BeginGood ==
    ASSUME NEW s, NEW cmd, NEW run, NEW dev, Good(s, cmd, run, dev), NEW l \in Loaders
    PROVE  Good(Begin(s, l), cmd, run, dev)
<1>1. CASE l \in s.st.busy BY <1>1 DEF Begin
<1>2. CASE l \notin s.st.busy
  <2> DEFINE t == [s.st EXCEPT !.busy = @ \cup {l}]
             g == [s.go EXCEPT !.load[l] = "begun"]
  <2>1. s.st \in State /\ s.go \in Goroutine /\ s = [st |-> s.st, go |-> s.go]
    BY PairTyped DEF Good
  <2>2. /\ t \in State /\ t.running = s.st.running /\ t.busy = s.st.busy \cup {l}
        /\ t.device = s.st.device /\ t.starting = s.st.starting
    BY <2>1 DEF State
  <2>3. /\ g \in Goroutine /\ g.verbs = s.go.verbs
        /\ g.load = [s.go.load EXCEPT ![l] = "begun"]
        /\ g.removals = s.go.removals /\ g.runs = s.go.runs
    BY <2>1 DEF Goroutine
  <2>4. Begin(s, l) = [st |-> t, go |-> g]
    BY <1>2, <2>1 DEF Begin
  <2>5. s.go.load \in [Loaders -> {"idle", "begun", "done"}] BY <2>1 DEF Goroutine
  <2> HIDE DEF t, g
  <2>6. Flight([st |-> t, go |-> g], cmd) BY <2>2, <2>3 DEF Good, Flight
  <2>7. Work([st |-> t, go |-> g], run, dev) BY <2>2, <2>3, <2>5 DEF Good, Work
  <2> QED BY <2>2, <2>3, <2>4, <2>6, <2>7 DEF Good, Pairs
<1> QED BY <1>1, <1>2

LEMMA BeginAcctGood ==
    ASSUME NEW s, NEW cmd, NEW run, NEW dev, Good(s, cmd, run, dev)
    PROVE  Good(BeginAcct(s), cmd, run, dev)
BY BeginGood DEF BeginAcct, Loaders

LEMMA StartConnectGood ==
    ASSUME NEW s, NEW cmd, NEW run, NEW dev, Good(s, cmd, run, dev), NEW valid
    PROVE  Good(StartConnect(s, valid), cmd, run, dev)
BY StartGood DEF StartConnect, Verbs

\* The flags that no goroutine waits for.
Flags == {"up", "cred", "toTray", "hide", "relays", "devices", "atCap"}

LEMMA FlagGood ==
    ASSUME NEW s, NEW cmd, NEW run, NEW dev, Good(s, cmd, run, dev),
           NEW f \in Flags, NEW b \in BOOLEAN
    PROVE  Good([s EXCEPT !.st[f] = b], cmd, run, dev)
<1>1. s.st \in State /\ s = [st |-> s.st, go |-> s.go] BY PairTyped DEF Good
<1> DEFINE t == [s.st EXCEPT ![f] = b]
<1>2. t \in State /\ t.running = s.st.running /\ t.busy = s.st.busy
        /\ t.device = s.st.device /\ t.starting = s.st.starting
  BY <1>1 DEF State, Flags
<1>3. [s EXCEPT !.st[f] = b] = [s EXCEPT !.st = t] BY <1>1
<1> HIDE DEF t
<1> QED BY <1>2, <1>3, Aside

LEMMA FlagsGood ==
    ASSUME NEW s, NEW cmd, NEW run, NEW dev, Good(s, cmd, run, dev), NEW b \in BOOLEAN
    PROVE  /\ Good([s EXCEPT !.st.up = b], cmd, run, dev)
           /\ Good([s EXCEPT !.st.cred = b], cmd, run, dev)
           /\ Good([s EXCEPT !.st.toTray = b], cmd, run, dev)
           /\ Good([s EXCEPT !.st.hide = b], cmd, run, dev)
           /\ Good([s EXCEPT !.st.relays = b], cmd, run, dev)
           /\ Good([s EXCEPT !.st.devices = b], cmd, run, dev)
           /\ Good([s EXCEPT !.st.atCap = b], cmd, run, dev)
<1>1. \A f \in Flags : Good([s EXCEPT !.st[f] = b], cmd, run, dev) BY FlagGood
<1> QED BY <1>1 DEF Flags

LEMMA RmQueueGood ==
    ASSUME NEW s, NEW cmd, NEW run, NEW dev, Good(s, cmd, run, dev),
           NEW q \in Seq(Pids)
    PROVE  Good([s EXCEPT !.st.rmQueue = q], cmd, run, dev)
<1>1. s.st \in State /\ s = [st |-> s.st, go |-> s.go] BY PairTyped DEF Good
<1> DEFINE t == [s.st EXCEPT !.rmQueue = q]
<1>2. t \in State /\ t.running = s.st.running /\ t.busy = s.st.busy
      /\ t.device = s.st.device /\ t.starting = s.st.starting
  BY <1>1 DEF State
<1>3. [s EXCEPT !.st.rmQueue = q] = [s EXCEPT !.st = t] BY <1>1
<1> HIDE DEF t
<1> QED BY <1>2, <1>3, Aside

LEMMA AddQueueGood ==
    ASSUME NEW s, NEW cmd, NEW run, NEW dev, Good(s, cmd, run, dev),
           NEW q \in Seq(Pids)
    PROVE  Good([s EXCEPT !.st.addQueue = q], cmd, run, dev)
<1>1. s.st \in State /\ s = [st |-> s.st, go |-> s.go] BY PairTyped DEF Good
<1> DEFINE t == [s.st EXCEPT !.addQueue = q]
<1>2. t \in State /\ t.running = s.st.running /\ t.busy = s.st.busy
      /\ t.device = s.st.device /\ t.starting = s.st.starting
  BY <1>1 DEF State
<1>3. [s EXCEPT !.st.addQueue = q] = [s EXCEPT !.st = t] BY <1>1
<1> HIDE DEF t
<1> QED BY <1>2, <1>3, Aside

LEMMA RemovingGood ==
    ASSUME NEW s, NEW cmd, NEW run, NEW dev, Good(s, cmd, run, dev),
           NEW x \in Pids \cup {None}
    PROVE  Good([s EXCEPT !.st.removing = x], cmd, run, dev)
<1>1. s.st \in State /\ s = [st |-> s.st, go |-> s.go] BY PairTyped DEF Good
<1> DEFINE t == [s.st EXCEPT !.removing = x]
<1>2. t \in State /\ t.running = s.st.running /\ t.busy = s.st.busy
      /\ t.device = s.st.device /\ t.starting = s.st.starting
  BY <1>1 DEF State
<1>3. [s EXCEPT !.st.removing = x] = [s EXCEPT !.st = t] BY <1>1
<1> HIDE DEF t
<1> QED BY <1>2, <1>3, Aside

LEMMA TakeRmGood ==
    ASSUME NEW s, NEW cmd, NEW run, NEW dev, Good(s, cmd, run, dev),
           NEW q \in Seq(Pids), NEW x \in Pids \cup {None}
    PROVE  Good([s EXCEPT !.st.removing = x, !.st.rmQueue = q], cmd, run, dev)
<1>1. s.st \in State /\ s = [st |-> s.st, go |-> s.go] BY PairTyped DEF Good
<1> DEFINE t == [s.st EXCEPT !.removing = x, !.rmQueue = q]
<1>2. t \in State /\ t.running = s.st.running /\ t.busy = s.st.busy
      /\ t.device = s.st.device /\ t.starting = s.st.starting
  BY <1>1 DEF State
<1>3. [s EXCEPT !.st.removing = x, !.st.rmQueue = q] = [s EXCEPT !.st = t] BY <1>1
<1> HIDE DEF t
<1> QED BY <1>2, <1>3, Aside

\* Start changes nothing of the queues.
LEMMA StartKeepsQueues ==
    ASSUME NEW s \in Pairs, NEW v \in Verbs
    PROVE  /\ Start(s, v).st.rmQueue = s.st.rmQueue
           /\ Start(s, v).st.addQueue = s.st.addQueue
<1>1. s.st \in State /\ s.go \in Goroutine /\ s = [st |-> s.st, go |-> s.go]
  BY PairTyped
<1> QED BY <1>1 DEF Start, State, Goroutine

LEMMA DrainsGood ==
    ASSUME NEW s, NEW cmd, NEW run, NEW dev, Good(s, cmd, run, dev)
    PROVE  /\ Good(DrainRm(s), cmd, run, dev) /\ Good(DrainAdd(s), cmd, run, dev)
<1>1. s \in Pairs /\ s.st.rmQueue \in Seq(Pids) /\ s.st.addQueue \in Seq(Pids)
  BY PairTyped DEF Good, State
<1>2. "split-rm" \in Verbs /\ "split-add" \in Verbs BY DEF Verbs, SplitVerbs
<1>3. Good(DrainRm(s), cmd, run, dev)
  <2>1. CASE s.st.running # None \/ s.st.rmQueue = <<>> BY <2>1 DEF DrainRm
  <2>2. CASE ~(s.st.running # None \/ s.st.rmQueue = <<>>)
    <3> DEFINE u == Start(s, "split-rm")
               q == Tail(s.st.rmQueue)
               x == Head(s.st.rmQueue)
    <3>1. Good(u, cmd, run, dev) /\ u.st.rmQueue = s.st.rmQueue
      BY <1>1, <1>2, StartGood, StartKeepsQueues
    <3>2. q \in Seq(Pids) /\ x \in Pids \cup {None} BY <1>1, <2>2
    <3>3. DrainRm(s) = [u EXCEPT !.st.removing = x, !.st.rmQueue = Tail(@)]
      BY <2>2 DEF DrainRm
    <3> HIDE DEF u, x
    <3>4. u \in Pairs BY <3>1 DEF Good
    <3>5. u.st \in State /\ u.go \in Goroutine /\ u = [st |-> u.st, go |-> u.go]
      BY <3>4, PairTyped
    <3>6. [u EXCEPT !.st.removing = x, !.st.rmQueue = Tail(@)] =
          [u EXCEPT !.st.removing = x, !.st.rmQueue = Tail(u.st.rmQueue)]
      BY <3>5 DEF State
    <3>7. DrainRm(s) = [u EXCEPT !.st.removing = x, !.st.rmQueue = q]
      BY <3>1, <3>3, <3>6
    <3> HIDE DEF q
    <3>8. Good([u EXCEPT !.st.removing = x, !.st.rmQueue = q], cmd, run, dev)
      BY <3>1, <3>2, TakeRmGood
    <3> QED BY <3>7, <3>8
  <2> QED BY <2>1, <2>2
<1>4. Good(DrainAdd(s), cmd, run, dev)
  <2>1. CASE s.st.running # None \/ s.st.addQueue = <<>> BY <2>1 DEF DrainAdd
  <2>2. CASE ~(s.st.running # None \/ s.st.addQueue = <<>>)
    <3> DEFINE u == Start(s, "split-add")
               q == Tail(s.st.addQueue)
    <3>1. Good(u, cmd, run, dev) /\ u.st.addQueue = s.st.addQueue
      BY <1>1, <1>2, StartGood, StartKeepsQueues
    <3>2. q \in Seq(Pids) BY <1>1, <2>2
    <3>3. DrainAdd(s) = [u EXCEPT !.st.addQueue = Tail(@)]
      BY <2>2 DEF DrainAdd
    <3>4. DrainAdd(s) = [u EXCEPT !.st.addQueue = q]
      BY <3>1, <3>3
    <3> HIDE DEF u, q
    <3>5. Good([u EXCEPT !.st.addQueue = q], cmd, run, dev)
      BY <3>1, <3>2, AddQueueGood
    <3> QED BY <3>4, <3>5
  <2> QED BY <2>1, <2>2
<1> QED BY <1>3, <1>4

LEMMA RunOutsideGood ==
    ASSUME NEW s, NEW cmd, NEW run, NEW dev, Good(s, cmd, run, dev),
           NEW app \in Apps, budget \in Nat
    PROVE  Good(RunOutside(s, app), cmd, run, dev)
<1>1. CASE s.st.starting # {} BY <1>1 DEF RunOutside
<1>2. CASE s.st.starting = {}
  <2> DEFINE r == [app |-> app, n |-> budget, stage |-> "starting"]
             t == [s.st EXCEPT !.starting = {app}]
             g == [s.go EXCEPT !.runs = @ \cup {r}]
  <2>1. s.st \in State /\ s.go \in Goroutine /\ s = [st |-> s.st, go |-> s.go]
    BY PairTyped DEF Good
  <2>2. r \in [app : Apps, n : Nat, stage : {"starting", "live"}]
        /\ r.app = app /\ r.stage = "starting"
    OBVIOUS
  <2>3. RunOutside(s, app) = [st |-> t, go |-> g]
    BY <1>2, <2>1 DEF RunOutside
  <2> HIDE DEF r
  <2>4. /\ t \in State /\ t.running = s.st.running /\ t.busy = s.st.busy
        /\ t.device = s.st.device /\ t.starting = {app}
    BY <2>1 DEF State
  <2>5. /\ g \in Goroutine /\ g.verbs = s.go.verbs /\ g.load = s.go.load
        /\ g.removals = s.go.removals /\ r \in g.runs
    BY <2>1, <2>2 DEF Goroutine
  <2> HIDE DEF t, g
  <2>6. Flight([st |-> t, go |-> g], cmd) BY <2>4, <2>5 DEF Good, Flight
  <2>7. Work([st |-> t, go |-> g], run, dev) BY <2>2, <2>4, <2>5 DEF Good, Work
  <2> QED BY <2>3, <2>4, <2>5, <2>6, <2>7 DEF Good, Pairs
<1> QED BY <1>1, <1>2

LEMMA RemoveDeviceGood ==
    ASSUME NEW s, NEW cmd, NEW run, NEW dev, Good(s, cmd, run, dev)
    PROVE  Good(RemoveDevice(s), cmd, run, dev)
<1>1. CASE ~((s.st.cred \/ s.st.atCap) /\ s.st.devices /\ ~s.st.device)
  BY <1>1 DEF RemoveDevice
<1>2. CASE (s.st.cred \/ s.st.atCap) /\ s.st.devices /\ ~s.st.device
  <2> DEFINE t == [s.st EXCEPT !.device = TRUE]
             g == [s.go EXCEPT !.removals = @ + 1]
  <2>1. s.st \in State /\ s.go \in Goroutine /\ s = [st |-> s.st, go |-> s.go]
    BY PairTyped DEF Good
  <2>2. RemoveDevice(s) = [st |-> t, go |-> g]
    BY <1>2, <2>1 DEF RemoveDevice
  <2>3. /\ t \in State /\ t.running = s.st.running /\ t.busy = s.st.busy
        /\ t.starting = s.st.starting
    BY <2>1 DEF State
  <2>4. /\ g \in Goroutine /\ g.verbs = s.go.verbs /\ g.load = s.go.load
        /\ g.removals > 0 /\ g.runs = s.go.runs
    BY <2>1 DEF Goroutine
  <2> HIDE DEF t, g
  <2>5. Flight([st |-> t, go |-> g], cmd) BY <2>3, <2>4 DEF Good, Flight
  <2>6. Work([st |-> t, go |-> g], run, dev) BY <2>3, <2>4 DEF Good, Work
  <2> QED BY <2>2, <2>3, <2>4, <2>5, <2>6 DEF Good, Pairs
<1> QED BY <1>1, <1>2

-----------------------------------------------------------------------------
(* A frame *)

LEMMA ClickTyped ==
    ASSUME NEW c \in Clicks \cup {NoClick}
    PROVE  /\ c.on \in {"rm", "group"} => c.arg \in Pids
           /\ c.on = "run" => c.arg \in Apps
BY DEF Clicks, Buttons, NoClick

LEMMA EarlyGood ==
    ASSUME NEW s, NEW cmd, NEW run, NEW dev, Good(s, cmd, run, dev),
           NEW c \in Clicks \cup {NoClick}, budget \in Nat
    PROVE  Good(Early(s, c), cmd, run, dev)
<1>1. CASE c.on = "relays" BY <1>1, BeginGood DEF Early, Loaders
<1>2. CASE c.on = "acct" BY <1>2, BeginGood DEF Early, Loaders
<1>3. CASE c.on = "split" BY <1>3, BeginGood DEF Early, Loaders
<1>4. CASE c.on = "addPid" BY <1>4, StartGood DEF Early, Verbs, SplitVerbs
<1>5. CASE c.on = "clear" BY <1>5, StartGood DEF Early, Verbs, SplitVerbs
<1>6. CASE c.on = "rm"
  <2> DEFINE q == Append(s.st.rmQueue, c.arg)
  <2>1. s.st \in State /\ s = [st |-> s.st, go |-> s.go] BY PairTyped DEF Good
  <2>2. q \in Seq(Pids) BY <1>6, <2>1, ClickTyped DEF State
  <2>3. Early(s, c) = [s EXCEPT !.st.rmQueue = q] BY <1>6, <2>1 DEF Early
  <2> HIDE DEF q
  <2>4. Good([s EXCEPT !.st.rmQueue = q], cmd, run, dev) BY <2>2, RmQueueGood
  <2> QED BY <2>3, <2>4
<1>7. CASE c.on = "run" BY <1>7, ClickTyped, RunOutsideGood DEF Early
<1>8. CASE c.on \notin {"relays", "acct", "split", "addPid", "clear", "rm", "run"}
  BY <1>8 DEF Early
<1> QED BY <1>1, <1>2, <1>3, <1>4, <1>5, <1>6, <1>7, <1>8

LEMMA MiddleGood ==
    ASSUME NEW s, NEW cmd, NEW run, NEW dev, Good(s, cmd, run, dev),
           NEW c \in Clicks \cup {NoClick}
    PROVE  Good(Middle(s, c), cmd, run, dev)
<1>1. CASE c.on = "add" BY <1>1, StartGood DEF Middle, Verbs, SplitVerbs
<1>2. CASE c.on = "group"
  <2> DEFINE q == Append(s.st.addQueue, c.arg)
  <2>1. s.st \in State /\ s = [st |-> s.st, go |-> s.go] BY PairTyped DEF Good
  <2>2. q \in Seq(Pids) BY <1>2, <2>1, ClickTyped DEF State
  <2>3. Middle(s, c) = [s EXCEPT !.st.addQueue = q] BY <1>2, <2>1 DEF Middle
  <2> HIDE DEF q
  <2>4. Good([s EXCEPT !.st.addQueue = q], cmd, run, dev) BY <2>2, AddQueueGood
  <2> QED BY <2>3, <2>4
<1>3. CASE c.on \notin {"add", "group"} BY <1>3 DEF Middle
<1> QED BY <1>1, <1>2, <1>3

LEMMA ButtonGood ==
    ASSUME NEW s, NEW cmd, NEW run, NEW dev, Good(s, cmd, run, dev), NEW valid
    PROVE  Good(Button(s, valid), cmd, run, dev)
BY StartGood, StartConnectGood DEF Button, Verbs

\* A browser opener more is nothing that is waited for.
LEMMA OpenGood ==
    ASSUME NEW s, NEW cmd, NEW run, NEW dev, Good(s, cmd, run, dev)
    PROVE  Good([s EXCEPT !.go.openers = @ + 1], cmd, run, dev)
<1> DEFINE g == [s.go EXCEPT !.openers = @ + 1]
<1>1. s.st \in State /\ s.go \in Goroutine /\ s = [st |-> s.st, go |-> s.go]
  BY PairTyped DEF Good
<1>2. [s EXCEPT !.go.openers = @ + 1] = [st |-> s.st, go |-> g] BY <1>1
<1>3. /\ g \in Goroutine /\ g.verbs = s.go.verbs /\ g.load = s.go.load
      /\ g.removals = s.go.removals /\ g.runs = s.go.runs
  BY <1>1 DEF Goroutine
<1> HIDE DEF g
<1>4. Flight([st |-> s.st, go |-> g], cmd) BY <1>3 DEF Good, Flight
<1>5. Work([st |-> s.st, go |-> g], run, dev) BY <1>3 DEF Good, Work
<1> QED BY <1>1, <1>2, <1>3, <1>4, <1>5 DEF Good, Pairs

LEMMA LateGood ==
    ASSUME NEW s, NEW cmd, NEW run, NEW dev, Good(s, cmd, run, dev),
           NEW c, NEW valid
    PROVE  Good(Late(s, c, valid), cmd, run, dev)
<1>1. CASE c.on = "toTray"
  <2> DEFINE b == ~s.st.toTray
  <2>1. s.st \in State /\ s = [st |-> s.st, go |-> s.go] BY PairTyped DEF Good
  <2>2. b \in BOOLEAN OBVIOUS
  <2>3. Late(s, c, valid) = [s EXCEPT !.st.toTray = b] BY <1>1, <2>1 DEF Late
  <2> HIDE DEF b
  <2>4. Good([s EXCEPT !.st.toTray = b], cmd, run, dev) BY <2>2, FlagsGood
  <2> QED BY <2>3, <2>4
<1>2. CASE c.on = "lockdown" BY <1>2, StartGood DEF Late, Verbs
<1>3. CASE c.on = "open"
  <2>1. Late(s, c, valid) = [s EXCEPT !.go.openers = @ + 1] BY <1>3 DEF Late
  <2> QED BY <2>1, OpenGood
<1>4. CASE c.on = "button" BY <1>4, ButtonGood DEF Late
<1>5. CASE c.on = "reconnect" BY <1>5, StartGood DEF Late, Verbs
<1>6. CASE c.on = "login" BY <1>6, StartGood DEF Late, Verbs
<1>7. CASE c.on = "signup" BY <1>7, StartGood DEF Late, Verbs
<1>8. CASE c.on = "logout" BY <1>8, StartGood DEF Late, Verbs
<1>9. CASE c.on = "rotate" BY <1>9, StartGood DEF Late, Verbs
<1>10. CASE c.on = "device" BY <1>10, RemoveDeviceGood DEF Late
<1>11. CASE c.on \notin {"toTray", "lockdown", "open", "button", "reconnect", "login",
                         "signup", "logout", "rotate", "device"}
  BY <1>11 DEF Late
<1> QED BY <1>1, <1>2, <1>3, <1>4, <1>5, <1>6, <1>7, <1>8, <1>9, <1>10, <1>11

-----------------------------------------------------------------------------
(* Results *)

\* The flags that a handler sets or clears.
LEMMA FixedGood ==
    ASSUME NEW s, NEW cmd, NEW run, NEW dev, Good(s, cmd, run, dev)
    PROVE  /\ Good([s EXCEPT !.st.devices = FALSE], cmd, run, dev)
           /\ Good([s EXCEPT !.st.devices = TRUE], cmd, run, dev)
           /\ Good([s EXCEPT !.st.atCap = FALSE], cmd, run, dev)
           /\ Good([s EXCEPT !.st.atCap = TRUE], cmd, run, dev)
           /\ Good([s EXCEPT !.st.relays = TRUE], cmd, run, dev)
           /\ Good([s EXCEPT !.st.hide = TRUE], cmd, run, dev)
<1>1. \A b \in BOOLEAN : Good([s EXCEPT !.st.devices = b], cmd, run, dev)
  BY FlagsGood
<1>2. \A b \in BOOLEAN : Good([s EXCEPT !.st.atCap = b], cmd, run, dev)
  BY FlagsGood
<1>3. \A b \in BOOLEAN : Good([s EXCEPT !.st.relays = b], cmd, run, dev)
  BY FlagsGood
<1>4. \A b \in BOOLEAN : Good([s EXCEPT !.st.hide = b], cmd, run, dev)
  BY FlagsGood
<1>5. TRUE \in BOOLEAN /\ FALSE \in BOOLEAN OBVIOUS
<1> QED BY <1>1, <1>2, <1>3, <1>4, <1>5, Zenon

LEMMA CapGood ==
    ASSUME NEW s, NEW cmd, NEW run, NEW dev, Good(s, cmd, run, dev), NEW b \in BOOLEAN
    PROVE  Good([s EXCEPT !.st.atCap = b, !.st.devices = FALSE], cmd, run, dev)
<1>1. s.st \in State /\ s = [st |-> s.st, go |-> s.go] BY PairTyped DEF Good
<1> DEFINE t == [s.st EXCEPT !.atCap = b, !.devices = FALSE]
<1>2. t \in State /\ t.running = s.st.running /\ t.busy = s.st.busy
      /\ t.device = s.st.device /\ t.starting = s.st.starting
  BY <1>1 DEF State
<1>3. [s EXCEPT !.st.atCap = b, !.st.devices = FALSE] = [s EXCEPT !.st = t] BY <1>1
<1> HIDE DEF t
<1> QED BY <1>2, <1>3, Aside

\* The removal of the device is over, whatever its channel holds then.
LEMMA DeviceGood ==
    ASSUME NEW s, NEW cmd, NEW run, NEW dev, Good(s, cmd, run, dev), NEW d
    PROVE  Good([s EXCEPT !.st.device = FALSE], cmd, run, d)
<1>1. s.st \in State /\ s.go \in Goroutine /\ s = [st |-> s.st, go |-> s.go]
  BY PairTyped DEF Good
<1> DEFINE t == [s.st EXCEPT !.device = FALSE]
<1>2. t \in State /\ t.running = s.st.running /\ t.busy = s.st.busy
      /\ t.starting = s.st.starting
  BY <1>1 DEF State
<1>3. ~t.device BY <1>1 DEF State
<1>4. [s EXCEPT !.st.device = FALSE] = [s EXCEPT !.st = t] BY <1>1
<1> HIDE DEF t
<1>7. [s EXCEPT !.st = t] = [st |-> t, go |-> s.go] BY <1>1
<1>5. Flight([st |-> t, go |-> s.go], cmd) BY <1>2 DEF Good, Flight
<1>6. Work([st |-> t, go |-> s.go], run, d) BY <1>2, <1>3 DEF Good, Work
<1> QED BY <1>1, <1>2, <1>4, <1>5, <1>6, <1>7 DEF Good, Pairs

\* The loop has taken the result of a verb, or of the opener.
LEMMA EndedGood ==
    ASSUME NEW s, NEW cmd \in Verbs \cup {"open"}, NEW run, NEW dev,
           Good(s, cmd, run, dev)
    PROVE  Good(Ended(s, cmd), None, run, dev)
<1>0. None \notin Verbs /\ "open" \notin Verbs
  BY GuiAssumption DEF Verbs, SplitVerbs
<1>1. CASE cmd = "open"
  <2>1. Flight(s, None) BY <1>0, <1>1 DEF Good, Flight
  <2> QED BY <1>1, <2>1 DEF Ended, Good
<1>2. CASE cmd # "open"
  <2> DEFINE t == [s.st EXCEPT !.running = None]
  <2>1. s.st \in State /\ s.go \in Goroutine /\ s = [st |-> s.st, go |-> s.go]
    BY PairTyped DEF Good
  <2>2. /\ t \in State /\ t.running = None /\ t.busy = s.st.busy
        /\ t.device = s.st.device /\ t.starting = s.st.starting
    BY <2>1 DEF State
  <2>3. Ended(s, cmd) = [st |-> t, go |-> s.go] BY <1>2, <2>1 DEF Ended
  <2> HIDE DEF t
  <2>4. Flight([st |-> t, go |-> s.go], None) BY <1>0, <1>2, <2>2 DEF Good, Flight
  <2>5. Work([st |-> t, go |-> s.go], run, dev) BY <2>2 DEF Good, Work
  <2> QED BY <2>1, <2>2, <2>3, <2>4, <2>5 DEF Good, Pairs
<1> QED BY <1>1, <1>2

LEMMA ReloadGood ==
    ASSUME NEW s, NEW cmd, NEW run, NEW dev, Good(s, cmd, run, dev),
           NEW cred \in BOOLEAN
    PROVE  Good(Reload(s, cred), cmd, run, dev)
BY FlagsGood DEF Reload

LEMMA NewAccountGood ==
    ASSUME NEW s, NEW cmd, NEW run, NEW dev, Good(s, cmd, run, dev),
           NEW cred \in BOOLEAN
    PROVE  Good(NewAccount(s, cred), cmd, run, dev)
<1> DEFINE u == Reload(s, cred)
<1>1. Good(u, cmd, run, dev) BY ReloadGood
<1>2. NewAccount(s, cred) = [u EXCEPT !.st.devices = FALSE] BY DEF NewAccount
<1> HIDE DEF u
<1>3. Good([u EXCEPT !.st.devices = FALSE], cmd, run, dev) BY <1>1, FixedGood
<1> QED BY <1>2, <1>3

LEMMA AfterLoginGood ==
    ASSUME NEW s, NEW cmd, NEW run, NEW dev, Good(s, cmd, run, dev),
           NEW end \in Ends, NEW cred \in BOOLEAN
    PROVE  Good(AfterLogin(s, end, cred), cmd, run, dev)
<1>1. CASE end = "ok"
  <2> DEFINE u == [s EXCEPT !.st.atCap = FALSE]
             w == NewAccount(u, cred)
  <2>1. AfterLogin(s, end, cred) = BeginAcct(w) BY <1>1 DEF AfterLogin
  <2>2. Good(u, cmd, run, dev) BY FixedGood
  <2> HIDE DEF u
  <2>3. Good(w, cmd, run, dev) BY <2>2, NewAccountGood
  <2> HIDE DEF w
  <2> QED BY <2>1, <2>3, BeginAcctGood
<1>2. CASE end = "cap"
  <2> DEFINE yes == TRUE
             u == [s EXCEPT !.st.atCap = yes, !.st.devices = FALSE]
  <2>1. AfterLogin(s, end, cred) = BeginAcct(u) BY <1>2 DEF AfterLogin
  <2>2. yes \in BOOLEAN OBVIOUS
  <2> HIDE DEF yes
  <2>3. Good(u, cmd, run, dev) BY <2>2, CapGood
  <2> HIDE DEF u
  <2> QED BY <2>1, <2>3, BeginAcctGood
<1>3. CASE end = "fail"
  <2> DEFINE no == FALSE
             u == [s EXCEPT !.st.atCap = no, !.st.devices = FALSE]
  <2>1. AfterLogin(s, end, cred) = u BY <1>3 DEF AfterLogin
  <2>2. no \in BOOLEAN OBVIOUS
  <2> HIDE DEF no
  <2>3. Good(u, cmd, run, dev) BY <2>2, CapGood
  <2> QED BY <2>1, <2>3
<1> QED BY <1>1, <1>2, <1>3 DEF Ends

LEMMA HandleGood ==
    ASSUME NEW s, NEW cmd, NEW run, NEW dev, Good(s, cmd, run, dev),
           NEW name, NEW end \in Ends, NEW cred \in BOOLEAN
    PROVE  Good(Handle(s, name, end, cred), cmd, run, dev)
<1>1. CASE name \in {"connect", "reconnect"} /\ end = "ok"
  BY <1>1, ReloadGood DEF Handle, SplitVerbs
<1>2. CASE name = "logout" /\ end = "ok"
  <2> DEFINE u == NewAccount(s, cred)
  <2>1. Handle(s, name, end, cred) = [u EXCEPT !.st.device = FALSE]
    BY <1>2 DEF Handle, SplitVerbs
  <2>2. Good(u, cmd, run, dev) BY NewAccountGood
  <2> HIDE DEF u
  <2>3. Good([u EXCEPT !.st.device = FALSE], cmd, run, dev) BY <2>2, DeviceGood
  <2> QED BY <2>1, <2>3
<1>3. CASE name = "rotate-key" /\ end = "ok"
  BY <1>3, NewAccountGood DEF Handle, SplitVerbs
<1>4. CASE name = "login" BY <1>4, AfterLoginGood DEF Handle, SplitVerbs
<1>5. CASE name = "signup" /\ end = "ok"
  <2> DEFINE u == NewAccount(s, cred)
  <2>1. Handle(s, name, end, cred) = IF cred THEN Begin(u, "acct") ELSE u
    BY <1>5 DEF Handle, SplitVerbs
  <2>2. Good(u, cmd, run, dev) BY NewAccountGood
  <2> HIDE DEF u
  <2>3. Good(Begin(u, "acct"), cmd, run, dev) BY <2>2, BeginGood DEF Loaders
  <2> QED BY <2>1, <2>2, <2>3
<1>6. CASE name \in SplitVerbs
  <2> DEFINE u == [s EXCEPT !.st.removing = None]
  <2>1. Handle(s, name, end, cred) = Begin(u, "split") BY <1>6 DEF Handle, SplitVerbs
  <2>2. None \in Pids \cup {None} OBVIOUS
  <2>3. Good(u, cmd, run, dev) BY <2>2, RemovingGood
  <2> HIDE DEF u
  <2> QED BY <2>1, <2>3, BeginGood DEF Loaders
<1>7. CASE /\ ~(name \in {"connect", "reconnect", "logout", "rotate-key", "signup"} /\ end = "ok")
           /\ name # "login"
           /\ name \notin SplitVerbs
  <2>1. Handle(s, name, end, cred) = s BY <1>7 DEF Handle
  <2> QED BY <2>1
<1> QED BY <1>1, <1>2, <1>3, <1>4, <1>5, <1>6, <1>7

LEMMA LoadedGood ==
    ASSUME NEW s, NEW cmd, NEW run, NEW dev, Good(s, cmd, run, dev),
           NEW l \in Loaders, NEW ok \in BOOLEAN, NEW cred \in BOOLEAN
    PROVE  Good(Loaded(s, l, ok, cred), cmd, run, dev)
<1>1. CASE l = "relay"
  <2>1. Loaded(s, l, ok, cred) = [s EXCEPT !.st.relays = TRUE] BY <1>1 DEF Loaded
  <2>2. Good([s EXCEPT !.st.relays = TRUE], cmd, run, dev) BY FixedGood
  <2> QED BY <2>1, <2>2
<1>2. CASE ok /\ l = "acct"
  <2> DEFINE u == [s EXCEPT !.st.devices = TRUE]
  <2>1. Loaded(s, l, ok, cred) = Reload(u, cred) BY <1>2 DEF Loaded
  <2>2. Good(u, cmd, run, dev) BY FixedGood
  <2> HIDE DEF u
  <2> QED BY <2>1, <2>2, ReloadGood
<1>3. CASE l # "relay" /\ ~(ok /\ l = "acct") BY <1>3 DEF Loaded
<1> QED BY <1>1, <1>2, <1>3

LEMMA IdleGood ==
    ASSUME NEW s, NEW cmd, NEW run, NEW dev, Good(s, cmd, run, dev),
           NEW l \in Loaders, NEW ok
    PROVE  Good(Idle(s, l, ok), cmd, run, dev)
<1> DEFINE t == [s.st EXCEPT !.busy = @ \ {l}]
           g == [s.go EXCEPT !.load[l] = "idle"]
<1>1. s.st \in State /\ s.go \in Goroutine /\ s = [st |-> s.st, go |-> s.go]
  BY PairTyped DEF Good
<1>2. /\ t \in State /\ t.running = s.st.running /\ t.busy = s.st.busy \ {l}
      /\ t.device = s.st.device /\ t.starting = s.st.starting
  BY <1>1 DEF State
<1>3. /\ g \in Goroutine /\ g.verbs = s.go.verbs
      /\ g.load = [s.go.load EXCEPT ![l] = "idle"]
      /\ g.removals = s.go.removals /\ g.runs = s.go.runs
  BY <1>1 DEF Goroutine
<1>4. Idle(s, l, ok) = [st |-> t, go |-> g]
  <2>1. Idle(s, l, ok) = [s EXCEPT !.st = t, !.go = g] BY <1>1 DEF Idle
  <2> HIDE DEF t, g
  <2> QED BY <1>1, <2>1
<1>5. s.go.load \in [Loaders -> {"idle", "begun", "done"}] BY <1>1 DEF Goroutine
<1> HIDE DEF t, g
<1>6. Flight([st |-> t, go |-> g], cmd) BY <1>2, <1>3 DEF Good, Flight
<1>7. Work([st |-> t, go |-> g], run, dev) BY <1>2, <1>3, <1>5 DEF Good, Work
<1> QED BY <1>2, <1>3, <1>4, <1>6, <1>7 DEF Good, Pairs

-----------------------------------------------------------------------------
(* The row that is being removed *)

LEMMA SteadyTrans ==
    ASSUME NEW s, NEW t, NEW u, Steady(s, t), Steady(t, u)
    PROVE  Steady(s, u)
<1>1. "split-rm" # None BY GuiAssumption DEF Verbs, SplitVerbs
<1> QED BY <1>1 DEF Steady

LEMMA StartSteady ==
    ASSUME NEW s \in Pairs, NEW v
    PROVE  /\ Steady(s, Start(s, v))
           /\ s.st.running = None => Start(s, v).st.running = v
BY PairTyped DEF Start, Steady, State, Goroutine

LEMMA StartTyped ==
    ASSUME NEW s \in Pairs, NEW v \in Verbs
    PROVE  Start(s, v) \in Pairs
<1>1. CASE s.st.running # None BY <1>1 DEF Start
<1>2. CASE s.st.running = None
  <2> DEFINE t == [s.st EXCEPT !.running = v]
             g == [s.go EXCEPT !.verbs = @ \cup {v}]
  <2>1. s.st \in State /\ s.go \in Goroutine /\ s = [st |-> s.st, go |-> s.go]
    BY PairTyped
  <2>2. t \in State /\ g \in Goroutine BY <2>1 DEF State, Goroutine
  <2>3. Start(s, v) = [st |-> t, go |-> g] BY <1>2, <2>1 DEF Start
  <2> HIDE DEF t, g
  <2> QED BY <2>2, <2>3 DEF Pairs
<1> QED BY <1>1, <1>2

LEMMA BeginSteady ==
    ASSUME NEW s \in Pairs, NEW l
    PROVE  /\ Begin(s, l).st.running = s.st.running
           /\ Begin(s, l).st.removing = s.st.removing
           /\ Steady(s, Begin(s, l))
BY PairTyped DEF Begin, Steady, State, Goroutine

LEMMA BeginAcctSteady ==
    ASSUME NEW s \in Pairs
    PROVE  /\ BeginAcct(s).st.running = s.st.running
           /\ BeginAcct(s).st.removing = s.st.removing
           /\ Steady(s, BeginAcct(s))
BY BeginSteady DEF BeginAcct, Steady

LEMMA SameSteady == ASSUME NEW s PROVE Steady(s, s)
BY DEF Steady

LEMMA StartConnectSteady ==
    ASSUME NEW s \in Pairs, NEW valid
    PROVE  Steady(s, StartConnect(s, valid))
BY StartSteady, SameSteady DEF StartConnect

LEMMA EarlySteady ==
    ASSUME NEW s \in Pairs, NEW c PROVE Steady(s, Early(s, c))
<1>1. CASE c.on = "rm"
  BY <1>1, PairTyped DEF Early, Steady, State
<1>2. CASE c.on = "run"
  BY <1>2, PairTyped DEF Early, RunOutside, Steady, State, Goroutine
<1>3. CASE c.on \in {"relays", "acct", "split"}
  BY <1>3, BeginSteady, SameSteady DEF Early
<1>4. CASE c.on \in {"addPid", "clear"} BY <1>4, StartSteady DEF Early
<1>5. CASE c.on \notin {"relays", "acct", "split", "addPid", "clear", "rm", "run"}
  BY <1>5, SameSteady DEF Early
<1> QED BY <1>1, <1>2, <1>3, <1>4, <1>5

LEMMA DrainRmSteady ==
    ASSUME NEW s \in Pairs PROVE Steady(s, DrainRm(s))
<1>1. CASE s.st.running # None \/ s.st.rmQueue = <<>>
  BY <1>1, SameSteady DEF DrainRm
<1>2. CASE s.st.running = None /\ s.st.rmQueue # <<>>
  <2> DEFINE u == Start(s, "split-rm")
             x == Head(s.st.rmQueue)
  <2>1. u.st.running = "split-rm" BY <1>2, StartSteady
  <2>2. DrainRm(s) = [u EXCEPT !.st.removing = x, !.st.rmQueue = Tail(@)]
    BY <1>2 DEF DrainRm
  <2>3. u.st \in State /\ u = [st |-> u.st, go |-> u.go]
    BY StartTyped, PairTyped DEF Verbs, SplitVerbs
  <2> HIDE DEF u, x
  <2>4. DrainRm(s).st = [u.st EXCEPT !.removing = x, !.rmQueue = Tail(@)]
    BY <2>2, <2>3
  <2>5. DrainRm(s).st.running = "split-rm" BY <2>1, <2>3, <2>4 DEF State
  <2> QED BY <1>2, <2>5 DEF Steady
<1> QED BY <1>1, <1>2

LEMMA MiddleSteady ==
    ASSUME NEW s \in Pairs, NEW c PROVE Steady(s, Middle(s, c))
<1>1. CASE c.on = "group"
  BY <1>1, PairTyped DEF Middle, Steady, State
<1>2. CASE c.on = "add" BY <1>2, StartSteady DEF Middle
<1>3. CASE c.on \notin {"add", "group"} BY <1>3, SameSteady DEF Middle
<1> QED BY <1>1, <1>2, <1>3

LEMMA DrainAddSteady ==
    ASSUME NEW s \in Pairs PROVE Steady(s, DrainAdd(s))
<1>1. CASE s.st.running # None \/ s.st.addQueue = <<>>
  BY <1>1, SameSteady DEF DrainAdd
<1>2. CASE s.st.running = None /\ s.st.addQueue # <<>>
  <2> DEFINE u == Start(s, "split-add")
  <2>1. Steady(s, u) BY StartSteady
  <2>2. DrainAdd(s) = [u EXCEPT !.st.addQueue = Tail(@)] BY <1>2 DEF DrainAdd
  <2>3. u.st \in State /\ u = [st |-> u.st, go |-> u.go]
    BY StartTyped, PairTyped DEF Verbs, SplitVerbs
  <2> HIDE DEF u
  <2>4. Steady(u, DrainAdd(s)) BY <2>2, <2>3 DEF Steady, State
  <2> QED BY <2>1, <2>4, SteadyTrans
<1> QED BY <1>1, <1>2

LEMMA LateSteady ==
    ASSUME NEW s \in Pairs, NEW c, NEW valid PROVE Steady(s, Late(s, c, valid))
<1>1. CASE c.on = "toTray" BY <1>1, PairTyped DEF Late, Steady, State
<1>2. CASE c.on = "open" BY <1>2, PairTyped DEF Late, Steady, Goroutine
<1>3. CASE c.on = "device"
  BY <1>3, PairTyped DEF Late, RemoveDevice, Steady, State, Goroutine
<1>4. CASE c.on = "button"
  BY <1>4, StartSteady, StartConnectSteady DEF Late, Button
<1>5. CASE c.on \notin {"toTray", "open", "device", "button"}
  <2>1. Late(s, c, valid) = s \/ \E v \in Verbs : Late(s, c, valid) = Start(s, v)
    BY <1>5, Zenon DEF Late, Verbs
  <2> QED BY <2>1, StartSteady, SameSteady
<1> QED BY <1>1, <1>2, <1>3, <1>4, <1>5

\* A result that run takes clears splitRemoving if it is of a split verb, and
\* else leaves it.
LEMMA HandleRow ==
    ASSUME NEW s \in Pairs, NEW name, NEW end \in Ends, NEW cred \in BOOLEAN
    PROVE  LET t == Handle(s, name, end, cred) IN
           /\ t.st.running = s.st.running
           /\ t.st.removing = IF name \in SplitVerbs THEN None ELSE s.st.removing
<1> DEFINE t == Handle(s, name, end, cred)
<1>0. s.st \in State /\ s.go \in Goroutine /\ s = [st |-> s.st, go |-> s.go]
  BY PairTyped
<1>1. CASE name \in SplitVerbs
  <2> DEFINE u == [s EXCEPT !.st.removing = None]
  <2>1. t = Begin(u, "split") BY <1>1 DEF Handle, SplitVerbs
  <2>2. u \in Pairs /\ u.st.running = s.st.running /\ u.st.removing = None
    BY <1>0 DEF Pairs, State
  <2> HIDE DEF u
  <2> QED BY <1>1, <2>1, <2>2, BeginSteady
<1>2. CASE name \notin SplitVerbs
  <2>1. \A w \in Pairs : /\ Reload(w, cred) \in Pairs
                         /\ Reload(w, cred).st.running = w.st.running
                         /\ Reload(w, cred).st.removing = w.st.removing
    BY PairTyped DEF Reload, Pairs, State
  <2>2. \A w \in Pairs : /\ NewAccount(w, cred) \in Pairs
                         /\ NewAccount(w, cred).st.running = w.st.running
                         /\ NewAccount(w, cred).st.removing = w.st.removing
    <3> SUFFICES ASSUME NEW w \in Pairs
                 PROVE  /\ NewAccount(w, cred) \in Pairs
                        /\ NewAccount(w, cred).st.running = w.st.running
                        /\ NewAccount(w, cred).st.removing = w.st.removing
      OBVIOUS
    <3> DEFINE u == Reload(w, cred)
               no == FALSE
               d == [u.st EXCEPT !.devices = no]
    <3>1. /\ u \in Pairs /\ u.st.running = w.st.running
          /\ u.st.removing = w.st.removing
      BY <2>1
    <3>2. NewAccount(w, cred) = [u EXCEPT !.st.devices = FALSE] BY DEF NewAccount
    <3> HIDE DEF u
    <3>3. u.st \in State /\ u.go \in Goroutine /\ u = [st |-> u.st, go |-> u.go]
      BY <3>1, PairTyped
    <3>4. NewAccount(w, cred) = [st |-> d, go |-> u.go] BY <3>2, <3>3
    <3>5. no \in BOOLEAN OBVIOUS
    <3> HIDE DEF no
    <3>6. d \in State /\ d.running = u.st.running /\ d.removing = u.st.removing
      BY <3>3, <3>5 DEF State
    <3> HIDE DEF d
    <3> QED BY <3>1, <3>3, <3>4, <3>6 DEF Pairs
  <2>3. CASE name = "login"
    <3>1. CASE end = "ok"
      <4> DEFINE u == [s EXCEPT !.st.atCap = FALSE]
      <4>1. u \in Pairs /\ u.st.running = s.st.running /\ u.st.removing = s.st.removing
        BY <1>0 DEF Pairs, State
      <4>2. t = BeginAcct(NewAccount(u, cred))
        BY <2>3, <3>1 DEF Handle, AfterLogin, SplitVerbs
      <4> HIDE DEF u, t
      <4> QED BY <1>2, <2>2, <4>1, <4>2, BeginAcctSteady DEF t
    <3>2. CASE end = "cap"
      <4> DEFINE u == [s EXCEPT !.st.atCap = TRUE, !.st.devices = FALSE]
      <4>1. u \in Pairs /\ u.st.running = s.st.running /\ u.st.removing = s.st.removing
        BY <1>0 DEF Pairs, State
      <4>2. t = BeginAcct(u)
        BY <2>3, <3>2 DEF Handle, AfterLogin, SplitVerbs
      <4> HIDE DEF u, t
      <4> QED BY <1>2, <4>1, <4>2, BeginAcctSteady DEF t
    <3>3. CASE end = "fail"
      BY <1>0, <1>2, <2>3, <3>3 DEF Handle, AfterLogin, SplitVerbs, State
    <3> QED BY <3>1, <3>2, <3>3 DEF Ends
  <2>4. CASE name = "logout" /\ end = "ok"
    <3> DEFINE u == NewAccount(s, cred)
    <3>1. t = [u EXCEPT !.st.device = FALSE] BY <2>4 DEF Handle, SplitVerbs
    <3>2. u \in Pairs /\ u.st.running = s.st.running /\ u.st.removing = s.st.removing
      BY <2>2
    <3> HIDE DEF u, t
    <3>3. t.st.running = u.st.running /\ t.st.removing = u.st.removing
      BY <3>1, <3>2, PairTyped DEF State
    <3> QED BY <1>2, <3>2, <3>3 DEF t
  <2>5. CASE name = "signup" /\ end = "ok"
    <3> DEFINE u == NewAccount(s, cred)
    <3>1. t = IF cred THEN Begin(u, "acct") ELSE u BY <2>5 DEF Handle, SplitVerbs
    <3>2. u \in Pairs /\ u.st.running = s.st.running /\ u.st.removing = s.st.removing
      BY <2>2
    <3> HIDE DEF u, t
    <3> QED BY <1>2, <3>1, <3>2, BeginSteady DEF t
  <2>6. CASE name \in {"connect", "reconnect"} /\ end = "ok"
    BY <1>2, <2>1, <2>6 DEF Handle
  <2>7. CASE name = "rotate-key" /\ end = "ok"
    BY <1>2, <2>2, <2>7 DEF Handle
  <2>8. CASE /\ name # "login"
             /\ ~(name \in {"connect", "reconnect", "logout", "rotate-key", "signup"}
                  /\ end = "ok")
    BY <1>2, <2>8 DEF Handle
  <2> QED BY <2>3, <2>4, <2>5, <2>6, <2>7, <2>8
<1> QED BY <1>1, <1>2

-----------------------------------------------------------------------------
(* The actions *)

\* The invariant speaks of the pair of the state struct and the goroutines.
LEMMA InvGood ==
    ASSUME GuiInv
    PROVE  /\ Good(S, cmdDone, runDone, deviceDone)
           /\ S \in Pairs /\ S.st = st /\ S.go = go /\ Row(S, orphaned)
<1>1. S \in Pairs /\ S.st = st /\ S.go = go BY DEF S, Pairs, GuiInv, TypeOK
<1>2. Flight(S, cmdDone) BY <1>1 DEF GuiInv, SingleFlight, Waiting, Flight
<1>3. Work(S, runDone, deviceDone) BY <1>1 DEF GuiInv, BusyHasWork, Work
<1>4. Row(S, orphaned) BY <1>1 DEF GuiInv, BusyHasWork, Row
<1> QED BY <1>1, <1>2, <1>3, <1>4 DEF Good

\* What is not in the pair.
Channels ==
    /\ win' \in {"opening", "run", "hidden", "quit"}
    /\ tray' \in BOOLEAN
    /\ win' = "hidden" => tray'
    /\ cmdDone' \in Verbs \cup {"open", None}
    /\ runDone' \in Apps \cup {None}
    /\ deviceDone' \in BOOLEAN
    /\ orphaned' \in BOOLEAN
    /\ budget' \in Nat

LEMMA GoodInv ==
    ASSUME NEW s, Good(s, cmdDone', runDone', deviceDone'), Becomes(s), Channels,
           Row(s, orphaned')
    PROVE  GuiInv'
<1>1. st' = s.st /\ go' = s.go /\ s.st \in State /\ s.go \in Goroutine
  BY PairTyped DEF Good, Becomes
<1>2. TypeOK' BY <1>1 DEF TypeOK, Channels
<1>3. SingleFlight' BY <1>1 DEF SingleFlight, Waiting, Good, Flight
<1>4. BusyHasWork' BY <1>1 DEF BusyHasWork, Good, Work, Row
<1> QED BY <1>2, <1>3, <1>4 DEF GuiInv

\* Steady steps keep the row, with the same history.
LEMMA SteadyRow ==
    ASSUME GuiInv, NEW s, Steady(S, s),
           (orphaned' <=> orphaned) \/ s.st.running = "split-rm"
    PROVE  Row(s, orphaned')
<1>1. Row(S, orphaned) BY InvGood
<1>2. "split-rm" # None BY GuiAssumption DEF Verbs, SplitVerbs
<1> QED BY <1>1, <1>2 DEF Row, Steady

LEMMA SpendNat ==
    ASSUME budget \in Nat, Spend
    PROVE  budget' \in Nat
BY DEF Spend

LEMMA FrameInv ==
    ASSUME GuiInv, NEW c \in Clicks \cup {NoClick}, NEW valid, Frame(c, valid)
    PROVE  GuiInv'
<1> DEFINE s1 == Early(S, c)
           s2 == DrainRm(s1)
           s3 == Middle(s2, c)
           s4 == DrainAdd(s3)
           s5 == Late(s4, c, valid)
<1>0. budget \in Nat BY DEF GuiInv, TypeOK
<1>1. Channels
  BY <1>0, SpendNat DEF Frame, Channels, GuiInv, TypeOK
<1>2. Becomes(s5) /\ cmdDone' = cmdDone /\ runDone' = runDone /\ deviceDone' = deviceDone
  BY DEF Frame
<1>3. Good(s1, cmdDone, runDone, deviceDone) /\ Steady(S, s1)
  BY <1>0, InvGood, EarlyGood, EarlySteady
<1> HIDE DEF s1
<1>4. Good(s2, cmdDone, runDone, deviceDone) /\ Steady(s1, s2)
  BY <1>3, DrainsGood, DrainRmSteady DEF Good
<1> HIDE DEF s2
<1>5. Good(s3, cmdDone, runDone, deviceDone) /\ Steady(s2, s3)
  BY <1>4, MiddleGood, MiddleSteady DEF Good
<1> HIDE DEF s3
<1>6. Good(s4, cmdDone, runDone, deviceDone) /\ Steady(s3, s4)
  BY <1>5, DrainsGood, DrainAddSteady DEF Good
<1> HIDE DEF s4
<1>7. Good(s5, cmdDone, runDone, deviceDone) /\ Steady(s4, s5)
  BY <1>6, LateGood, LateSteady DEF Good
<1>8. (orphaned' <=> orphaned) \/ s5.st.running = "split-rm"
  <2>1. orphaned' = (orphaned /\ st'.running # "split-rm") BY DEF Frame
  <2>2. st' = s5.st BY <1>2 DEF Becomes
  <2> HIDE DEF s5
  <2> QED BY <2>1, <2>2
<1> HIDE DEF s5
<1>9. Steady(S, s5) BY <1>3, <1>4, <1>5, <1>6, <1>7, SteadyTrans
<1>10. Row(s5, orphaned') BY <1>8, <1>9, SteadyRow
<1> QED BY <1>1, <1>2, <1>7, <1>10, GoodInv

LEMMA TakeCmdInv ==
    ASSUME GuiInv, NEW end \in Ends, NEW cred \in BOOLEAN, TakeCmd(end, cred)
    PROVE  GuiInv'
<1> DEFINE s1 == Ended(S, cmdDone)
           s2 == Handle(s1, cmdDone, end, cred)
<1>1. Channels BY DEF TakeCmd, Channels, GuiInv, TypeOK
<1>2. Becomes(s2) /\ cmdDone' = None /\ runDone' = runDone /\ deviceDone' = deviceDone
  BY DEF TakeCmd
<1>3. cmdDone \in Verbs \cup {"open"} BY DEF TakeCmd, GuiInv, TypeOK
<1>4. Good(s1, None, runDone, deviceDone) BY <1>3, InvGood, EndedGood
<1>5. s1.st.removing = st.removing /\ (cmdDone = "open" => s1 = S)
  BY InvGood, PairTyped DEF Ended, State
<1>6. orphaned' = (orphaned /\ cmdDone \notin SplitVerbs) BY DEF TakeCmd
<1> HIDE DEF s1
<1>7. Good(s2, None, runDone, deviceDone) BY <1>4, HandleGood
<1>8. /\ s2.st.running = s1.st.running
      /\ s2.st.removing = IF cmdDone \in SplitVerbs THEN None ELSE s1.st.removing
  BY <1>4, HandleRow DEF Good
<1> HIDE DEF s2
<1>9. Row(s2, orphaned')
  <2>1. CASE cmdDone \in SplitVerbs BY <1>8, <2>1 DEF Row
  <2>2. CASE cmdDone = "open" BY <1>5, <1>6, <1>8, <2>2, InvGood DEF Row, SplitVerbs
  <2>3. CASE cmdDone \notin SplitVerbs /\ cmdDone # "open"
    <3>1. cmdDone = st.running
      BY <1>3, <2>3 DEF GuiInv, SingleFlight, Waiting
    <3>2. st.running # "split-rm" BY <2>3, <3>1 DEF SplitVerbs
    <3> QED BY <1>5, <1>6, <1>8, <2>3, <3>2, InvGood DEF Row
  <2> QED BY <2>1, <2>2, <2>3
<1> QED BY <1>1, <1>2, <1>7, <1>9, GoodInv

LEMMA TakeCmdHiddenInv ==
    ASSUME GuiInv, TakeCmdHidden
    PROVE  GuiInv'
<1> DEFINE s1 == Ended(S, cmdDone)
<1>1. Channels BY DEF TakeCmdHidden, Channels, GuiInv, TypeOK
<1>2. Becomes(s1) /\ cmdDone' = None /\ runDone' = runDone /\ deviceDone' = deviceDone
  BY DEF TakeCmdHidden
<1>3. cmdDone \in Verbs \cup {"open"} BY DEF TakeCmdHidden, GuiInv, TypeOK
<1>4. Good(s1, None, runDone, deviceDone) BY <1>3, InvGood, EndedGood
<1>5. s1.st.removing = st.removing /\ (cmdDone = "open" => s1 = S)
  BY InvGood, PairTyped DEF Ended, State
<1>6. orphaned' = (orphaned \/ cmdDone = "split-rm") BY DEF TakeCmdHidden
<1> HIDE DEF s1
<1>7. Row(s1, orphaned')
  <2>1. CASE cmdDone = "open" BY <1>5, <1>6, <2>1, InvGood DEF Row
  <2>2. CASE cmdDone # "open"
    <3>1. cmdDone = st.running
      BY <1>3, <2>2 DEF GuiInv, SingleFlight, Waiting
    <3> QED BY <1>5, <1>6, <3>1, InvGood DEF Row
  <2> QED BY <2>1, <2>2
<1> QED BY <1>1, <1>2, <1>4, <1>7, GoodInv

LEMMA TakeLoadInv ==
    ASSUME GuiInv, NEW l \in Loaders, NEW ok \in BOOLEAN, NEW cred \in BOOLEAN,
           TakeLoad(l, ok, cred)
    PROVE  GuiInv'
<1> DEFINE s1 == Loaded(S, l, ok, cred)
           s2 == Idle(s1, l, ok)
<1>1. Channels BY DEF TakeLoad, Channels, GuiInv, TypeOK
<1>2. Becomes(s2) /\ cmdDone' = cmdDone /\ runDone' = runDone /\ deviceDone' = deviceDone
  BY DEF TakeLoad
<1>3. Good(s1, cmdDone, runDone, deviceDone) BY InvGood, LoadedGood
<1>4. Steady(S, s1)
  BY InvGood, PairTyped DEF Loaded, Reload, Steady, State
<1> HIDE DEF s1
<1>5. Good(s2, cmdDone, runDone, deviceDone) BY <1>3, IdleGood
<1>6. Steady(s1, s2) BY <1>3, PairTyped DEF Good, Idle, Steady, State, Goroutine
<1> HIDE DEF s2
<1>7. Row(s2, orphaned') BY <1>4, <1>6, SteadyTrans, SteadyRow DEF TakeLoad
<1> QED BY <1>1, <1>2, <1>5, <1>7, GoodInv

LEMMA TakeDeviceInv ==
    ASSUME GuiInv, NEW ok, TakeDevice(ok)
    PROVE  GuiInv'
<1> DEFINE no == FALSE
           s1 == [S EXCEPT !.st.device = FALSE]
           s2 == IF ok THEN BeginAcct(s1) ELSE s1
<1>1. Channels BY DEF TakeDevice, Channels, GuiInv, TypeOK
<1>2. Becomes(s2) /\ cmdDone' = cmdDone /\ runDone' = runDone BY DEF TakeDevice
<1>3. deviceDone' = no BY Zenon DEF TakeDevice
<1> HIDE DEF no
<1>4. Good(s1, cmdDone, runDone, no) BY InvGood, DeviceGood
<1>5. Steady(S, s1) BY InvGood, PairTyped DEF Steady, State
<1> HIDE DEF s1
<1>6. Good(s2, cmdDone, runDone, no) BY <1>4, BeginAcctGood
<1>7. Steady(s1, s2) BY <1>4, BeginAcctSteady, SameSteady DEF Good
<1> HIDE DEF s2
<1>8. Row(s2, orphaned') BY <1>5, <1>7, SteadyTrans, SteadyRow DEF TakeDevice
<1> QED BY <1>1, <1>2, <1>3, <1>6, <1>8, GoodInv

\* A run has been taken off the list, and its report off the channel.
LEMMA StartedGood ==
    ASSUME NEW s, NEW cmd, NEW run, NEW dev, Good(s, cmd, run, dev)
    PROVE  Good([s EXCEPT !.st.starting = @ \ {run}], cmd, None, dev)
<1>1. s.st \in State /\ s.go \in Goroutine /\ s = [st |-> s.st, go |-> s.go]
  BY PairTyped DEF Good
<1> DEFINE t == [s.st EXCEPT !.starting = @ \ {run}]
<1>2. /\ t \in State /\ t.running = s.st.running /\ t.busy = s.st.busy
      /\ t.device = s.st.device /\ t.starting = s.st.starting \ {run}
  BY <1>1 DEF State
<1>3. [s EXCEPT !.st.starting = @ \ {run}] = [s EXCEPT !.st = t] BY <1>1
<1> HIDE DEF t
<1>4. [s EXCEPT !.st = t] = [st |-> t, go |-> s.go] BY <1>1
<1>5. Flight([st |-> t, go |-> s.go], cmd) BY <1>2 DEF Good, Flight
<1>6. Work([st |-> t, go |-> s.go], None, dev) BY <1>2 DEF Good, Work
<1> QED BY <1>1, <1>2, <1>3, <1>4, <1>5, <1>6 DEF Good, Pairs

LEMMA TakeRunInv ==
    ASSUME GuiInv, TakeRun
    PROVE  GuiInv'
<1>1. Channels BY DEF TakeRun, Channels, GuiInv, TypeOK
<1>2. cmdDone' = cmdDone /\ runDone' = None /\ deviceDone' = deviceDone BY DEF TakeRun
<1>3. CASE runDone \in st.starting
  <2> DEFINE s1 == [S EXCEPT !.st.starting = @ \ {runDone}]
             s2 == Begin(s1, "split")
  <2>1. Becomes(s2) BY <1>3 DEF TakeRun
  <2>2. Good(s1, cmdDone, None, deviceDone) BY InvGood, StartedGood
  <2>3. Steady(S, s1) BY InvGood, PairTyped DEF Steady, State
  <2> HIDE DEF s1
  <2>4. Good(s2, cmdDone, None, deviceDone) BY <2>2, BeginGood DEF Loaders
  <2>5. Steady(s1, s2) BY <2>2, BeginSteady DEF Good
  <2> HIDE DEF s2
  <2>6. Row(s2, orphaned') BY <2>3, <2>5, SteadyTrans, SteadyRow DEF TakeRun
  <2> QED BY <1>1, <1>2, <2>1, <2>4, <2>6, GoodInv
<1>4. CASE runDone \notin st.starting
  <2>1. Becomes(S) BY <1>4 DEF TakeRun
  <2>2. Good(S, cmdDone, runDone, deviceDone) /\ S.st = st BY InvGood DEF S
  <2>3. Good(S, cmdDone, None, deviceDone) BY <1>4, <2>2 DEF Good, Work
  <2>4. Row(S, orphaned') BY SameSteady, SteadyRow DEF TakeRun
  <2> QED BY <1>1, <1>2, <2>1, <2>3, <2>4, GoodInv
<1> QED BY <1>3, <1>4

LEMMA TakePollInv ==
    ASSUME GuiInv, NEW up \in BOOLEAN, NEW view \in BOOLEAN, TakePoll(up, view)
    PROVE  GuiInv'
<1> DEFINE s1 == [S EXCEPT !.st.up = up]
           s2 == IF view THEN Begin(s1, "split") ELSE s1
<1>1. Channels BY SpendNat DEF TakePoll, Channels, GuiInv, TypeOK
<1>2. Becomes(s2) /\ cmdDone' = cmdDone /\ runDone' = runDone /\ deviceDone' = deviceDone
  BY DEF TakePoll
<1>3. Good(s1, cmdDone, runDone, deviceDone) BY InvGood, FlagsGood
<1>4. Steady(S, s1) BY InvGood, PairTyped DEF Steady, State
<1> HIDE DEF s1
<1>5. Good(s2, cmdDone, runDone, deviceDone) BY <1>3, BeginGood DEF Loaders
<1>6. Steady(s1, s2) BY <1>3, BeginSteady, SameSteady DEF Good
<1> HIDE DEF s2
<1>7. Row(s2, orphaned') BY <1>4, <1>6, SteadyTrans, SteadyRow DEF TakePoll
<1> QED BY <1>1, <1>2, <1>5, <1>7, GoodInv

LEMMA OpenWindowInv ==
    ASSUME GuiInv, OpenWindow
    PROVE  GuiInv'
<1> DEFINE s1 == IF st.relays THEN S ELSE Begin(S, "relay")
<1>1. Channels BY DEF OpenWindow, Channels, GuiInv, TypeOK
<1>2. Becomes(s1) /\ cmdDone' = cmdDone /\ runDone' = runDone /\ deviceDone' = deviceDone
  BY DEF OpenWindow
<1>3. Good(s1, cmdDone, runDone, deviceDone) BY InvGood, BeginGood DEF Loaders
<1>4. Steady(S, s1) BY InvGood, BeginSteady, SameSteady
<1> HIDE DEF s1
<1>5. Row(s1, orphaned') BY <1>4, SteadyRow DEF OpenWindow
<1> QED BY <1>1, <1>2, <1>3, <1>5, GoodInv

LEMMA CloseWindowInv ==
    ASSUME GuiInv, CloseWindow
    PROVE  GuiInv'
<1>1. Channels BY SpendNat DEF CloseWindow, Closed, Channels, GuiInv, TypeOK
<1>2. cmdDone' = cmdDone /\ runDone' = runDone /\ deviceDone' = deviceDone /\ go' = go
  BY DEF CloseWindow
<1>3. CASE win' = "hidden"
  <2> DEFINE no == FALSE
             s1 == [S EXCEPT !.st.hide = no]
  <2>1. st' = [st EXCEPT !.hide = no] BY <1>3 DEF CloseWindow
  <2>2. no \in BOOLEAN OBVIOUS
  <2> HIDE DEF no
  <2>3. Good(s1, cmdDone, runDone, deviceDone) BY <2>2, InvGood, FlagsGood
  <2>4. Becomes(s1) BY <1>2, <2>1 DEF Becomes, S
  <2>5. Steady(S, s1) BY InvGood, PairTyped DEF Steady, State
  <2> HIDE DEF s1
  <2>6. Row(s1, orphaned') BY <2>5, SteadyRow DEF CloseWindow
  <2> QED BY <1>1, <1>2, <2>3, <2>4, <2>6, GoodInv
<1>4. CASE win' # "hidden"
  <2>1. Becomes(S) BY <1>2, <1>4 DEF CloseWindow, Becomes, S
  <2>2. Row(S, orphaned') BY SameSteady, SteadyRow DEF CloseWindow
  <2> QED BY <1>1, <1>2, <2>1, <2>2, InvGood, GoodInv
<1> QED BY <1>3, <1>4

LEMMA TakeTrayInv ==
    ASSUME GuiInv, NEW c \in TrayCmds, NEW valid, TakeTray(c, valid)
    PROVE  GuiInv'
<1>1. Channels
  BY SpendNat DEF TakeTray, TrayCmds, Channels, GuiInv, TypeOK
<1>2. cmdDone' = cmdDone /\ runDone' = runDone /\ deviceDone' = deviceDone
  BY DEF TakeTray
<1>3. Good(S, cmdDone, runDone, deviceDone) /\ S \in Pairs BY InvGood
<1>8. (orphaned' <=> orphaned) BY DEF TakeTray
<1>4. CASE c = "favorite"
  <2>1. Becomes(StartConnect(S, valid)) BY <1>4 DEF TakeTray
  <2>2. Good(StartConnect(S, valid), cmdDone, runDone, deviceDone)
    BY <1>3, StartConnectGood
  <2>3. Row(StartConnect(S, valid), orphaned')
    BY <1>3, <1>8, StartConnectSteady, SteadyRow
  <2> QED BY <1>1, <1>2, <2>1, <2>2, <2>3, GoodInv
<1>5. CASE c \in {"disconnect", "reconnect"}
  <2>1. c \in Verbs BY <1>5 DEF Verbs
  <2>2. Becomes(Start(S, c)) BY <1>5 DEF TakeTray
  <2>3. Good(Start(S, c), cmdDone, runDone, deviceDone) BY <1>3, <2>1, StartGood
  <2>4. Row(Start(S, c), orphaned') BY <1>3, <1>8, StartSteady, SteadyRow
  <2> QED BY <1>1, <1>2, <2>2, <2>3, <2>4, GoodInv
<1>6. CASE c = "hide" /\ win = "run"
  <2> DEFINE s1 == [S EXCEPT !.st.hide = TRUE]
  <2>1. Becomes(s1) BY <1>6 DEF TakeTray
  <2>2. Good(s1, cmdDone, runDone, deviceDone) BY <1>3, FixedGood
  <2>3. Steady(S, s1) BY <1>3, PairTyped DEF Steady, State
  <2> HIDE DEF s1
  <2>4. Row(s1, orphaned') BY <1>8, <2>3, SteadyRow
  <2> QED BY <1>1, <1>2, <2>1, <2>2, <2>4, GoodInv
<1>7. CASE /\ c \notin {"favorite", "disconnect", "reconnect"}
           /\ ~(c = "hide" /\ win = "run")
  <2>1. Becomes(S) BY <1>7 DEF TakeTray
  <2>2. Row(S, orphaned') BY <1>8, SameSteady, SteadyRow
  <2> QED BY <1>1, <1>2, <1>3, <2>1, <2>2, GoodInv
<1> QED BY <1>4, <1>5, <1>6, <1>7

-----------------------------------------------------------------------------
(* The goroutines *)

LEMMA VerbReportsInv ==
    ASSUME GuiInv, NEW v \in go.verbs, VerbReports(v)
    PROVE  GuiInv'
<1>1. /\ go \in Goroutine /\ st \in State /\ st' = st /\ cmdDone = None /\ cmdDone' = v
      /\ None \notin Verbs
  BY GuiAssumption DEF GuiInv, TypeOK, VerbReports
<1>2. /\ go' \in Goroutine /\ go'.verbs = go.verbs \ {v} /\ go'.load = go.load
      /\ go'.removals = go.removals /\ go'.runs = go.runs /\ v \in Verbs
  BY <1>1 DEF VerbReports, Goroutine
<1>3. TypeOK' BY <1>1, <1>2 DEF GuiInv, TypeOK, VerbReports
<1>4. SingleFlight'
  BY <1>1, <1>2 DEF GuiInv, SingleFlight, Waiting
<1>5. BusyHasWork' BY <1>1, <1>2 DEF GuiInv, BusyHasWork, VerbReports
<1> QED BY <1>3, <1>4, <1>5 DEF GuiInv

LEMMA OpenerReportsInv ==
    ASSUME GuiInv, OpenerReports
    PROVE  GuiInv'
<1>1. /\ go \in Goroutine /\ st' = st /\ cmdDone = None /\ cmdDone' = "open"
      /\ None \notin Verbs /\ "open" \notin Verbs
  BY GuiAssumption DEF GuiInv, TypeOK, OpenerReports, Verbs, SplitVerbs
<1>2. /\ go' \in Goroutine /\ go'.verbs = go.verbs /\ go'.load = go.load
      /\ go'.removals = go.removals /\ go'.runs = go.runs
  BY <1>1 DEF OpenerReports, Goroutine
<1>3. TypeOK' BY <1>1, <1>2 DEF GuiInv, TypeOK, OpenerReports
<1>4. SingleFlight' BY <1>1, <1>2 DEF GuiInv, SingleFlight, Waiting
<1>5. BusyHasWork' BY <1>1, <1>2 DEF GuiInv, BusyHasWork, OpenerReports
<1> QED BY <1>3, <1>4, <1>5 DEF GuiInv

LEMMA LoadInv ==
    ASSUME GuiInv, NEW l \in Loaders, Load(l)
    PROVE  GuiInv'
<1>1. go \in Goroutine /\ st' = st /\ cmdDone' = cmdDone
  BY DEF GuiInv, TypeOK, Load
<1>2. /\ go' \in Goroutine /\ go'.verbs = go.verbs
      /\ go'.load = [go.load EXCEPT ![l] = "done"]
      /\ go'.removals = go.removals /\ go'.runs = go.runs
  BY <1>1 DEF Load, Goroutine
<1>3. go.load \in [Loaders -> {"idle", "begun", "done"}] /\ go.load[l] = "begun"
  BY <1>1 DEF Load, Goroutine
<1>4. TypeOK' BY <1>1, <1>2 DEF GuiInv, TypeOK, Load
<1>5. SingleFlight' BY <1>1, <1>2 DEF GuiInv, SingleFlight, Waiting
<1>6. BusyHasWork' BY <1>1, <1>2, <1>3 DEF GuiInv, BusyHasWork, Load
<1> QED BY <1>4, <1>5, <1>6 DEF GuiInv

LEMMA DeviceReportsInv ==
    ASSUME GuiInv, DeviceReports
    PROVE  GuiInv'
<1>1. go \in Goroutine /\ st' = st /\ cmdDone' = cmdDone /\ deviceDone'
  BY DEF GuiInv, TypeOK, DeviceReports
<1>2. /\ go' \in Goroutine /\ go'.verbs = go.verbs /\ go'.load = go.load
      /\ go'.runs = go.runs
  BY <1>1 DEF DeviceReports, Goroutine
<1>3. TypeOK' BY <1>1, <1>2 DEF GuiInv, TypeOK, DeviceReports
<1>4. SingleFlight' BY <1>1, <1>2 DEF GuiInv, SingleFlight, Waiting
<1>5. BusyHasWork' BY <1>1, <1>2 DEF GuiInv, BusyHasWork, DeviceReports
<1> QED BY <1>3, <1>4, <1>5 DEF GuiInv

LEMMA RunReportsInv ==
    ASSUME GuiInv, NEW r \in go.runs, NEW lives \in BOOLEAN, RunReports(r, lives)
    PROVE  GuiInv'
<1> DEFINE live == [r EXCEPT !.stage = "live"]
           Run == [app : Apps, n : Nat, stage : {"starting", "live"}]
<1>1. go \in Goroutine /\ st \in State /\ st' = st /\ cmdDone' = cmdDone
      /\ runDone = None /\ runDone' = r.app
  BY DEF GuiInv, TypeOK, RunReports
<1>2. go.runs \in SUBSET Run BY <1>1 DEF Goroutine
<1>3. live \in Run /\ r.app \in Apps BY <1>2
<1>4. go' = [go EXCEPT !.runs = (@ \ {r}) \cup (IF lives THEN {live} ELSE {})]
  BY DEF RunReports
<1> HIDE DEF live
<1>5. /\ go' \in Goroutine /\ go'.verbs = go.verbs /\ go'.load = go.load
      /\ go'.removals = go.removals /\ go.runs \ {r} \subseteq go'.runs
  BY <1>1, <1>2, <1>3, <1>4 DEF Goroutine
<1>6. TypeOK' BY <1>1, <1>3, <1>5 DEF GuiInv, TypeOK, RunReports
<1>7. SingleFlight' BY <1>1, <1>5 DEF GuiInv, SingleFlight, Waiting
<1>8. BusyHasWork'
  <2>1. ASSUME NEW a \in st.starting
        PROVE  runDone' = a \/ \E x \in go'.runs : x.app = a /\ x.stage = "starting"
    <3>1. a # None BY <1>1, GuiAssumption DEF State
    <3>2. PICK x \in go.runs : x.app = a /\ x.stage = "starting"
      BY <1>1, <3>1 DEF GuiInv, BusyHasWork
    <3> QED BY <1>1, <1>5, <3>2
  <2> QED BY <1>1, <1>5, <2>1 DEF GuiInv, BusyHasWork, RunReports
<1> QED BY <1>6, <1>7, <1>8 DEF GuiInv

-----------------------------------------------------------------------------

LEMMA InitInv == Init => GuiInv
<1> SUFFICES ASSUME Init PROVE GuiInv OBVIOUS
<1>1. PICK cred \in BOOLEAN :
         st = [running |-> None, up |-> FALSE, cred |-> cred,
               toTray |-> TRUE, hide |-> FALSE,
               relays |-> FALSE, devices |-> FALSE, atCap |-> FALSE,
               rmQueue |-> <<>>, addQueue |-> <<>>, removing |-> None,
               busy |-> {}, device |-> FALSE, starting |-> {}]
  BY DEF Init
<1>2. /\ st \in State /\ st.running = None /\ st.busy = {} /\ st.starting = {}
      /\ ~st.device /\ st.removing = None
  <2> DEFINE no == FALSE
             yes == TRUE
  <2>1. no \in BOOLEAN /\ yes \in BOOLEAN /\ ~no OBVIOUS
  <2>2. st = [running |-> None, up |-> no, cred |-> cred,
              toTray |-> yes, hide |-> no,
              relays |-> no, devices |-> no, atCap |-> no,
              rmQueue |-> <<>>, addQueue |-> <<>>, removing |-> None,
              busy |-> {}, device |-> no, starting |-> {}]
    BY <1>1, Zenon
  <2> HIDE DEF no, yes
  <2> QED BY <2>1, <2>2 DEF State
<1>3. /\ go = [verbs |-> {}, openers |-> 0, load |-> [l \in Loaders |-> "idle"],
               removals |-> 0, runs |-> {}]
      /\ cmdDone = None /\ runDone = None /\ deviceDone = FALSE /\ budget = Budget
      /\ orphaned = FALSE
      /\ tray \in BOOLEAN /\ win \in {"opening"} \cup (IF tray THEN {"hidden"} ELSE {})
  BY DEF Init
<1>4. /\ go \in Goroutine /\ go.verbs = {} /\ go.load = [l \in Loaders |-> "idle"]
  BY <1>3 DEF Goroutine
<1>5. TypeOK BY <1>2, <1>3, <1>4, GuiAssumption DEF TypeOK
<1>6. SingleFlight
  BY <1>2, <1>3, <1>4, GuiAssumption DEF SingleFlight, Waiting
<1>7. BusyHasWork BY <1>2, <1>4 DEF BusyHasWork
<1> QED BY <1>5, <1>6, <1>7 DEF GuiInv

LEMMA NextInv == GuiInv /\ [Next]_vars => GuiInv'
<1> SUFFICES ASSUME GuiInv, [Next]_vars PROVE GuiInv' OBVIOUS
<1>1. CASE Loop
  <2>1. CASE OpenWindow BY <2>1, OpenWindowInv
  <2>2. CASE \E end \in Ends, cred \in BOOLEAN : TakeCmd(end, cred) BY <2>2, TakeCmdInv
  <2>3. CASE \E cred \in BOOLEAN, l \in Loaders, ok \in BOOLEAN : TakeLoad(l, ok, cred)
    BY <2>3, TakeLoadInv
  <2>4. CASE TakeCmdHidden BY <2>4, TakeCmdHiddenInv
  <2>5. CASE \E ok \in BOOLEAN : TakeDevice(ok) BY <2>5, TakeDeviceInv
  <2>6. CASE TakeRun BY <2>6, TakeRunInv
  <2>7. CASE \E up, view \in BOOLEAN : TakePoll(up, view) BY <2>7, TakePollInv
  <2>8. CASE \E c \in TrayCmds \cap Uses, valid \in BOOLEAN : TakeTray(c, valid)
    BY <2>8, TakeTrayInv
  <2>9. CASE \E c \in Clicks \cup {NoClick}, valid \in BOOLEAN : Frame(c, valid)
    BY <2>9, FrameInv
  <2>10. CASE CloseWindow BY <2>10, CloseWindowInv
  <2> QED
    BY <1>1, <2>1, <2>2, <2>3, <2>4, <2>5, <2>6, <2>7, <2>8, <2>9, <2>10, Zenon DEF Loop
<1>2. CASE Goroutines
  <2>1. CASE \E v \in go.verbs : VerbReports(v) BY <2>1, VerbReportsInv
  <2>2. CASE OpenerReports BY <2>2, OpenerReportsInv
  <2>3. CASE \E l \in Loaders : Load(l) BY <2>3, LoadInv
  <2>4. CASE DeviceReports BY <2>4, DeviceReportsInv
  <2>5. CASE \E r \in go.runs, lives \in BOOLEAN : RunReports(r, lives)
    BY <2>5, RunReportsInv
  <2> QED BY <1>2, <2>1, <2>2, <2>3, <2>4, <2>5 DEF Goroutines
<1>3. CASE UNCHANGED vars
  BY <1>3 DEF GuiInv, TypeOK, SingleFlight, Waiting, BusyHasWork, vars
<1> QED BY <1>1, <1>2, <1>3 DEF Next

\* The state struct, the goroutines and the channels stay well typed, and the
\* program never runs without a window and without an icon (run, main).
THEOREM GuiTyped == Spec => []TypeOK
<1>1. GuiInv => TypeOK BY DEF GuiInv
<1> QED BY <1>1, InitInv, NextInv, PTL DEF Spec

\* At most one mvad verb of this program is under way and running says which
\* (runCmd, runUserCmd, the queues and cmdDone in run and in main's loop).
THEOREM OneVerb == Spec => []SingleFlight
<1>1. GuiInv => SingleFlight BY DEF GuiInv
<1> QED BY <1>1, InitInv, NextInv, PTL DEF Spec

\* A disabled control has a goroutine at work or a result waiting behind it
\* (relayLoading, acctRefreshing, splitLoading, deviceRemoving, runStarting,
\* splitRemoving), but for the row whose removal was over without a window
\* (orphaned: the loop of main takes the result and keeps splitRemoving).
THEOREM DisabledIsBusy == Spec => []BusyHasWork
<1>1. GuiInv => BusyHasWork BY DEF GuiInv
<1> QED BY <1>1, InitInv, NextInv, PTL DEF Spec
=============================================================================
