------------------------------- MODULE UpWatch -------------------------------
(***************************************************************************)
(* `mvad up` on Linux: the loop that rebuilds the tunnel when the default  *)
(* route changes.  Three threads of control: the loop, the goroutine that  *)
(* reads netlink and queues events, and retry timers; around them the      *)
(* kernel, the network, signals and a failover timer's `mvad reconnect`,   *)
(* which is another process.                                               *)
(*                                                                         *)
(* A doConnect or doDisconnect is one step here (module Session has their  *)
(* commands); the loop runs the two of a rebuild under one hold of the     *)
(* transition lock (module RootLock), and the failover does the same.      *)
(* A network is a number; what counts is which one a tunnel was pinned to. *)
(* A netlink message is the interface it names: Phys for the host's own,   *)
(* an incarnation of mvad-wg0 otherwise.  Interface indices are renamed: a *)
(* new link takes the least number nothing refers to.                      *)
(***************************************************************************)
EXTENDS Integers, Sequences, FiniteSets

CONSTANTS
    EventCap,     \* capacity of the events channel (16 in the code)
    SockCap,      \* messages the netlink socket buffers before ENOBUFS
    MaxChanges,   \* bound: default route changes
    MaxFails,     \* bound: doConnects that fail
    MaxFailover,  \* bound: rebuilds by another invocation
    MaxSignals    \* 1: SIGINT or SIGTERM may come

ASSUME UpAssumption ==
    /\ {EventCap, SockCap} \subseteq Nat \ {0}
    /\ {MaxChanges, MaxFails, MaxFailover, MaxSignals} \subseteq Nat

VARIABLES
    net,      \* the network of the host's default route
    tun,      \* [idx: index of mvad-wg0, 0 for no link; on: its network]
    sock,     \* netlink messages not yet received
    over,     \* the socket has dropped messages and not yet said so
    reader,   \* run: "recv", or "send" with an event to queue
    events,   \* events in the channel
    self,     \* routeWatcher.self
    timers,   \* retry timers set and not fired
    sig,      \* a signal waits in sigCh
    pc,       \* where up is
    other,    \* another invocation redials and has the transition lock
    left,     \* what the environment may still do
    blind     \* history: up could not act on the last change

vars == <<net, tun, sock, over, reader, events, self, timers, sig, pc,
          other, left, blind>>

Kinds == {"change", "fail", "failover", "signal"}

Phys == 0

NoLink == 0

Indices == 1..(SockCap + 4)

TypeOK ==
    /\ net \in 0..MaxChanges
    /\ tun \in [idx : Indices \cup {NoLink}, on : 0..MaxChanges]
    /\ sock \in Seq(Indices \cup {Phys}) /\ Len(sock) <= SockCap
    /\ over \in BOOLEAN
    /\ reader \in {"recv", "send"}
    /\ events \in 0..EventCap
    /\ self \in Indices \cup {NoLink}
    /\ timers \in 0..(MaxFails + MaxFailover)
    /\ sig \in BOOLEAN
    /\ pc \in {"connect", "join", "wait", "quiet", "check", "down", "dial",
               "refresh", "drain", "stop", "done"}
    /\ other \in BOOLEAN
    /\ left \in [Kinds -> Nat]
    /\ blind \in BOOLEAN

Init ==
    /\ net = 0
    /\ tun = [idx |-> NoLink, on |-> 0]
    /\ sock = <<>> /\ over = FALSE
    /\ reader = "recv" /\ events = 0 /\ self = NoLink /\ timers = 0
    /\ sig = FALSE
    /\ pc = "connect"
    /\ other = FALSE /\ blind = FALSE
    /\ left = [k \in Kinds |-> CASE k = "change"   -> MaxChanges
                                 [] k = "fail"     -> MaxFails
                                 [] k = "failover" -> MaxFailover
                                 [] k = "signal"   -> MaxSignals]

Smaller(m, n) == IF m < n THEN m ELSE n

Spend(k) == left[k] > 0 /\ left' = [left EXCEPT ![k] = @ - 1]

\* The kernel tells the socket about the interfaces is, once it has
\* subscribed; what does not fit any more is lost.
Notify(is) ==
    IF pc \in {"connect", "join", "stop", "done"}
      THEN UNCHANGED <<sock, over>>
      ELSE LET all == sock \o is
           IN  /\ sock' = SubSeq(all, 1, Smaller(SockCap, Len(all)))
               /\ over' = (over \/ Len(all) > SockCap)

\* The non-blocking send of an event.
Queued == IF events < EventCap THEN events + 1 ELSE events

NewIndex ==
    LET used == {sock[k] : k \in 1..Len(sock)} \cup {tun.idx, self}
    IN  CHOOSE i \in Indices : i \notin used
                               /\ \A j \in Indices : j \notin used => i <= j

\* The news that the link goes, when there is one.
Gone == IF tun.idx = NoLink THEN <<>> ELSE <<tun.idx>>

\* A doDisconnect that removes the link.
Removed == tun' = [tun EXCEPT !.idx = NoLink] /\ Notify(Gone)

\* doConnect over the current network, by whichever process.  It disconnects
\* first when it finds a link.
Dialled == tun' = [idx |-> NewIndex, on |-> net]
           /\ Notify(Gone \o <<NewIndex>>)

\* A rebuild that leaves the old link: up takes it for the new one.
Kept == blind' = (blind \/ (tun.idx # NoLink /\ tun.on # net))

-----------------------------------------------------------------------------
(* The loop.                                                               *)

\* The first doConnect, before the watcher exists.
FirstConnect ==
    /\ pc = "connect" /\ ~other
    /\ \/ Dialled /\ pc' = "join" /\ UNCHANGED left
       \/ Spend("fail") /\ pc' = "done" /\ UNCHANGED <<tun, sock, over>>
    /\ UNCHANGED <<blind, other, net, reader, events, self, timers, sig>>

\* newRouteWatcher: subscribe, adopt the index, start the reader.  When it
\* fails up tears the tunnel down.
Join ==
    /\ pc = "join"
    /\ \/ /\ tun.idx # NoLink
          /\ self' = tun.idx /\ pc' = "wait" /\ UNCHANGED <<left, timers>>
       \/ /\ tun.idx = NoLink
          /\ timers' = timers + 1 /\ pc' = "wait" /\ UNCHANGED <<left, self>>
       \/ Spend("fail") /\ pc' = "stop" /\ UNCHANGED <<self, timers>>
    /\ UNCHANGED <<blind, other, net, tun, sock, over, reader, events, sig>>

\* Either select takes the signal.
TakeSignal ==
    /\ pc \in {"wait", "quiet"}
    /\ sig
    /\ sig' = FALSE
    /\ pc' = "stop"
    /\ UNCHANGED <<blind, other, net, tun, sock, over, reader, events, self,
                   timers, left>>

\* The loop's select or drainQuiet's takes an event.
TakeEvent ==
    /\ pc \in {"wait", "quiet"}
    /\ events > 0
    /\ events' = events - 1
    /\ pc' = "quiet"
    /\ UNCHANGED <<blind, other, net, tun, sock, over, reader, self, timers,
                   sig, left>>

\* No event for two seconds.
Quiet ==
    /\ pc = "quiet"
    /\ pc' = "check"
    /\ UNCHANGED <<blind, other, net, tun, sock, over, reader, events, self,
                   timers, sig, left>>

\* Another invocation has rebuilt the tunnel, or up has to.
Check ==
    /\ pc = "check"
    /\ pc' = IF tun.idx # NoLink /\ tun.idx # self THEN "refresh" ELSE "down"
    /\ UNCHANGED <<blind, other, net, tun, sock, over, reader, events, self,
                   timers, sig, left>>

\* doDisconnect of a rebuild.  Its error is dropped, and it may leave the
\* link.  Without the transition lock neither half of the rebuild runs.
Down ==
    /\ pc = "down"
    /\ \/ ~other /\ Removed /\ pc' = "dial" /\ UNCHANGED <<left, blind>>
       \/ /\ ~other /\ tun.idx # NoLink /\ Spend("fail")
          /\ pc' = "dial" /\ UNCHANGED <<tun, sock, over, blind>>
       \/ /\ Spend("fail") /\ Kept
          /\ pc' = "refresh" /\ UNCHANGED <<tun, sock, over>>
    /\ UNCHANGED <<other, net, reader, events, self, timers, sig>>

\* doConnect of a rebuild; its error is dropped.  When a link is still there
\* it fails before or after removing it.
Dial ==
    /\ pc = "dial"
    /\ \/ Dialled /\ UNCHANGED <<left, blind>>
       \/ Spend("fail") /\ Removed /\ UNCHANGED blind
       \/ Spend("fail") /\ Kept /\ UNCHANGED <<tun, sock, over>>
    /\ pc' = "refresh"
    /\ UNCHANGED <<other, net, reader, events, self, timers, sig>>

\* Mutant: a failed rebuild waits for the next route change.
RefreshNoRetry ==
    /\ pc = "refresh"
    /\ IF tun.idx = NoLink
         THEN pc' = "wait" /\ UNCHANGED self
         ELSE pc' = "drain" /\ self' = tun.idx
    /\ UNCHANGED <<blind, other, net, tun, sock, over, reader, events, timers,
                   sig, left>>

\* refresh: without a link, a timer; with one, its index, then the drain.
Refresh ==
    /\ pc = "refresh"
    /\ IF tun.idx = NoLink
         THEN timers' = timers + 1 /\ pc' = "wait" /\ UNCHANGED self
         ELSE self' = tun.idx /\ pc' = "drain" /\ UNCHANGED timers
    /\ UNCHANGED <<blind, other, net, tun, sock, over, reader, events, sig,
                   left>>

\* Mutant: a drain that waits for events.
DrainBlocking ==
    /\ pc = "drain"
    /\ events > 0
    /\ events' = events - 1
    /\ UNCHANGED <<blind, other, net, tun, sock, over, reader, self, timers,
                   sig, left, pc>>

\* The drain of refresh: what is queued, genuine or not, is dropped.
Drain ==
    /\ pc = "drain"
    /\ IF events > 0
         THEN events' = events - 1 /\ UNCHANGED pc
         ELSE pc' = "wait" /\ UNCHANGED events
    /\ UNCHANGED <<blind, other, net, tun, sock, over, reader, self, timers,
                   sig, left>>

\* doDisconnect on the way out, which may leave the link; up returns.
Stop ==
    /\ pc = "stop"
    /\ \/ ~other /\ tun' = [tun EXCEPT !.idx = NoLink] /\ UNCHANGED left
       \/ Spend("fail") /\ UNCHANGED tun
    /\ pc' = "done"
    /\ UNCHANGED <<blind, other, net, sock, over, reader, events, self, timers,
                   sig>>

Loop == FirstConnect \/ Join \/ TakeSignal \/ TakeEvent \/ Quiet \/ Check
        \/ Down \/ Dial \/ Refresh \/ Drain \/ Stop

-----------------------------------------------------------------------------
(* The reader and the timers.                                              *)

\* interesting: not about the tunnel itself, as far as self says so now.
Interesting(i) == i # self

Running == pc \notin {"connect", "join", "done"}

\* Mutant: an overflow is not an event.
ReceiveNoOverflow ==
    /\ Running /\ reader = "recv"
    /\ \/ /\ over
          /\ over' = FALSE
          /\ UNCHANGED <<sock, reader>>
       \/ /\ ~over /\ sock # <<>>
          /\ sock' = Tail(sock)
          /\ reader' = IF Interesting(Head(sock)) THEN "send" ELSE "recv"
          /\ UNCHANGED over
    /\ UNCHANGED <<blind, other, net, tun, events, self, timers, sig, pc,
                   left>>

\* run: ENOBUFS, or a message.
Receive ==
    /\ Running /\ reader = "recv"
    /\ \/ /\ over
          /\ over' = FALSE
          /\ reader' = "send"
          /\ UNCHANGED sock
       \/ /\ ~over /\ sock # <<>>
          /\ sock' = Tail(sock)
          /\ reader' = IF Interesting(Head(sock)) THEN "send" ELSE "recv"
          /\ UNCHANGED over
    /\ UNCHANGED <<blind, other, net, tun, events, self, timers, sig, pc,
                   left>>

Send ==
    /\ Running /\ reader = "send"
    /\ events' = Queued
    /\ reader' = "recv"
    /\ UNCHANGED <<blind, other, net, tun, sock, over, self, timers, sig, pc,
                   left>>

TimerFires ==
    /\ Running /\ timers > 0
    /\ timers' = timers - 1
    /\ events' = Queued
    /\ UNCHANGED <<blind, other, net, tun, sock, over, reader, self, sig, pc,
                   left>>

-----------------------------------------------------------------------------
(* The environment.                                                        *)

\* The window in which a change goes unnoticed: the tunnel was dialled over
\* the old network, and the event is dropped (the drain of refresh), not yet
\* subscribed to (newRouteWatcher), or taken for the news of a tunnel that
\* another invocation has just built (the check of the loop).
Window == pc \in {"join", "refresh", "drain"}
          \/ (tun.idx # NoLink /\ tun.idx # self)

RouteChange ==
    /\ Spend("change")
    /\ net' = net + 1
    /\ Notify(<<Phys>>)
    /\ blind' = Window
    /\ UNCHANGED <<other, tun, reader, events, self, timers, sig, pc>>

\* Another process redials with the transition lock: not between the two
\* halves of up's own rebuild.  Its teardown (one that fails and leaves the
\* link ends the redial, and changes nothing here)...
FailoverDown ==
    /\ Spend("failover")
    /\ ~other /\ pc \notin {"connect", "dial", "done"}
    /\ other' = TRUE
    /\ Removed
    /\ UNCHANGED <<blind, net, reader, events, self, timers, sig, pc>>

\* ...and its doConnect, which may fail.
FailoverDial ==
    /\ other
    /\ other' = FALSE
    /\ \/ Dialled /\ UNCHANGED left
       \/ Spend("fail") /\ UNCHANGED <<tun, sock, over>>
    /\ UNCHANGED <<blind, net, reader, events, self, timers, sig, pc>>

Signal ==
    /\ Spend("signal")
    /\ pc # "done"
    /\ sig' = TRUE
    /\ UNCHANGED <<blind, other, net, tun, sock, over, reader, events, self,
                   timers, pc>>

Next == Loop \/ Receive \/ Send \/ TimerFires
        \/ RouteChange \/ FailoverDown \/ FailoverDial \/ Signal

\* The scheduler runs the loop and the reader, timers fire, the quiet period
\* ends; a select that finds the signal ready again and again takes it in
\* the end, because Go chooses among ready cases at random.
Fairness == /\ WF_vars(Loop)
            /\ SF_vars(TakeSignal)
            /\ WF_vars(Receive)
            /\ WF_vars(Send)
            /\ WF_vars(TimerFires)
            /\ WF_vars(FailoverDial)

Spec == Init /\ [][Next]_vars /\ Fairness
-----------------------------------------------------------------------------
(* Properties.                                                             *)

\* The README's word: once the network stays as it is, the last tunnel up
\* has dialled runs over it, unless up has returned.
RebuildsOnChange == <>[](pc = "done" \/ tun.on = net)

\* It is so unless the last change fell into the window, or a rebuild since
\* then left the old link behind (Kept: both its teardowns failed, or it did
\* not get the lock; refresh sees a link and sets no timer): through a full
\* event channel, an overflown socket, failed redials, failovers by another
\* process and an earlier change that was missed.
FollowsRoute == <>[](pc = "done" \/ tun.on = net \/ blind)

\* A redial that fails is tried again until one succeeds, whether or not
\* the route ever changes (refresh and retryDelay).
RedialRetried ==
    (pc = "refresh" /\ tun.idx = NoLink) ~> (tun.idx # NoLink \/ pc = "done")

\* A signal makes up tear down and return, even amid rebuilds and retries.
StopsOnSignal == sig ~> pc = "done"
=============================================================================
