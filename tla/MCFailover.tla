----------------------------- MODULE MCFailover -----------------------------
(* Six relays: four that one prefix matches, one of them without multihop  *)
(* port, and two that another does.                                        *)
EXTENDS Failover, TLC

CONSTANTS a, b, c, d, x, y, byName, osaka, malmo

Scopes == (byName :> {a}) @@ (osaka :> {a, b, c, d}) @@ (malmo :> {x, y})

Ask(q, via, split, shimmed) ==
    [query |-> q, via |-> via, split |-> split, shim |-> shimmed]

AllAsks == {Ask(byName, None, TRUE, FALSE), Ask(byName, None, FALSE, TRUE),
            Ask(osaka, malmo, FALSE, FALSE)}

Bounds(user, relay, fault) == [k \in {"user", "relay", "fault"} |->
    CASE k = "user" -> user [] k = "relay" -> relay [] k = "fault" -> fault]

TwoOneOne == Bounds(2, 1, 1)

=============================================================================
