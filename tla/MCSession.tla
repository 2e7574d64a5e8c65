----------------------------- MODULE MCSession ------------------------------
(* Instances of Session for TLC: option sets and fault budgets.            *)
EXTENDS Session

CONSTANTS r1, r2

Opt(r, s, sh, l) == [relay |-> r, split |-> s, shim |-> sh, lan |-> l]

\* Both modes on one relay, a shim and LAN access on the other.
ThreeOptions == {Opt(r1, TRUE, FALSE, FALSE), Opt(r1, FALSE, FALSE, FALSE),
                 Opt(r2, FALSE, TRUE, TRUE)}

\* Split mode over a shim transport.
SplitShimOptions == {Opt(r1, TRUE, sh, FALSE) : sh \in BOOLEAN}

Faulty(crash, fail, loss, reboot) ==
    [k \in Faults |-> CASE k = "crash"  -> crash
                        [] k = "fail"   -> fail
                        [] k = "loss"   -> loss
                        [] k = "reboot" -> reboot]

Everything == Faulty(2, 1, 1, 1)
OneFailure == Faulty(0, 1, 0, 0)
=============================================================================
