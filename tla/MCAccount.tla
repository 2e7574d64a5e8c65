----------------------------- MODULE MCAccount ------------------------------
(* Fault budgets for Account.                                              *)
EXTENDS Account

Faulty(verbs, faults) == [k \in {"verb", "fault", "refuse"} |->
                             CASE k = "verb"   -> verbs
                               [] k = "fault"  -> faults
                               [] k = "refuse" -> faults]

FourVerbs == Faulty(4, 1)
=============================================================================
