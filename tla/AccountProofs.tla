--------------------------- MODULE AccountProofs ----------------------------
(* Proofs about module Account.                                            *)
EXTENDS Account, TLAPS

-----------------------------------------------------------------------------
(* The inductive invariant *)

\* Where a verb may be.
Stages(verb) ==
    {pc \in {"idle", "create", "expiry", "list", "cap", "register",
             "save", "undo", "revoke", "revokeOld", "fetch", "up"} :
        \/ pc = "idle"      /\ verb = "none"
        \/ pc = "create"    /\ verb = "signup"
        \/ pc = "expiry"    /\ verb \in {"login", "import", "refresh"}
        \/ pc = "list"      /\ verb \in {"import", "refresh"}
        \/ pc = "cap"       /\ verb = "login"
        \/ pc = "register"  /\ verb \in {"login", "rotate"}
        \/ pc = "save"      /\ verb \notin {"remove", "none"}
        \/ pc = "undo"      /\ verb \in {"login", "rotate"}
        \/ pc = "revoke"    /\ verb \in {"logout", "remove"}
        \/ pc = "revokeOld" /\ verb = "rotate"
        \/ pc = "fetch"     /\ verb = "relays"
        \/ pc = "up"        /\ verb = "connect"}

\* The invocation has registered a device that is not on disk yet.
Fresh(i) == i.verb \in {"login", "rotate"} /\ i.pc \in {"save", "undo"}

\* The invocation is about to save a device of its own choice.
Carries(i) == i.verb \in {"login", "import", "rotate"} /\ i.pc = "save"

\* The configuration in memory is the one the invocation has loaded.
Loaded(i) ==
    \/ i.verb \in {"refresh", "relays", "connect", "remove"}
    \/ i.pc \in {"create", "expiry", "list", "cap", "register", "revoke"}

\* What a verb's values are, whatever the others do.
Shape(i) ==
    /\ i.pc \in Stages(i.verb)
    /\ i.pc = "idle" => i = Idle
    /\ i.verb \in {"login", "import", "logout", "remove", "rotate", "refresh"}
          => i.acct \in Accounts
    /\ i.verb \in {"logout", "remove"} => i.key \in Dev
    /\ i.verb = "import" => i.key = Foreign
    /\ i.verb = "logout" => i.old = i.key
    /\ i.verb = "rotate" => i.old \in Dev
    /\ i.cfg.dev # None => i.cfg.token # None
    /\ i.verb = "signup" => i.cfg.dev = None /\ i.old = None
    /\ i.verb = "logout" /\ i.pc = "save" => i.cfg.dev = None
    /\ i.verb = "import" /\ i.pc = "save" => i.cfg.dev = Foreign
    /\ Fresh(i) => i.cfg.dev \in Dev \ {Foreign}

\* A device comes with its account, and devices are numbered as they are
\* registered.
Below(d) == d = None \/ d < next

NumberInv ==
    /\ disk.dev # None => disk.token # None
    /\ Below(disk.dev) /\ Below(tun)
    /\ \A p \in Procs : Below(inv[p].cfg.dev) /\ Below(inv[p].old)

\* A device that is not on disk yet is known to the verb that registered it
\* and to no other.
FreshInv ==
    \A p \in Procs : Fresh(inv[p]) =>
        /\ inv[p].cfg.dev # disk.dev /\ inv[p].cfg.dev # tun
        /\ \A q \in Procs : /\ inv[q].old # inv[p].cfg.dev
                            /\ q # p => inv[q].cfg.dev # inv[p].cfg.dev

\* While the file is the one that was loaded.
CurrentInv ==
    \A p \in Procs : inv[p].pc \notin {"idle", "revokeOld"} /\ ~inv[p].stale =>
        /\ inv[p].old = disk.dev
        /\ Loaded(inv[p]) => inv[p].cfg = disk

\* rotate-key revokes a device that no longer is the one on disk, and that
\* no save brings back, unless an import of it began in between.
OldInv ==
    \A p \in Procs : inv[p].pc = "revokeOld" /\ inv[p].old \notin excused =>
        /\ inv[p].old # disk.dev
        /\ inv[p].old = Foreign =>
              \A q \in Procs : inv[q].verb = "import" => inv[q].stale

UsableInv ==
    /\ KeyUsable
    /\ \A p \in Procs : Carries(inv[p]) =>
          \/ inv[p].cfg.dev \in excused
          \/ inv[p].cfg.dev \in server[inv[p].cfg.token]

\* Who will save or revoke a device that is registered.
Held(d) ==
    \/ d = disk.dev
    \/ \E p \in Procs : Fresh(inv[p]) /\ inv[p].cfg.dev = d
    \/ \E p \in Procs : inv[p].pc = "revokeOld" /\ inv[p].old = d

HeldInv ==
    \A a \in Accounts : \A d \in server[a] \ ({Foreign} \cup excused) : Held(d)

LogoutInv ==
    \A p \in Procs : inv[p].verb = "logout" /\ inv[p].pc = "save" => inv[p].key \in excused

\* A session with device d, or one that is being set up.
Used(d) == tun = d \/ \E q \in Procs : inv[q].verb = "connect" /\ inv[q].cfg.dev = d

\* rotate-key and logout, and connect.
ExcludeInv ==
    \A p \in Procs : inv[p].verb \in {"rotate", "logout"} =>
        tun = None /\ \A q \in Procs : inv[q].verb # "connect"

\* devices remove, and import.
ImportInv ==
    \A p, q \in Procs : inv[p].verb = "remove" /\ inv[q].verb = "import" =>
        inv[q].key # inv[p].key

\* devices remove of a device that a session uses.
RemoveInv ==
    \A p \in Procs : inv[p].verb = "remove" /\ Used(inv[p].key) => inv[p].key # disk.dev

AccountInv ==
    /\ TypeOK
    /\ \A p \in Procs : Shape(inv[p])
    /\ NumberInv /\ FreshInv /\ CurrentInv /\ LogoutInv
    /\ ~clobber => OldInv /\ UsableInv /\ HeldInv
    /\ ~raced => ExcludeInv /\ ImportInv /\ (~clobber => RemoveInv)

-----------------------------------------------------------------------------
(* Steps of one process that bring in no new device                        *)

\* The process p goes from inv[p] to r; devices may be revoked or registered
\* without the process knowing, and then they are excused, unless one save
\* has undone another.
Quiet(p, r) ==
    /\ inv' = [inv EXCEPT ![p] = r]
    /\ UNCHANGED <<disk, tun, clobber, raced>>
    /\ next' = next \/ (next' = next + 1 /\ next <= MaxDev)
    /\ server' \in [Accounts -> SUBSET Dev]
    /\ \A a \in Accounts : server'[a] \subseteq server[a] \cup excused'
    /\ clobber \/ \A a \in Accounts : \A d \in server[a] : d \in server'[a] \cup excused'
    /\ excused \subseteq excused' /\ excused' \subseteq Dev
    /\ open' \subseteq Accounts /\ refuse' \in BOOLEAN /\ out' \in BOOLEAN
    /\ budget' \in [{"verb", "fault", "refuse"} -> Nat]

\* r is inv[p] at another stage, with the configuration changed at most to
\* what is neither loaded nor registered.
Goes(p, r) ==
    /\ r \in Invocation /\ Shape(r)
    /\ r.verb = inv[p].verb /\ r.old = inv[p].old /\ r.key = inv[p].key
    /\ r.stale = inv[p].stale /\ r.pc # "idle" /\ inv[p].pc # "idle"
    /\ \/ r.cfg = inv[p].cfg
       \/ ~Loaded(r) /\ ~Fresh(r) /\ r.cfg.dev \in {None, Foreign}
    /\ Loaded(r) => Loaded(inv[p])
    /\ Fresh(r) <=> Fresh(inv[p])
    /\ r.pc = "revokeOld" <=> inv[p].pc = "revokeOld"
    /\ Carries(r) =>
          \/ Carries(inv[p]) /\ r.cfg = inv[p].cfg
          \/ r.cfg.token \in Accounts /\ r.cfg.dev \in server'[r.cfg.token]
    /\ r.verb = "logout" /\ r.pc = "save" => r.key \in excused'

\* The process ends, with what it held excused.
Ends(p) ==
    /\ Fresh(inv[p]) => inv[p].cfg.dev \in excused'
    /\ inv[p].pc = "revokeOld" => clobber \/ inv[p].old \in excused'

LEMMA IdleShape == Idle \in Invocation /\ Shape(Idle) /\ ~Fresh(Idle) /\ ~Carries(Idle)
<1> DEFINE no == FALSE
<1>1. Idle = [pc |-> "idle", verb |-> "none", cfg |-> Empty, stale |-> no,
              acct |-> None, old |-> None, key |-> None, try |-> 1]
  BY Zenon DEF Idle
<1>2. no \in BOOLEAN OBVIOUS
<1> HIDE DEF no
<1>3. Idle \in Invocation BY <1>1, <1>2 DEF Invocation, Config, Empty, Verbs
<1>4. /\ Idle.pc = "idle" /\ Idle.verb = "none" /\ Idle.cfg.dev = None
      /\ Idle.old = None /\ Idle.key = None
  BY <1>1 DEF Empty
<1>5. Shape(Idle) BY <1>4 DEF Shape, Stages, Fresh
<1> QED BY <1>3, <1>4, <1>5 DEF Fresh, Carries

LEMMA IdleFields ==
    /\ Idle.pc = "idle" /\ Idle.verb = "none" /\ Idle.cfg.dev = None
    /\ Idle.old = None /\ Idle.key = None
BY DEF Idle, Empty

\* The numbers grow.
LEMMA NumbersGrow ==
    ASSUME next \in 1..(MaxDev + 1), next' = next \/ (next' = next + 1 /\ next <= MaxDev)
    PROVE  /\ next' \in 1..(MaxDev + 1)
           /\ \A d \in Dev \cup {None} : (d = None \/ d < next) => (d = None \/ d < next')
<1>1. MaxDev \in Nat BY AccountAssumption
<1>2. \A d \in Dev : d < next => d < next' BY <1>1 DEF Dev
<1> QED BY <1>1, <1>2

LEMMA DevFields ==
    ASSUME TypeOK
    PROVE  /\ disk.dev \in Dev \cup {None} /\ tun \in Dev \cup {None}
           /\ \A p \in Procs : /\ inv[p].cfg.dev \in Dev \cup {None}
                               /\ inv[p].old \in Dev \cup {None}
BY DEF TypeOK, Config, Invocation

LEMMA QuietEnds ==
    ASSUME AccountInv, NEW p \in Procs, Quiet(p, Idle), Ends(p)
    PROVE  AccountInv'
<1>1. /\ inv'[p] = Idle
      /\ \A q \in Procs : q # p => inv'[q] = inv[q]
      /\ inv' \in [Procs -> Invocation]
  BY IdleShape DEF Quiet, AccountInv, TypeOK
<1>2. /\ disk' = disk /\ tun' = tun /\ clobber' = clobber /\ raced' = raced
      /\ disk \in Config /\ next \in 1..(MaxDev + 1)
      /\ next' = next \/ (next' = next + 1 /\ next <= MaxDev)
  BY DEF Quiet, AccountInv, TypeOK
<1>3. /\ excused \subseteq excused'
      /\ \A a \in Accounts : server'[a] \subseteq server[a] \cup excused'
      /\ clobber \/ \A a \in Accounts : \A d \in server[a] : d \in server'[a] \cup excused'
  BY DEF Quiet
<1>4. TypeOK' BY <1>1, <1>2, NumbersGrow DEF Quiet, AccountInv, TypeOK
<1>5. (\A q \in Procs : Shape(inv[q]))' BY <1>1, IdleShape DEF AccountInv
<1>6. NumberInv'
  <2>1. TypeOK BY DEF AccountInv
  <2> QED BY <1>1, <1>2, <2>1, IdleFields, NumbersGrow, DevFields
      DEF AccountInv, NumberInv, Below
<1>7. FreshInv'
  <2> SUFFICES ASSUME NEW q \in Procs, Fresh(inv'[q])
               PROVE  /\ inv'[q].cfg.dev # disk'.dev /\ inv'[q].cfg.dev # tun'
                      /\ \A x \in Procs : /\ inv'[x].old # inv'[q].cfg.dev
                                          /\ x # q => inv'[x].cfg.dev # inv'[q].cfg.dev
    BY DEF FreshInv
  <2>1. q # p /\ inv'[q] = inv[q] BY <1>1, IdleShape
  <2>2. inv[q].cfg.dev # None BY <2>1, AccountAssumption DEF AccountInv, Shape
  <2> QED BY <1>1, <1>2, <2>1, <2>2, IdleFields DEF AccountInv, FreshInv
<1>8. CurrentInv' BY <1>1, <1>2, IdleFields DEF AccountInv, CurrentInv
<1>9. LogoutInv' BY <1>1, <1>3, IdleFields DEF AccountInv, LogoutInv
<1>10. ASSUME ~clobber PROVE OldInv' /\ UsableInv' /\ HeldInv'
  <2>1. OldInv' BY <1>1, <1>2, <1>3, <1>10, IdleFields DEF AccountInv, OldInv
  <2>2. KeyUsable'
    <3>1. disk.dev # None => disk.token \in Accounts
      BY <1>2 DEF AccountInv, NumberInv, Config
    <3> QED BY <1>2, <1>3, <1>10, <3>1 DEF AccountInv, UsableInv, KeyUsable
  <2>3. ASSUME NEW q \in Procs, Carries(inv'[q])
        PROVE  \/ inv'[q].cfg.dev \in excused'
               \/ inv'[q].cfg.dev \in server'[inv'[q].cfg.token]
    <3>1. inv'[q] = inv[q] BY <1>1, <2>3, IdleShape
    <3>2. Carries(inv[q]) BY <2>3, <3>1
    <3>3. inv[q].cfg.token \in Accounts
      BY <3>2, AccountAssumption
      DEF AccountInv, TypeOK, Invocation, Config, Shape, Carries, Fresh, Foreign, Dev
    <3> QED BY <1>3, <1>10, <3>1, <3>2, <3>3 DEF AccountInv, UsableInv
  <2>4. ASSUME NEW a \in Accounts, NEW d \in server'[a] \ ({Foreign} \cup excused')
        PROVE  Held(d)'
    <3>1. Held(d) BY <1>3, <1>10, <2>4 DEF AccountInv, HeldInv
    <3>2. CASE d = disk.dev BY <1>2, <3>2 DEF Held
    <3>3. ASSUME NEW q \in Procs, Fresh(inv[q]) /\ inv[q].cfg.dev = d PROVE Held(d)'
      <4>1. q # p BY <2>4, <3>3 DEF Ends
      <4> QED BY <1>1, <3>3, <4>1 DEF Held
    <3>4. ASSUME NEW q \in Procs, inv[q].pc = "revokeOld" /\ inv[q].old = d PROVE Held(d)'
      <4>1. q # p BY <1>10, <2>4, <3>4 DEF Ends
      <4> QED BY <1>1, <3>4, <4>1 DEF Held
    <3> QED BY <3>1, <3>2, <3>3, <3>4 DEF Held
  <2> QED BY <2>1, <2>2, <2>3, <2>4 DEF UsableInv, HeldInv
<1>11. ASSUME ~raced PROVE ExcludeInv' /\ ImportInv' /\ (~clobber => RemoveInv')
  <2>1. ExcludeInv' BY <1>1, <1>2, <1>11, IdleFields DEF AccountInv, ExcludeInv
  <2>2. ImportInv' BY <1>1, <1>11, IdleFields DEF AccountInv, ImportInv
  <2>3. ASSUME ~clobber PROVE RemoveInv'
    <3>1. RemoveInv BY <1>11, <2>3 DEF AccountInv
    <3> QED BY <1>1, <1>2, <3>1, IdleFields DEF RemoveInv, Used
  <2> QED BY <2>1, <2>2, <2>3
<1> QED
  BY <1>2, <1>4, <1>5, <1>6, <1>7, <1>8, <1>9, <1>10, <1>11 DEF AccountInv

LEMMA QuietGoes ==
    ASSUME AccountInv, NEW p \in Procs, NEW r, Quiet(p, r), Goes(p, r)
    PROVE  AccountInv'
<1>1. /\ inv'[p] = r
      /\ \A q \in Procs : q # p => inv'[q] = inv[q]
      /\ inv' \in [Procs -> Invocation]
  BY DEF Goes, Quiet, AccountInv, TypeOK
<1>2. /\ disk' = disk /\ tun' = tun /\ clobber' = clobber /\ raced' = raced
      /\ disk \in Config /\ next \in 1..(MaxDev + 1)
      /\ next' = next \/ (next' = next + 1 /\ next <= MaxDev)
  BY DEF Quiet, AccountInv, TypeOK
<1>3. /\ excused \subseteq excused'
      /\ \A a \in Accounts : server'[a] \subseteq server[a] \cup excused'
      /\ clobber \/ \A a \in Accounts : \A d \in server[a] : d \in server'[a] \cup excused'
  BY DEF Quiet
<1>4. /\ r.verb = inv[p].verb /\ r.old = inv[p].old /\ r.key = inv[p].key
      /\ r.stale = inv[p].stale
  BY DEF Goes
<1>5. TypeOK' BY <1>1, <1>2, NumbersGrow DEF Quiet, AccountInv, TypeOK
<1>6. (\A q \in Procs : Shape(inv[q]))' BY <1>1 DEF AccountInv, Goes
<1>7. NumberInv'
  <2>1. r.cfg = inv[p].cfg \/ r.cfg.dev = None \/ r.cfg.dev < next
    BY <1>2, AccountAssumption DEF Goes, Foreign
  <2>2. r.cfg.dev = None \/ r.cfg.dev < next BY <2>1 DEF AccountInv, NumberInv, Below
  <2>3. r.cfg.dev \in Dev \cup {None} BY DEF Goes, Invocation, Config
  <2>4. TypeOK BY DEF AccountInv
  <2> QED BY <1>1, <1>2, <1>4, <2>2, <2>3, <2>4, NumbersGrow, DevFields
      DEF AccountInv, NumberInv, Below
<1>8. FreshInv'
  <2> SUFFICES ASSUME NEW q \in Procs, Fresh(inv'[q])
               PROVE  /\ inv'[q].cfg.dev # disk'.dev /\ inv'[q].cfg.dev # tun'
                      /\ \A x \in Procs : /\ inv'[x].old # inv'[q].cfg.dev
                                          /\ x # q => inv'[x].cfg.dev # inv'[q].cfg.dev
    BY DEF FreshInv
  <2>1. Fresh(inv[q]) /\ inv'[q].cfg = inv[q].cfg BY <1>1 DEF Goes
  <2>2. inv[q].cfg.dev \notin {None, Foreign}
    BY <2>1, AccountAssumption DEF AccountInv, Shape
  <2>3. ASSUME NEW x \in Procs
        PROVE  /\ inv'[x].old # inv[q].cfg.dev
               /\ x # q => inv'[x].cfg.dev # inv[q].cfg.dev
    <3>1. CASE x = p BY <1>1, <1>4, <2>1, <2>2, <3>1 DEF AccountInv, FreshInv, Goes
    <3>2. CASE x # p BY <1>1, <2>1, <3>2 DEF AccountInv, FreshInv
    <3> QED BY <3>1, <3>2
  <2> QED BY <1>2, <2>1, <2>3 DEF AccountInv, FreshInv
<1>9. CurrentInv' BY <1>1, <1>2, <1>4 DEF AccountInv, CurrentInv, Goes
<1>10. LogoutInv' BY <1>1, <1>3, <1>4 DEF AccountInv, LogoutInv, Goes
<1>11. ASSUME ~clobber PROVE OldInv' /\ UsableInv' /\ HeldInv'
  <2>1. OldInv' BY <1>1, <1>2, <1>3, <1>4, <1>11 DEF AccountInv, OldInv, Goes
  <2>2. KeyUsable'
    <3>1. disk.dev # None => disk.token \in Accounts
      BY <1>2 DEF AccountInv, NumberInv, Config
    <3> QED BY <1>2, <1>3, <1>11, <3>1 DEF AccountInv, UsableInv, KeyUsable
  <2>3. ASSUME NEW q \in Procs, Carries(inv'[q])
        PROVE  \/ inv'[q].cfg.dev \in excused'
               \/ inv'[q].cfg.dev \in server'[inv'[q].cfg.token]
    <3>1. CASE q = p /\ ~(Carries(inv[p]) /\ r.cfg = inv[p].cfg)
      BY <1>1, <2>3, <3>1 DEF Goes
    <3>2. CASE ~(q = p /\ ~(Carries(inv[p]) /\ r.cfg = inv[p].cfg))
      <4>1. Carries(inv[q]) /\ inv'[q].cfg = inv[q].cfg BY <1>1, <2>3, <3>2
      <4>2. inv[q].cfg.token \in Accounts
        BY <4>1, AccountAssumption
        DEF AccountInv, TypeOK, Invocation, Config, Shape, Carries, Fresh, Foreign, Dev
      <4> QED BY <1>3, <1>11, <4>1, <4>2 DEF AccountInv, UsableInv
    <3> QED BY <3>1, <3>2
  <2>4. ASSUME NEW a \in Accounts, NEW d \in server'[a] \ ({Foreign} \cup excused')
        PROVE  Held(d)'
    <3>1. Held(d) BY <1>3, <1>11, <2>4 DEF AccountInv, HeldInv
    <3>2. CASE d = disk.dev BY <1>2, <3>2 DEF Held
    <3>3. ASSUME NEW q \in Procs, Fresh(inv[q]) /\ inv[q].cfg.dev = d PROVE Held(d)'
      BY <1>1, <3>3 DEF Held, Goes
    <3>4. ASSUME NEW q \in Procs, inv[q].pc = "revokeOld" /\ inv[q].old = d PROVE Held(d)'
      BY <1>1, <3>4 DEF Held, Goes
    <3> QED BY <3>1, <3>2, <3>3, <3>4 DEF Held
  <2> QED BY <2>1, <2>2, <2>3, <2>4 DEF UsableInv, HeldInv
<1>12. ASSUME ~raced PROVE ExcludeInv' /\ ImportInv' /\ (~clobber => RemoveInv')
  <2>1. ExcludeInv' BY <1>1, <1>2, <1>4, <1>12 DEF AccountInv, ExcludeInv
  <2>2. ImportInv' BY <1>1, <1>4, <1>12 DEF AccountInv, ImportInv
  <2>3. ASSUME ~clobber PROVE RemoveInv'
    <3>1. RemoveInv BY <1>12, <2>3 DEF AccountInv
    <3>2. r.verb = "connect" => r.cfg = inv[p].cfg BY DEF Goes, Loaded
    <3> QED BY <1>1, <1>2, <1>4, <3>1, <3>2 DEF RemoveInv, Used
  <2> QED BY <2>1, <2>2, <2>3
<1> QED
  BY <1>2, <1>5, <1>6, <1>7, <1>8, <1>9, <1>10, <1>11, <1>12 DEF AccountInv

-----------------------------------------------------------------------------
(* The calls *)

Budgets == [{"verb", "fault", "refuse"} -> Nat]

Pcs == {"idle", "create", "expiry", "list", "cap", "register",
        "save", "undo", "revoke", "revokeOld", "fetch", "up"}

LEMMA SpendTyped ==
    ASSUME budget \in Budgets, NEW k \in {"verb", "fault", "refuse"}, Spend(k)
    PROVE  budget' \in Budgets
BY DEF Budgets, Spend

LEMMA Returns ==
    ASSUME AccountInv, NEW p \in Procs, Return(p), Others, Ends(p),
           UNCHANGED <<server, next>>, open' \subseteq Accounts,
           excused \subseteq excused', excused' \subseteq Dev, budget' \in Budgets
    PROVE  AccountInv'
<1>1. Quiet(p, Idle)
  BY DEF Quiet, Return, Set, Others, Budgets, AccountInv, TypeOK
<1> QED BY <1>1, QuietEnds

\* The same invocation at another stage.
LEMMA GotoFields ==
    ASSUME NEW i \in Invocation, NEW pc \in Pcs, NEW n \in {1, 2}
    PROVE  LET r == [i EXCEPT !.pc = pc, !.try = n] IN
           /\ r \in Invocation /\ r.pc = pc /\ r.verb = i.verb /\ r.cfg = i.cfg
           /\ r.stale = i.stale /\ r.acct = i.acct /\ r.old = i.old /\ r.key = i.key
BY DEF Invocation, Pcs

LEMMA AgainFields ==
    ASSUME NEW i \in Invocation
    PROVE  LET r == [i EXCEPT !.try = 2] IN
           /\ r \in Invocation /\ r.pc = i.pc /\ r.verb = i.verb /\ r.cfg = i.cfg
           /\ r.stale = i.stale /\ r.acct = i.acct /\ r.old = i.old /\ r.key = i.key
BY DEF Invocation

LEMMA AgainInv ==
    ASSUME AccountInv, NEW p \in Procs, inv[p].pc # "idle",
           Set(p, [inv[p] EXCEPT !.try = 2]), Others,
           UNCHANGED <<server, open, next, budget>>,
           excused \subseteq excused', excused' \subseteq Dev
    PROVE  AccountInv'
<1> DEFINE r == [inv[p] EXCEPT !.try = 2]
<1>1. inv[p] \in Invocation /\ Shape(inv[p]) BY DEF AccountInv, TypeOK
<1>2. /\ r \in Invocation /\ r.pc = inv[p].pc /\ r.verb = inv[p].verb
      /\ r.cfg = inv[p].cfg /\ r.stale = inv[p].stale /\ r.acct = inv[p].acct
      /\ r.old = inv[p].old /\ r.key = inv[p].key
  BY <1>1, AgainFields
<1>3. Quiet(p, r) BY DEF Quiet, Set, Others, AccountInv, TypeOK
<1> HIDE DEF r
<1>4. Shape(r) BY <1>1, <1>2 DEF Shape, Fresh
<1>5. r.verb = "logout" /\ r.pc = "save" => r.key \in excused'
  BY <1>2 DEF AccountInv, LogoutInv
<1>6. Goes(p, r) BY <1>2, <1>4, <1>5 DEF Goes, Fresh, Carries, Loaded
<1> QED BY <1>3, <1>6, QuietGoes

LEMMA UnauthorizedInv ==
    ASSUME AccountInv, NEW p \in Procs, NEW pc \in Pcs \ {"idle", "undo", "revokeOld", "save"},
           Unauthorized(p, pc, Return(p)), Others
    PROVE  AccountInv'
<1>1. /\ UNCHANGED <<server, open, next, excused, budget>> /\ inv[p].pc = pc
      /\ Set(p, [inv[p] EXCEPT !.try = 2]) \/ Return(p)
  BY DEF Unauthorized, Again, world
<1>2. CASE Set(p, [inv[p] EXCEPT !.try = 2])
  BY <1>1, <1>2, AgainInv DEF AccountInv, TypeOK
<1>3. CASE Return(p)
  <2>1. Ends(p) BY <1>1 DEF Ends, Fresh
  <2> QED BY <1>1, <1>3, <2>1, Returns DEF AccountInv, TypeOK, Budgets
<1> QED BY <1>1, <1>2, <1>3

\* A request without an effect that got lost.
LEMMA LostInv ==
    ASSUME AccountInv, NEW p \in Procs, inv[p].pc \notin {"undo", "revokeOld", "save"},
           Lost(p, UNCHANGED world, Return(p)), Others
    PROVE  AccountInv'
<1>1. UNCHANGED <<server, open, next, excused>> /\ Return(p) /\ Spend("fault")
  BY DEF Lost, world
<1>2. budget' \in Budgets BY <1>1, SpendTyped DEF AccountInv, TypeOK, Budgets
<1>3. Ends(p) BY DEF Ends, Fresh
<1> QED BY <1>1, <1>2, <1>3, Returns DEF AccountInv, TypeOK

\* A verb goes on with what it has.
LEMMA GotoInv ==
    ASSUME AccountInv, NEW p \in Procs, NEW pc \in {"register", "list", "cap", "save"},
           Goto(p, pc), Others, UNCHANGED <<world, budget>>,
           inv[p].pc \in {"expiry", "list", "register", "fetch"},
           pc \in Stages(inv[p].verb),
           pc = "save" => inv[p].verb \in {"refresh", "relays"}
    PROVE  AccountInv'
<1> DEFINE r == [inv[p] EXCEPT !.pc = pc, !.try = 1]
<1>1. inv[p] \in Invocation /\ Shape(inv[p]) BY DEF AccountInv, TypeOK
<1>2. /\ r \in Invocation /\ r.pc = pc /\ r.verb = inv[p].verb
      /\ r.cfg = inv[p].cfg /\ r.stale = inv[p].stale /\ r.acct = inv[p].acct
      /\ r.old = inv[p].old /\ r.key = inv[p].key
  <2>1. pc \in Pcs /\ 1 \in {1, 2} BY DEF Pcs
  <2> QED BY <1>1, <2>1, GotoFields
<1>3. Quiet(p, r) BY DEF Quiet, Goto, Set, Others, world, AccountInv, TypeOK
<1> HIDE DEF r
<1>4. ~Fresh(r) /\ ~Carries(r) /\ ~Fresh(inv[p]) BY <1>2 DEF Fresh, Carries
<1>5. Shape(r) BY <1>1, <1>2, <1>4 DEF Shape
<1>6. Loaded(inv[p]) BY <1>1 DEF Shape, Stages, Loaded
<1>7. Goes(p, r) BY <1>2, <1>4, <1>5, <1>6 DEF Goes
<1> QED BY <1>3, <1>7, QuietGoes

LEMMA CreateAccountInv ==
    ASSUME AccountInv, NEW p \in Procs, CreateAccount(p)
    PROVE  AccountInv'
<1>1. inv[p].pc = "create" /\ Others /\ inv[p] \in Invocation /\ Shape(inv[p])
  BY DEF CreateAccount, AccountInv, TypeOK
<1>2. inv[p].verb = "signup" BY <1>1 DEF Shape, Stages
<1>3. Ends(p) BY <1>1 DEF Ends, Fresh
<1>4. CASE Return(p) /\ UNCHANGED <<world, budget>>
  BY <1>1, <1>3, <1>4, Returns DEF world, AccountInv, TypeOK, Budgets
<1>5. ASSUME NEW a \in Accounts, open' = open \cup {a},
             Set(p, [inv[p] EXCEPT !.pc = "save", !.cfg.token = a]),
             UNCHANGED <<server, next, excused, budget>>
      PROVE  AccountInv'
  <2> DEFINE c == [inv[p].cfg EXCEPT !.token = a]
             r == [inv[p] EXCEPT !.pc = "save", !.cfg = c]
  <2>1. c \in Config /\ c.dev = None /\ c.token = a
    BY <1>1, <1>2 DEF Invocation, Config, Shape
  <2>2. [inv[p] EXCEPT !.pc = "save", !.cfg.token = a] = r BY <1>1 DEF Invocation
  <2>3. Set(p, r) BY <1>5, <2>2
  <2> HIDE DEF c
  <2>4. /\ r \in Invocation /\ r.pc = "save" /\ r.verb = inv[p].verb /\ r.cfg = c
        /\ r.stale = inv[p].stale /\ r.acct = inv[p].acct
        /\ r.old = inv[p].old /\ r.key = inv[p].key
    BY <1>1, <2>1 DEF Invocation
  <2> HIDE DEF r
  <2>5. Quiet(p, r) BY <1>1, <1>5, <2>3 DEF Quiet, Set, Others, AccountInv, TypeOK
  <2>6. ~Fresh(r) /\ ~Carries(r) /\ ~Loaded(r) /\ ~Fresh(inv[p])
    BY <1>1, <1>2, <2>4 DEF Fresh, Carries, Loaded
  <2>7. Shape(r) BY <1>1, <1>2, <2>1, <2>4, <2>6 DEF Shape, Stages
  <2>8. Goes(p, r) BY <1>1, <1>2, <2>1, <2>4, <2>6, <2>7 DEF Goes
  <2> QED BY <2>5, <2>8, QuietGoes
<1>6. ASSUME NEW a \in Accounts,
             Lost(p, /\ open' = open \cup {a}
                     /\ UNCHANGED <<server, next, excused>>, Return(p))
      PROVE  AccountInv'
  <2>1. /\ open' \in {open, open \cup {a}} /\ UNCHANGED <<server, next, excused>>
        /\ Return(p) /\ Spend("fault")
    BY <1>6 DEF Lost
  <2>2. budget' \in Budgets BY <2>1, SpendTyped DEF AccountInv, TypeOK, Budgets
  <2>3. open' \subseteq Accounts BY <2>1 DEF AccountInv, TypeOK
  <2> QED BY <1>1, <1>3, <2>1, <2>2, <2>3, Returns DEF AccountInv, TypeOK
<1> QED BY <1>4, <1>5, <1>6 DEF CreateAccount

LEMMA AccountExpiryInv ==
    ASSUME AccountInv, NEW p \in Procs, AccountExpiry(p)
    PROVE  AccountInv'
<1>1. inv[p].pc = "expiry" /\ Others /\ Shape(inv[p])
  BY DEF AccountExpiry, Authed, Unauthorized, AccountInv
<1>2. inv[p].verb \in {"login", "import", "refresh"} BY <1>1 DEF Shape, Stages
<1> DEFINE to == CASE inv[p].verb = "login"   -> "register"
                   [] inv[p].verb = "import"  -> "list"
                   [] inv[p].verb = "refresh" ->
                        IF inv[p].cfg.dev # None THEN "list" ELSE "save"
<1>3. CASE Goto(p, to) /\ UNCHANGED <<world, budget>>
  <2>1. /\ to \in {"register", "list", "cap", "save"} /\ to \in Stages(inv[p].verb)
        /\ to = "save" => inv[p].verb \in {"refresh", "relays"}
    BY <1>2 DEF Stages
  <2> HIDE DEF to
  <2> QED BY <1>1, <1>3, <2>1, GotoInv
<1>4. CASE Unauthorized(p, "expiry", Return(p)) BY <1>1, <1>4, UnauthorizedInv DEF Pcs
<1>5. CASE Lost(p, UNCHANGED world, Return(p)) BY <1>1, <1>5, LostInv
<1> QED BY <1>3, <1>4, <1>5 DEF AccountExpiry

LEMMA ListDevicesInv ==
    ASSUME AccountInv, NEW p \in Procs, ListDevices(p)
    PROVE  AccountInv'
<1>1. /\ inv[p].pc \in {"list", "cap"} /\ Others /\ Shape(inv[p])
      /\ inv[p] \in Invocation
  BY DEF ListDevices, Authed, Unauthorized, AccountInv, TypeOK
<1>2. Ends(p) BY <1>1 DEF Ends, Fresh
<1>3. CASE Return(p) /\ UNCHANGED <<world, budget>>
  BY <1>1, <1>2, <1>3, Returns DEF world, AccountInv, TypeOK, Budgets
<1>4. CASE /\ inv[p].pc = "list" /\ inv[p].verb = "import"
           /\ inv[p].key \in server[inv[p].acct]
           /\ Set(p, [inv[p] EXCEPT !.pc = "save", !.try = 1,
                                    !.cfg.token = inv[p].acct,
                                    !.cfg.dev = inv[p].key])
           /\ UNCHANGED <<world, budget>>
  <2> DEFINE c == [inv[p].cfg EXCEPT !.token = inv[p].acct, !.dev = inv[p].key]
             r == [inv[p] EXCEPT !.pc = "save", !.try = 1, !.cfg = c]
  <2>1. inv[p].acct \in Accounts /\ inv[p].key = Foreign BY <1>1, <1>4 DEF Shape
  <2>2. Foreign \in Dev BY AccountAssumption DEF Foreign, Dev
  <2>3. c \in Config /\ c.dev = Foreign /\ c.token = inv[p].acct
    BY <1>1, <2>1, <2>2 DEF Invocation, Config
  <2>4. Set(p, r) BY <1>1, <1>4 DEF Invocation
  <2> HIDE DEF c
  <2>5. /\ r \in Invocation /\ r.pc = "save" /\ r.verb = inv[p].verb /\ r.cfg = c
        /\ r.stale = inv[p].stale /\ r.acct = inv[p].acct
        /\ r.old = inv[p].old /\ r.key = inv[p].key
    BY <1>1, <2>3 DEF Invocation
  <2> HIDE DEF r
  <2>6. Quiet(p, r) BY <1>1, <1>4, <2>4 DEF Quiet, Set, Others, world, AccountInv, TypeOK
  <2>7. ~Fresh(r) /\ ~Loaded(r) /\ ~Fresh(inv[p])
    BY <1>1, <1>4, <2>5 DEF Fresh, Loaded
  <2>8. Shape(r)
    BY <1>1, <1>4, <2>1, <2>3, <2>5, <2>7, AccountAssumption DEF Shape, Stages
  <2>9. Carries(r) => r.cfg.token \in Accounts /\ r.cfg.dev \in server'[r.cfg.token]
    BY <1>4, <2>1, <2>3, <2>5 DEF world
  <2>10. Goes(p, r) BY <1>1, <1>4, <2>3, <2>5, <2>7, <2>8, <2>9 DEF Goes
  <2> QED BY <2>6, <2>10, QuietGoes
<1>5. CASE /\ inv[p].pc = "list" /\ inv[p].verb = "refresh"
           /\ Goto(p, "save") /\ UNCHANGED <<world, budget>>
  <2>1. "save" \in Stages(inv[p].verb) BY <1>5 DEF Stages
  <2> QED BY <1>1, <1>5, <2>1, GotoInv
<1>6. ASSUME NEW pc \in {"list", "cap"}, Unauthorized(p, pc, Return(p)) PROVE AccountInv'
  <2>1. pc \in Pcs \ {"idle", "undo", "revokeOld", "save"} BY DEF Pcs
  <2> QED BY <1>1, <1>6, <2>1, UnauthorizedInv
<1>7. CASE Lost(p, UNCHANGED world, Return(p)) BY <1>1, <1>7, LostInv
<1> QED BY <1>3, <1>4, <1>5, <1>6, <1>7 DEF ListDevices, Authed

LEMMA RelaysInv ==
    ASSUME AccountInv, NEW p \in Procs, Relays(p)
    PROVE  AccountInv'
<1>1. inv[p].pc = "fetch" /\ Others /\ Shape(inv[p]) BY DEF Relays, AccountInv
<1>2. inv[p].verb = "relays" /\ "save" \in Stages(inv[p].verb)
  BY <1>1 DEF Shape, Stages
<1>3. CASE Goto(p, "save") /\ UNCHANGED <<world, budget>> BY <1>1, <1>2, <1>3, GotoInv
<1>4. CASE Lost(p, UNCHANGED world, Return(p)) BY <1>1, <1>4, LostInv
<1> QED BY <1>3, <1>4 DEF Relays

\* A device is revoked, and excused.
LEMMA RevokedQuiet ==
    ASSUME AccountInv, NEW p \in Procs, inv[p].acct \in Accounts, NEW d \in Dev,
           Revoked(p, d) \/ UNCHANGED <<server, open, next>>,
           excused' = excused \cup {d} \/ (clobber /\ excused' = excused), Others,
           budget' \in Budgets, NEW r, inv' = [inv EXCEPT ![p] = r]
    PROVE  Quiet(p, r)
<1> DEFINE a == inv[p].acct
<1>1. /\ server \in [Accounts -> SUBSET Dev]
      /\ server' = server \/ server' = [server EXCEPT ![a] = @ \ {d}]
      /\ open' = open /\ next' = next
  BY DEF Revoked, AccountInv, TypeOK
<1> HIDE DEF a
<1>2. /\ server' \in [Accounts -> SUBSET Dev]
      /\ \A b \in Accounts : server'[b] \subseteq server[b]
      /\ \A b \in Accounts : \A x \in server[b] : x \in server'[b] \cup {d}
  BY <1>1
<1>3. /\ excused \subseteq excused' /\ excused' \subseteq Dev
      /\ clobber \/ excused' = excused \cup {d}
  BY DEF AccountInv, TypeOK
<1> QED BY <1>1, <1>2, <1>3 DEF Quiet, Others, Budgets, AccountInv, TypeOK

LEMMA RevokeInv ==
    ASSUME AccountInv, NEW p \in Procs, Revoke(p)
    PROVE  AccountInv'
<1> DEFINE d == inv[p].key
<1>1. /\ inv[p].pc = "revoke" /\ Others /\ Shape(inv[p])
      /\ inv[p] \in Invocation /\ budget \in Budgets
  BY DEF Revoke, Authed, Unauthorized, AccountInv, TypeOK, Budgets
<1>2. /\ inv[p].verb \in {"logout", "remove"} /\ inv[p].acct \in Accounts /\ d \in Dev
      /\ d # None
  BY <1>1, AccountAssumption DEF Shape, Stages
<1>3. Ends(p) BY <1>1 DEF Ends, Fresh
<1>4. CASE /\ Revoked(p, d) /\ excused' = excused \cup {d}
           /\ Return(p) /\ UNCHANGED budget
  <2>1. Quiet(p, Idle) BY <1>1, <1>2, <1>4, RevokedQuiet DEF Return, Set
  <2> QED BY <1>3, <2>1, QuietEnds
<1>5. CASE /\ Revoked(p, d) /\ excused' = excused \cup {d} /\ inv[p].verb = "logout"
           /\ Set(p, [inv[p] EXCEPT !.pc = "save", !.try = 1,
                                    !.cfg.token = None, !.cfg.dev = None])
           /\ UNCHANGED budget
  <2> DEFINE c == [inv[p].cfg EXCEPT !.token = None, !.dev = None]
             r == [inv[p] EXCEPT !.pc = "save", !.try = 1, !.cfg = c]
  <2>1. c \in Config /\ c.dev = None BY <1>1 DEF Invocation, Config
  <2>2. Set(p, r) BY <1>1, <1>5 DEF Invocation
  <2> HIDE DEF c
  <2>3. /\ r \in Invocation /\ r.pc = "save" /\ r.verb = "logout" /\ r.cfg = c
        /\ r.stale = inv[p].stale /\ r.acct = inv[p].acct
        /\ r.old = inv[p].old /\ r.key = d
    BY <1>1, <1>5, <2>1 DEF Invocation
  <2> HIDE DEF r
  <2>4. Quiet(p, r) BY <1>1, <1>2, <1>5, <2>2, RevokedQuiet DEF Set
  <2>5. ~Fresh(r) /\ ~Loaded(r) /\ ~Carries(r) /\ ~Fresh(inv[p])
    BY <1>1, <1>5, <2>3 DEF Fresh, Loaded, Carries
  <2>6. Shape(r) BY <1>1, <1>2, <1>5, <2>1, <2>3, <2>5 DEF Shape, Stages
  <2>7. Goes(p, r) BY <1>1, <1>5, <2>1, <2>3, <2>5, <2>6 DEF Goes
  <2> QED BY <2>4, <2>7, QuietGoes
<1>6. CASE Unauthorized(p, "revoke", Return(p))
  <2>1. "revoke" \in Pcs \ {"idle", "undo", "revokeOld", "save"} BY DEF Pcs
  <2> QED BY <1>1, <1>6, <2>1, UnauthorizedInv
<1>7. CASE Lost(p, Revoked(p, d) /\ excused' = excused \cup {d}, Return(p))
  <2>1. Return(p) /\ budget' \in Budgets BY <1>1, <1>7, SpendTyped DEF Lost
  <2>2. CASE Revoked(p, d) /\ excused' = excused \cup {d}
    <3>1. Quiet(p, Idle) BY <1>1, <1>2, <2>1, <2>2, RevokedQuiet DEF Return, Set
    <3> QED BY <1>3, <3>1, QuietEnds
  <2>3. CASE UNCHANGED <<server, open, next, excused>>
    BY <1>1, <1>3, <2>1, <2>3, Returns DEF AccountInv, TypeOK
  <2> QED BY <1>7, <2>2, <2>3 DEF Lost
<1> QED BY <1>4, <1>5, <1>6, <1>7 DEF Revoke

LEMMA RevokeLastInv ==
    ASSUME AccountInv, NEW p \in Procs, NEW pc \in {"undo", "revokeOld"}, NEW d,
           d = IF pc = "undo" THEN inv[p].cfg.dev ELSE inv[p].old,
           RevokeLast(p, pc, d)
    PROVE  AccountInv'
<1>1. /\ inv[p].pc = pc /\ Others /\ Shape(inv[p])
      /\ inv[p] \in Invocation /\ budget \in Budgets
  BY DEF RevokeLast, Authed, AccountInv, TypeOK, Budgets
<1>2. inv[p].verb \in {"login", "rotate"} /\ inv[p].acct \in Accounts /\ d \in Dev
  BY <1>1 DEF Shape, Stages, Fresh
<1>3. /\ d # disk.dev \/ clobber \/ d \in excused
      /\ pc = "undo" => d # disk.dev
  BY <1>1, <1>2 DEF AccountInv, FreshInv, OldInv, Fresh
<1>4. ASSUME Leave(d)
      PROVE  /\ excused' = excused \cup {d} \/ (clobber /\ excused' = excused)
             /\ excused \subseteq excused' /\ excused' \subseteq Dev
             /\ Ends(p)
  <2>1. excused' = excused \cup {d} \/ (clobber /\ excused' = excused)
    BY <1>3, <1>4 DEF Leave
  <2>2. pc = "undo" => d \in excused' BY <1>3, <1>4 DEF Leave
  <2> QED BY <1>1, <1>2, <2>1, <2>2 DEF Ends, Fresh, AccountInv, TypeOK
<1>5. CASE Revoked(p, d) /\ UNCHANGED budget /\ Return(p) /\ Leave(d)
  <2>1. Quiet(p, Idle) BY <1>1, <1>2, <1>4, <1>5, RevokedQuiet DEF Return, Set
  <2> QED BY <1>4, <1>5, <2>1, QuietEnds
<1>6. CASE /\ Again(p, Return(p))
           /\ IF inv[p].try = 1 THEN UNCHANGED excused ELSE Leave(d)
           /\ UNCHANGED <<server, open, next, budget>>
  <2>1. CASE inv[p].try = 1
    <3>1. Set(p, [inv[p] EXCEPT !.try = 2]) BY <1>6, <2>1 DEF Again
    <3> QED BY <1>1, <1>6, <2>1, <3>1, AgainInv DEF AccountInv, TypeOK
  <2>2. CASE inv[p].try # 1
    <3>1. Return(p) BY <1>6, <2>2 DEF Again
    <3> QED BY <1>1, <1>4, <1>6, <2>2, <3>1, Returns DEF AccountInv, TypeOK
  <2> QED BY <2>1, <2>2
<1>7. CASE /\ Spend("fault")
           /\ Revoked(p, d) \/ UNCHANGED <<server, open, next>>
           /\ Leave(d) /\ Return(p)
  <2>1. budget' \in Budgets BY <1>1, <1>7, SpendTyped
  <2>2. Quiet(p, Idle) BY <1>1, <1>2, <1>4, <1>7, <2>1, RevokedQuiet DEF Return, Set
  <2> QED BY <1>4, <1>7, <2>2, QuietEnds
<1> QED BY <1>5, <1>6, <1>7 DEF RevokeLast

\* login and rotate-key have registered the device next.
LEMMA RegisteredInv ==
    ASSUME AccountInv, NEW p \in Procs, inv[p].pc = "register", next <= MaxDev,
           Registered(p), UNCHANGED <<excused, budget>>, Others,
           Set(p, [inv[p] EXCEPT !.pc = AfterRegister(p), !.try = 1,
                                 !.cfg.token = inv[p].acct, !.cfg.dev = next])
    PROVE  AccountInv'
<1>1. /\ inv[p] \in Invocation /\ Shape(inv[p]) /\ TypeOK
      /\ next \in Nat /\ next \in Dev \ {Foreign, None} /\ next' = next + 1
      /\ server \in [Accounts -> SUBSET Dev]
  BY AccountAssumption DEF AccountInv, TypeOK, Dev, Foreign, Registered
<1>2. inv[p].verb \in {"login", "rotate"} /\ inv[p].acct \in Accounts
  BY <1>1 DEF Shape, Stages
<1> DEFINE c == [inv[p].cfg EXCEPT !.token = inv[p].acct, !.dev = next]
           r == [inv[p] EXCEPT !.pc = "save", !.try = 1, !.cfg = c]
<1>3. c \in Config /\ c.dev = next /\ c.token = inv[p].acct
  BY <1>1, <1>2 DEF Invocation, Config
<1>4. inv' = [inv EXCEPT ![p] = r] BY <1>1 DEF Set, AfterRegister, Invocation
<1> HIDE DEF c
<1>5. /\ r \in Invocation /\ r.pc = "save" /\ r.verb = inv[p].verb /\ r.cfg = c
      /\ r.stale = inv[p].stale /\ r.acct = inv[p].acct
      /\ r.old = inv[p].old /\ r.key = inv[p].key
  BY <1>1, <1>3 DEF Invocation
<1> HIDE DEF r
<1>6. /\ inv'[p] = r /\ \A q \in Procs : q # p => inv'[q] = inv[q]
      /\ inv' \in [Procs -> Invocation]
  BY <1>4, <1>5 DEF AccountInv, TypeOK
<1>7. /\ disk' = disk /\ tun' = tun /\ clobber' = clobber /\ raced' = raced
      /\ excused' = excused
  BY DEF Others
<1>8. /\ server' \in [Accounts -> SUBSET Dev]
      /\ \A a \in Accounts : server[a] \subseteq server'[a]
      /\ \A a \in Accounts : \A d \in server'[a] : d \in server[a] \/ d = next
      /\ next \in server'[inv[p].acct]
  BY <1>1, <1>2 DEF Registered
<1>9. \A d \in Dev \cup {None} : Below(d) => d # next /\ (d = None \/ d < next')
  BY <1>1 DEF Below, Dev
<1>10. ~Fresh(inv[p]) /\ ~Loaded(r) BY <1>2, <1>5 DEF Fresh, Loaded
<1>11. TypeOK'
  <2>1. next' \in 1..(MaxDev + 1) BY <1>1, AccountAssumption DEF TypeOK
  <2> QED BY <1>6, <1>7, <1>8, <2>1 DEF AccountInv, TypeOK, Others, Registered
<1>12. (\A q \in Procs : Shape(inv[q]))'
  <2>1. Shape(r) BY <1>1, <1>2, <1>3, <1>5, AccountAssumption DEF Shape, Stages
  <2> QED BY <1>6, <2>1 DEF AccountInv
<1>13. NumberInv'
  <2>1. r.cfg.dev < next' BY <1>1, <1>3, <1>5
  <2> QED BY <1>1, <1>5, <1>6, <1>7, <1>9, <2>1, DevFields DEF AccountInv, NumberInv, Below
<1>14. FreshInv'
  <2>1. /\ disk.dev # next /\ tun # next
        /\ \A q \in Procs : inv[q].cfg.dev # next /\ inv[q].old # next
    BY <1>1, <1>9, DevFields DEF AccountInv, NumberInv
  <2> SUFFICES ASSUME NEW q \in Procs, Fresh(inv'[q])
               PROVE  /\ inv'[q].cfg.dev # disk'.dev /\ inv'[q].cfg.dev # tun'
                      /\ \A x \in Procs : /\ inv'[x].old # inv'[q].cfg.dev
                                          /\ x # q => inv'[x].cfg.dev # inv'[q].cfg.dev
    BY DEF FreshInv
  <2>2. CASE q = p BY <1>3, <1>5, <1>6, <1>7, <2>1, <2>2
  <2>3. CASE q # p BY <1>3, <1>5, <1>6, <1>7, <2>1, <2>3 DEF AccountInv, FreshInv
  <2> QED BY <2>2, <2>3
<1>15. CurrentInv' BY <1>5, <1>6, <1>7, <1>10 DEF AccountInv, CurrentInv
<1>16. LogoutInv' BY <1>2, <1>5, <1>6, <1>7 DEF AccountInv, LogoutInv
<1>17. ASSUME ~clobber PROVE OldInv' /\ UsableInv' /\ HeldInv'
  <2>1. OldInv' BY <1>2, <1>5, <1>6, <1>7, <1>17 DEF AccountInv, OldInv
  <2>2. KeyUsable'
    <3>1. disk.dev # None => disk.token \in Accounts
      BY <1>1 DEF AccountInv, TypeOK, NumberInv, Config
    <3> QED BY <1>7, <1>8, <1>17, <3>1 DEF AccountInv, UsableInv, KeyUsable
  <2>3. ASSUME NEW q \in Procs, Carries(inv'[q])
        PROVE  \/ inv'[q].cfg.dev \in excused'
               \/ inv'[q].cfg.dev \in server'[inv'[q].cfg.token]
    <3>1. CASE q = p BY <1>3, <1>5, <1>6, <1>8, <3>1
    <3>2. CASE q # p
      <4>1. Carries(inv[q]) /\ inv'[q] = inv[q] BY <1>6, <2>3, <3>2
      <4>2. inv[q].cfg.token \in Accounts
        BY <4>1, AccountAssumption
        DEF AccountInv, TypeOK, Invocation, Config, Shape, Carries, Fresh, Foreign, Dev
      <4> QED BY <1>7, <1>8, <1>17, <4>1, <4>2 DEF AccountInv, UsableInv
    <3> QED BY <3>1, <3>2
  <2>4. ASSUME NEW a \in Accounts, NEW d \in server'[a] \ ({Foreign} \cup excused')
        PROVE  Held(d)'
    <3>1. CASE d = next BY <1>2, <1>3, <1>5, <1>6, <3>1 DEF Held, Fresh
    <3>2. CASE d # next
      <4>1. Held(d) BY <1>7, <1>8, <1>17, <2>4, <3>2 DEF AccountInv, HeldInv
      <4> QED BY <1>6, <1>7, <1>10, <4>1 DEF Held
    <3> QED BY <3>1, <3>2
  <2> QED BY <2>1, <2>2, <2>3, <2>4 DEF UsableInv, HeldInv
<1>18. ASSUME ~raced PROVE ExcludeInv' /\ ImportInv' /\ (~clobber => RemoveInv')
  <2>1. ExcludeInv' BY <1>5, <1>6, <1>7, <1>18 DEF AccountInv, ExcludeInv
  <2>2. ImportInv' BY <1>5, <1>6, <1>18 DEF AccountInv, ImportInv
  <2>3. ASSUME ~clobber PROVE RemoveInv'
    <3>1. RemoveInv BY <1>18, <2>3 DEF AccountInv
    <3> QED BY <1>2, <1>5, <1>6, <1>7, <3>1 DEF RemoveInv, Used
  <2> QED BY <2>1, <2>2, <2>3
<1> QED
  BY <1>7, <1>11, <1>12, <1>13, <1>14, <1>15, <1>16, <1>17, <1>18 DEF AccountInv

LEMMA RegisterDeviceInv ==
    ASSUME AccountInv, NEW p \in Procs, RegisterDevice(p)
    PROVE  AccountInv'
<1>1. /\ inv[p].pc = "register" /\ Others /\ Shape(inv[p])
      /\ inv[p] \in Invocation /\ budget \in Budgets
  BY DEF RegisterDevice, Authed, Unauthorized, AccountInv, TypeOK, Budgets
<1>2. Ends(p) /\ inv[p].acct \in Accounts BY <1>1 DEF Ends, Fresh, Shape, Stages
<1>3. CASE /\ next <= MaxDev /\ Registered(p)
           /\ Set(p, [inv[p] EXCEPT !.pc = AfterRegister(p), !.try = 1,
                                    !.cfg.token = inv[p].acct, !.cfg.dev = next])
           /\ UNCHANGED <<excused, budget>>
  BY <1>1, <1>3, RegisteredInv
<1>4. CASE Goto(p, "cap") /\ inv[p].verb = "login" /\ UNCHANGED <<world, budget>>
  <2>1. "cap" \in Stages(inv[p].verb) BY <1>4 DEF Stages
  <2> QED BY <1>1, <1>4, <2>1, GotoInv
<1>5. CASE Return(p) /\ UNCHANGED <<world, budget>>
  BY <1>1, <1>2, <1>5, Returns DEF world, AccountInv, TypeOK, Budgets
<1>6. CASE Unauthorized(p, "register", Return(p))
  <2>1. "register" \in Pcs \ {"idle", "undo", "revokeOld", "save"} BY DEF Pcs
  <2> QED BY <1>1, <1>6, <2>1, UnauthorizedInv
<1>7. CASE /\ next <= MaxDev
           /\ Lost(p, Registered(p) /\ excused' = excused \cup {next}, Return(p))
  <2>1. Return(p) /\ budget' \in Budgets BY <1>1, <1>7, SpendTyped DEF Lost
  <2>2. CASE Registered(p) /\ excused' = excused \cup {next}
    <3>1. /\ next \in Dev /\ server \in [Accounts -> SUBSET Dev] /\ excused \subseteq Dev
          /\ open' = open /\ open \subseteq Accounts
      BY <1>7, <2>2, AccountAssumption DEF AccountInv, TypeOK, Dev, Registered
    <3>2. /\ server' \in [Accounts -> SUBSET Dev]
          /\ \A a \in Accounts : /\ server[a] \subseteq server'[a]
                                 /\ server'[a] \subseteq server[a] \cup {next}
      BY <1>2, <2>2, <3>1 DEF Registered
    <3>3. Quiet(p, Idle)
      BY <1>1, <1>7, <2>1, <2>2, <3>1, <3>2
      DEF Quiet, Return, Set, Others, Registered, Budgets, AccountInv, TypeOK
    <3> QED BY <1>2, <3>3, QuietEnds
  <2>3. CASE UNCHANGED <<server, open, next, excused>>
    BY <1>1, <1>2, <2>1, <2>3, Returns DEF AccountInv, TypeOK
  <2> QED BY <1>7, <2>2, <2>3 DEF Lost
<1> QED BY <1>3, <1>4, <1>5, <1>6, <1>7 DEF RegisterDevice

LEMMA KillInv ==
    ASSUME AccountInv, NEW p \in Procs, Kill(p)
    PROVE  AccountInv'
<1>1. /\ inv[p] \in Invocation /\ Shape(inv[p]) /\ budget \in Budgets /\ excused \subseteq Dev
      /\ Return(p) /\ Spend("fault") /\ UNCHANGED <<server, next>>
      /\ excused' = excused \cup Pending(inv[p])
  BY DEF Kill, AccountInv, TypeOK, Budgets
<1>2. budget' \in Budgets BY <1>1, SpendTyped
<1>3. Pending(inv[p]) \subseteq Dev BY <1>1 DEF Pending, Shape, Stages, Fresh
<1>4. Ends(p)
  <2>1. Fresh(inv[p]) => inv[p].cfg.dev \in Pending(inv[p]) BY DEF Fresh, Pending
  <2>2. inv[p].pc = "revokeOld" => inv[p].old \in Pending(inv[p])
    BY DEF Pending
  <2> QED BY <1>1, <2>1, <2>2 DEF Ends
<1>5. Others BY DEF Kill, Others
<1>6. open' \subseteq Accounts BY DEF Kill, AccountInv, TypeOK
<1> QED BY <1>1, <1>2, <1>3, <1>4, <1>5, <1>6, Returns

LEMMA ToggleInv ==
    ASSUME AccountInv, Toggle
    PROVE  AccountInv'
<1>1. budget' \in Budgets
  BY SpendTyped DEF Toggle, AccountInv, TypeOK, Budgets
<1>2. TypeOK' BY <1>1 DEF Toggle, history, AccountInv, TypeOK, Budgets
<1>3. UNCHANGED <<disk, server, next, tun, inv, excused, clobber, raced>>
  BY DEF Toggle, history
<1> QED
  BY <1>2, <1>3
  DEF AccountInv, NumberInv, Below, FreshInv, CurrentInv, LogoutInv, OldInv, UsableInv,
      KeyUsable, HeldInv, Held, ExcludeInv, ImportInv, RemoveInv, Used

LEMMA DisconnectInv ==
    ASSUME AccountInv, Disconnect
    PROVE  AccountInv'
<1>1. /\ tun' = None /\ UNCHANGED <<disk, server, next, inv, excused, clobber, raced>>
  BY DEF Disconnect, history
<1>2. TypeOK' BY DEF Disconnect, history, AccountInv, TypeOK
<1>3. NumberInv' BY <1>1 DEF AccountInv, NumberInv, Below
<1>4. FreshInv'
  <2>1. \A p \in Procs : Fresh(inv[p]) => inv[p].cfg.dev # None
    BY AccountAssumption DEF AccountInv, Shape
  <2> QED BY <1>1, <2>1 DEF AccountInv, FreshInv
<1>5. CurrentInv' /\ LogoutInv' BY <1>1 DEF AccountInv, CurrentInv, LogoutInv
<1>6. ~clobber => OldInv' /\ UsableInv' /\ HeldInv'
  BY <1>1 DEF AccountInv, OldInv, UsableInv, KeyUsable, HeldInv, Held
<1>7. ~raced => ExcludeInv' /\ ImportInv'
  BY <1>1 DEF AccountInv, ExcludeInv, ImportInv
<1>8. ~raced /\ ~clobber => RemoveInv'
  <2>1. \A p \in Procs : inv[p].verb = "remove" => inv[p].key # None
    BY AccountAssumption DEF AccountInv, Shape
  <2> QED BY <1>1, <2>1 DEF AccountInv, RemoveInv, Used
<1> QED BY <1>1, <1>2, <1>3, <1>4, <1>5, <1>6, <1>7, <1>8 DEF AccountInv

\* The session of connect is up.
LEMMA UpInv ==
    ASSUME AccountInv, NEW p \in Procs, Up(p)
    PROVE  AccountInv'
<1>1. /\ inv[p].pc = "up" /\ inv[p] \in Invocation /\ Shape(inv[p]) /\ TypeOK
      /\ tun' = inv[p].cfg.dev /\ inv' = [inv EXCEPT ![p] = Idle]
      /\ UNCHANGED <<disk, server, next, excused, clobber, raced>>
  BY DEF Up, Return, Set, history, AccountInv, TypeOK
<1>2. inv[p].verb = "connect" BY <1>1 DEF Shape, Stages
<1>3. /\ inv'[p] = Idle /\ \A q \in Procs : q # p => inv'[q] = inv[q]
      /\ inv' \in [Procs -> Invocation]
  BY <1>1, IdleShape DEF TypeOK
<1>4. TypeOK'
  BY <1>1, <1>3 DEF Up, history, TypeOK, Invocation, Config
<1>5. (\A q \in Procs : Shape(inv[q]))' BY <1>3, IdleShape DEF AccountInv
<1>6. NumberInv' BY <1>1, <1>3, IdleFields DEF AccountInv, NumberInv, Below
<1>7. FreshInv'
  <2> SUFFICES ASSUME NEW q \in Procs, Fresh(inv'[q])
               PROVE  /\ inv'[q].cfg.dev # disk'.dev /\ inv'[q].cfg.dev # tun'
                      /\ \A x \in Procs : /\ inv'[x].old # inv'[q].cfg.dev
                                          /\ x # q => inv'[x].cfg.dev # inv'[q].cfg.dev
    BY DEF FreshInv
  <2>1. q # p /\ inv'[q] = inv[q] BY <1>3, IdleShape
  <2>2. inv[q].cfg.dev # None BY <2>1, AccountAssumption DEF AccountInv, Shape
  <2> QED BY <1>1, <1>3, <2>1, <2>2, IdleFields DEF AccountInv, FreshInv
<1>8. CurrentInv' BY <1>1, <1>3, IdleFields DEF AccountInv, CurrentInv
<1>9. LogoutInv' BY <1>1, <1>3, IdleFields DEF AccountInv, LogoutInv
<1>10. ASSUME ~clobber PROVE OldInv' /\ UsableInv' /\ HeldInv'
  <2>1. OldInv' BY <1>1, <1>3, <1>10, IdleFields DEF AccountInv, OldInv
  <2>2. KeyUsable' BY <1>1, <1>10 DEF AccountInv, UsableInv, KeyUsable
  <2>3. UsableInv' BY <1>1, <1>3, <1>10, <2>2, IdleShape DEF AccountInv, UsableInv
  <2>4. ~Fresh(inv[p]) BY <1>1 DEF Fresh
  <2>5. HeldInv' BY <1>1, <1>3, <1>10, <2>4 DEF AccountInv, HeldInv, Held
  <2> QED BY <2>1, <2>3, <2>5
<1>11. ASSUME ~raced PROVE ExcludeInv' /\ ImportInv' /\ (~clobber => RemoveInv')
  <2>1. ExcludeInv'
    <3>1. \A q \in Procs : inv[q].verb \notin {"rotate", "logout"}
      BY <1>2, <1>11 DEF AccountInv, ExcludeInv
    <3> QED BY <1>3, <3>1, IdleFields DEF ExcludeInv
  <2>2. ImportInv' BY <1>3, <1>11, IdleFields DEF AccountInv, ImportInv
  <2>3. ASSUME ~clobber PROVE RemoveInv'
    <3>1. RemoveInv BY <1>11, <2>3 DEF AccountInv
    <3> QED BY <1>1, <1>2, <1>3, <3>1, IdleFields DEF RemoveInv, Used
  <2> QED BY <2>1, <2>2, <2>3
<1> QED
  BY <1>1, <1>4, <1>5, <1>6, <1>7, <1>8, <1>9, <1>10, <1>11 DEF AccountInv

-----------------------------------------------------------------------------
(* The verbs begin *)

LEMMA BeginsInv ==
    ASSUME AccountInv, NEW p \in Procs, inv[p].pc = "idle",
           NEW verb \in Verbs, NEW acct \in Accounts \cup {None}, NEW key \in Dev \cup {None},
           NEW pc \in Pcs \ {"idle", "undo", "revokeOld"}, pc \in Stages(verb),
           pc = "save" => verb = "connect",
           verb \in {"login", "import", "logout", "remove", "rotate", "refresh"}
              => acct \in Accounts,
           verb \in {"logout", "remove"} => key \in Dev,
           verb = "logout" => key = disk.dev,
           verb = "rotate" => disk.dev \in Dev,
           verb = "signup" => disk.dev = None,
           verb = "import" => key = Foreign,
           verb \in {"rotate", "logout"} => tun = None,
           verb = "remove" => key # disk.dev,
           Begins(p, verb, acct, key, pc)
    PROVE  AccountInv'
<1> DEFINE r == [Idle EXCEPT !.verb = verb, !.pc = pc, !.cfg = disk,
                             !.acct = acct, !.old = disk.dev, !.key = key]
<1>1. /\ inv' = [inv EXCEPT ![p] = r] /\ raced' = (raced \/ Overlap(verb, key))
      /\ UNCHANGED <<disk, server, open, next, refuse, tun, clobber, out>>
      /\ excused' = excused \cup Reimported(verb, key)
      /\ Spend("verb") /\ inv[p] = Idle /\ TypeOK
  BY DEF Begins, Set, AccountInv, Shape
<1>13. excused \subseteq excused' /\ excused' \subseteq Dev
  <2>1. Reimported(verb, key) \subseteq Dev BY AccountAssumption DEF Reimported, Foreign, Dev
  <2> QED BY <1>1, <2>1 DEF TypeOK
<1>2. /\ r \in Invocation /\ r.pc = pc /\ r.verb = verb /\ r.cfg = disk
      /\ r.acct = acct /\ r.old = disk.dev /\ r.key = key
  <2>1. Idle \in Invocation /\ disk \in Config /\ disk.dev \in Dev \cup {None}
    BY <1>1, IdleShape, DevFields DEF TypeOK
  <2> QED BY <2>1 DEF Invocation, Pcs
<1> HIDE DEF r
<1>3. /\ inv'[p] = r /\ \A q \in Procs : q # p => inv'[q] = inv[q]
      /\ inv' \in [Procs -> Invocation]
  BY <1>1, <1>2 DEF TypeOK
<1>4. /\ Loaded(r) /\ ~Fresh(r) /\ ~Carries(r)
  BY <1>2 DEF Loaded, Fresh, Carries, Stages
<1>5. TypeOK'
  <2>1. budget' \in Budgets BY <1>1, SpendTyped DEF TypeOK, Budgets
  <2> QED BY <1>1, <1>3, <1>13, <2>1 DEF TypeOK, Budgets
<1>6. (\A q \in Procs : Shape(inv[q]))'
  <2>1. disk.dev # None => disk.token # None BY DEF AccountInv, NumberInv
  <2>2. Shape(r) BY <1>2, <1>4, <2>1 DEF Shape, Carries, Stages
  <2> QED BY <1>3, <2>2 DEF AccountInv
<1>7. NumberInv' BY <1>1, <1>2, <1>3 DEF AccountInv, NumberInv, Below
<1>8. FreshInv'
  <2> SUFFICES ASSUME NEW q \in Procs, Fresh(inv'[q])
               PROVE  /\ inv'[q].cfg.dev # disk'.dev /\ inv'[q].cfg.dev # tun'
                      /\ \A x \in Procs : /\ inv'[x].old # inv'[q].cfg.dev
                                          /\ x # q => inv'[x].cfg.dev # inv'[q].cfg.dev
    BY DEF FreshInv
  <2>1. q # p /\ inv'[q] = inv[q] BY <1>3, <1>4
  <2> QED BY <1>1, <1>2, <1>3, <2>1 DEF AccountInv, FreshInv
<1>9. CurrentInv' BY <1>1, <1>2, <1>3 DEF AccountInv, CurrentInv
<1>10. LogoutInv' BY <1>1, <1>2, <1>3, <1>13 DEF AccountInv, LogoutInv
<1>11. ASSUME ~clobber PROVE OldInv' /\ UsableInv' /\ HeldInv'
  <2>1. OldInv'
    <3> SUFFICES ASSUME NEW q \in Procs, inv'[q].pc = "revokeOld",
                        inv'[q].old \notin excused'
                 PROVE  /\ inv'[q].old # disk'.dev
                        /\ inv'[q].old = Foreign =>
                              \A x \in Procs : inv'[x].verb = "import" => inv'[x].stale
      BY DEF OldInv
    <3>1. q # p /\ inv'[q] = inv[q] BY <1>2, <1>3
    <3>2. verb = "import" => inv[q].old # Foreign
      BY <1>1, <3>1 DEF Reimported
    <3> QED BY <1>1, <1>2, <1>3, <1>11, <1>13, <3>1, <3>2 DEF AccountInv, OldInv
  <2>2. KeyUsable' BY <1>1, <1>11, <1>13 DEF AccountInv, UsableInv, KeyUsable
  <2>3. UsableInv' BY <1>1, <1>3, <1>4, <1>11, <1>13, <2>2 DEF AccountInv, UsableInv
  <2>4. ~Fresh(inv[p]) /\ inv[p].pc # "revokeOld" BY <1>1, IdleShape, IdleFields
  <2>5. HeldInv' BY <1>1, <1>3, <1>11, <1>13, <2>4 DEF AccountInv, HeldInv, Held
  <2> QED BY <2>1, <2>3, <2>5
<1>12. ASSUME ~raced' PROVE ExcludeInv' /\ ImportInv' /\ (~clobber => RemoveInv')
  <2>1. ~raced /\ ~Overlap(verb, key) BY <1>1, <1>12
  <2>2. ExcludeInv'
    <3> SUFFICES ASSUME NEW q \in Procs, inv'[q].verb \in {"rotate", "logout"}
                 PROVE  tun' = None /\ \A x \in Procs : inv'[x].verb # "connect"
      BY DEF ExcludeInv
    <3>1. CASE q = p
      <4>1. \A x \in Procs : inv[x].verb # "connect" BY <1>2, <1>3, <2>1, <3>1 DEF Overlap
      <4> QED BY <1>1, <1>2, <1>3, <3>1, <4>1
    <3>2. CASE q # p
      <4>1. verb # "connect" BY <1>3, <2>1, <3>2 DEF Overlap
      <4> QED BY <1>1, <1>2, <1>3, <2>1, <3>2, <4>1 DEF AccountInv, ExcludeInv
    <3> QED BY <3>1, <3>2
  <2>3. ImportInv'
    <3> SUFFICES ASSUME NEW x \in Procs, NEW y \in Procs,
                        inv'[x].verb = "remove", inv'[y].verb = "import"
                 PROVE  inv'[y].key # inv'[x].key
      BY DEF ImportInv
    <3>1. CASE x # p /\ y # p BY <1>3, <2>1, <3>1 DEF AccountInv, ImportInv
    <3>2. CASE x = p
      <4>1. y # p /\ verb = "remove" /\ inv[y].verb = "import" BY <1>2, <1>3, <3>2
      <4>2. {verb, inv[y].verb} = {"import", "remove"} BY <4>1
      <4> QED BY <1>2, <1>3, <2>1, <3>2, <4>1, <4>2 DEF Overlap
    <3>3. CASE y = p
      <4>1. x # p /\ verb = "import" /\ inv[x].verb = "remove" BY <1>2, <1>3, <3>3
      <4>2. {verb, inv[x].verb} = {"import", "remove"} BY <4>1
      <4> QED BY <1>2, <1>3, <2>1, <3>3, <4>1, <4>2 DEF Overlap
    <3> QED BY <3>1, <3>2, <3>3
  <2>4. ASSUME ~clobber PROVE RemoveInv'
    <3> SUFFICES ASSUME NEW x \in Procs, inv'[x].verb = "remove", Used(inv[x].key)'
                 PROVE  inv'[x].key # disk'.dev
      BY DEF RemoveInv
    <3>1. CASE x = p BY <1>1, <1>2, <1>3, <3>1
    <3>2. CASE x # p
      <4>1. RemoveInv BY <2>1, <2>4 DEF AccountInv
      <4>2. CASE verb = "connect" BY <1>1, <1>3, <2>1, <3>2, <4>2 DEF Overlap
      <4>3. CASE verb # "connect"
        <5>1. Used(inv[x].key) BY <1>1, <1>2, <1>3, <3>2, <4>3 DEF Used
        <5> QED BY <1>1, <1>3, <3>2, <4>1, <5>1 DEF RemoveInv
      <4> QED BY <4>2, <4>3
    <3> QED BY <3>1, <3>2
  <2> QED BY <2>2, <2>3, <2>4
<1> QED
  BY <1>1, <1>5, <1>6, <1>7, <1>8, <1>9, <1>10, <1>11, <1>12 DEF AccountInv

LEMMA VerbInv ==
    ASSUME AccountInv, NEW p \in Procs,
           \/ Signup(p) \/ Login(p) \/ Logout(p) \/ RotateKey(p)
           \/ DevicesRemove(p) \/ Refresh(p) \/ Connect(p)
    PROVE  AccountInv'
<1>1. /\ disk.token \in Accounts \cup {None} /\ disk.dev \in Dev \cup {None}
      /\ open \subseteq Accounts /\ Foreign \in Dev /\ None \notin Dev
  BY AccountAssumption DEF AccountInv, TypeOK, Config, Foreign, Dev
<1>2. CASE Signup(p) BY <1>1, <1>2, BeginsInv DEF Signup, Verbs, Pcs, Stages
<1>3. CASE Login(p)
  <2>1. PICK a \in Accounts :
           \/ Begins(p, "login", a, None, "expiry")
           \/ Begins(p, "import", a, Foreign, "expiry")
    BY <1>1, <1>3 DEF Login
  <2>2. inv[p].pc = "idle" BY <1>3 DEF Login
  <2>3. CASE Begins(p, "login", a, None, "expiry")
    BY <1>1, <2>2, <2>3, BeginsInv DEF Verbs, Pcs, Stages
  <2>4. CASE Begins(p, "import", a, Foreign, "expiry")
    BY <1>1, <2>2, <2>4, BeginsInv DEF Verbs, Pcs, Stages
  <2> QED BY <2>1, <2>3, <2>4
<1>4. CASE Logout(p)
  BY <1>1, <1>4, BeginsInv DEF Logout, MayChange, LoggedIn, Verbs, Pcs, Stages
<1>5. CASE RotateKey(p)
  BY <1>1, <1>5, BeginsInv DEF RotateKey, MayChange, LoggedIn, Verbs, Pcs, Stages
<1>6. CASE DevicesRemove(p)
  BY <1>1, <1>6, BeginsInv DEF DevicesRemove, Verbs, Pcs, Stages
<1>7. CASE Refresh(p) BY <1>1, <1>7, BeginsInv DEF Refresh, Verbs, Pcs, Stages
<1>8. CASE Connect(p) BY <1>1, <1>8, BeginsInv DEF Connect, Verbs, Pcs, Stages
<1> QED BY <1>2, <1>3, <1>4, <1>5, <1>6, <1>7, <1>8

-----------------------------------------------------------------------------
(* Save *)

\* Two invocations that differ only in stale.
Same(i, j) ==
    /\ j.pc = i.pc /\ j.verb = i.verb /\ j.cfg = i.cfg
    /\ j.acct = i.acct /\ j.old = i.old /\ j.key = i.key

LEMMA StaleFields ==
    ASSUME NEW i \in Invocation, NEW b \in BOOLEAN
    PROVE  LET j == [i EXCEPT !.stale = b] IN
           j \in Invocation /\ Same(i, j) /\ j.stale = b
BY DEF Invocation, Same

\* What a save does to the invocations.
LEMMA SaveOthers ==
    ASSUME AccountInv, NEW p \in Procs,
           inv' = [q \in Procs |->
                      CASE q = p -> Finished(p, AfterSave(p))
                        [] q # p /\ inv[q].pc = "idle" -> Idle
                        [] OTHER -> [inv[q] EXCEPT !.stale = @ \/ disk' # disk]],
           NEW q \in Procs, q # p
    PROVE  /\ inv'[q] \in Invocation /\ Same(inv[q], inv'[q]) /\ Shape(inv'[q])
           /\ inv[q].pc # "idle" => (inv'[q].stale <=> inv[q].stale \/ disk' # disk)
<1>1. inv[q] \in Invocation /\ Shape(inv[q]) BY DEF AccountInv, TypeOK
<1>2. CASE inv[q].pc = "idle"
  <2>1. inv[q] = Idle /\ inv'[q] = Idle BY <1>1, <1>2 DEF Shape
  <2> QED BY <1>1, <1>2, <2>1 DEF Same
<1>3. CASE inv[q].pc # "idle"
  <2> DEFINE b == inv[q].stale \/ disk' # disk
             j == [inv[q] EXCEPT !.stale = b]
  <2>1. inv'[q] = [inv[q] EXCEPT !.stale = @ \/ disk' # disk] BY <1>3
  <2>2. [inv[q] EXCEPT !.stale = @ \/ disk' # disk] = j BY <1>1 DEF Invocation
  <2>3. b \in BOOLEAN OBVIOUS
  <2>4. b <=> inv[q].stale \/ disk' # disk OBVIOUS
  <2> HIDE DEF b
  <2>5. j \in Invocation /\ Same(inv[q], j) /\ j.stale = b BY <1>1, <2>3, StaleFields
  <2> HIDE DEF j
  <2>6. Shape(j) BY <1>1, <1>3, <2>5 DEF Shape, Same, Fresh
  <2> QED BY <2>1, <2>2, <2>4, <2>5, <2>6
<1> QED BY <1>2, <1>3

LEMMA SaveSelf ==
    ASSUME AccountInv, NEW p \in Procs, inv[p].pc = "save"
    PROVE  LET r == Finished(p, AfterSave(p)) IN
           /\ r \in Invocation /\ Shape(r) /\ ~Fresh(r) /\ ~Carries(r)
           /\ \/ r = Idle /\ inv[p].verb \notin {"rotate", "connect"}
              \/ /\ inv[p].verb \in {"rotate", "connect"}
                 /\ r.pc = (IF inv[p].verb = "rotate" THEN "revokeOld" ELSE "up")
                 /\ r.verb = inv[p].verb /\ r.cfg = inv[p].cfg /\ r.stale = inv[p].stale
                 /\ r.old = inv[p].old /\ r.key = inv[p].key
<1> DEFINE r == Finished(p, AfterSave(p))
<1>1. inv[p] \in Invocation /\ Shape(inv[p]) BY DEF AccountInv, TypeOK
<1>2. CASE inv[p].verb \notin {"rotate", "connect"}
  <2>1. r = Idle BY <1>2 DEF Finished, AfterSave
  <2> HIDE DEF r
  <2> QED BY <1>2, <2>1, IdleShape DEF r
<1>3. CASE inv[p].verb \in {"rotate", "connect"}
  <2> DEFINE pc == IF inv[p].verb = "rotate" THEN "revokeOld" ELSE "up"
             j == [inv[p] EXCEPT !.pc = pc, !.try = 1]
  <2>1. pc \in Pcs /\ 1 \in {1, 2} BY DEF Pcs
  <2>2. r = j BY <1>3 DEF Finished, AfterSave
  <2>3. pc = (IF inv[p].verb = "rotate" THEN "revokeOld" ELSE "up") OBVIOUS
  <2> HIDE DEF pc
  <2>4. /\ j \in Invocation /\ j.pc = pc /\ j.verb = inv[p].verb /\ j.cfg = inv[p].cfg
        /\ j.stale = inv[p].stale /\ j.acct = inv[p].acct /\ j.old = inv[p].old
        /\ j.key = inv[p].key
    BY <1>1, <2>1, GotoFields
  <2> HIDE DEF j, r
  <2>5. ~Fresh(j) /\ ~Carries(j) BY <2>3, <2>4 DEF Fresh, Carries
  <2>6. Shape(j) BY <1>1, <1>3, <2>3, <2>4, <2>5 DEF Shape, Stages
  <2> QED BY <1>3, <2>2, <2>3, <2>4, <2>5, <2>6 DEF r
<1> QED BY <1>2, <1>3

\* While the file is the one that was loaded, a save writes what was loaded,
\* a device of its own, or none.
LEMMA SaveKinds ==
    ASSUME AccountInv, NEW p \in Procs, inv[p].pc = "save", ~inv[p].stale
    PROVE  /\ inv[p].old = disk.dev
           /\ \/ inv[p].verb \in {"refresh", "relays", "connect"} /\ inv[p].cfg = disk
              \/ inv[p].verb \in {"login", "rotate"} /\ Fresh(inv[p]) /\ Carries(inv[p])
              \/ /\ inv[p].verb = "import" /\ Carries(inv[p])
                 /\ inv[p].cfg.dev = Foreign /\ inv[p].key = Foreign
              \/ /\ inv[p].verb = "signup" /\ inv[p].cfg.dev = None /\ disk.dev = None
              \/ /\ inv[p].verb = "logout" /\ inv[p].cfg.dev = None
                 /\ disk.dev \in excused
<1>1. Shape(inv[p]) BY DEF AccountInv
<1>2. /\ inv[p].old = disk.dev
      /\ Loaded(inv[p]) => inv[p].cfg = disk
  <2>1. CurrentInv BY DEF AccountInv
  <2> QED BY <2>1 DEF CurrentInv
<1>3. inv[p].verb = "logout" => disk.dev \in excused
  <2>1. LogoutInv BY DEF AccountInv
  <2> QED BY <1>1, <1>2, <2>1 DEF LogoutInv, Shape
<1>4. inv[p].verb \in {"signup", "login", "import", "logout", "rotate", "refresh",
                       "relays", "connect"}
  <2>1. inv[p].verb \in Verbs BY DEF AccountInv, TypeOK, Invocation
  <2> QED BY <1>1, <2>1 DEF Shape, Stages, Verbs
<1> QED BY <1>1, <1>2, <1>3, <1>4 DEF Shape, Loaded, Fresh, Carries

LEMMA SavedInv ==
    ASSUME AccountInv, NEW p \in Procs, inv[p].pc = "save",
           disk' = inv[p].cfg, clobber' = (clobber \/ inv[p].stale),
           out' \in BOOLEAN,
           excused' = IF inv[p].verb \in {"login", "import"}
                        THEN excused \cup ({inv[p].old} \ {None, inv[p].cfg.dev})
                        ELSE excused,
           inv' = [q \in Procs |->
                      CASE q = p -> Finished(p, AfterSave(p))
                        [] q # p /\ inv[q].pc = "idle" -> Idle
                        [] OTHER -> [inv[q] EXCEPT !.stale = @ \/ disk' # disk]],
           UNCHANGED <<server, open, next, refuse, tun, raced, budget>>
    PROVE  AccountInv'
<1> DEFINE r == Finished(p, AfterSave(p))
<1>1. /\ inv[p] \in Invocation /\ Shape(inv[p]) /\ TypeOK
      /\ excused \subseteq excused' /\ excused' \subseteq Dev
  BY DEF AccountInv, TypeOK, Invocation
<1>2. inv'[p] = r OBVIOUS
<1>3. \A q \in Procs : q # p =>
          /\ inv'[q] \in Invocation /\ Same(inv[q], inv'[q]) /\ Shape(inv'[q])
          /\ inv[q].pc # "idle" => (inv'[q].stale <=> inv[q].stale \/ disk' # disk)
  BY SaveOthers
<1>4. /\ r \in Invocation /\ Shape(r) /\ ~Fresh(r) /\ ~Carries(r)
      /\ \/ r = Idle /\ inv[p].verb \notin {"rotate", "connect"}
         \/ /\ inv[p].verb \in {"rotate", "connect"}
            /\ r.pc = (IF inv[p].verb = "rotate" THEN "revokeOld" ELSE "up")
            /\ r.verb = inv[p].verb /\ r.cfg = inv[p].cfg /\ r.stale = inv[p].stale
            /\ r.old = inv[p].old /\ r.key = inv[p].key
  BY SaveSelf
<1> HIDE DEF r
<1>5. \A q \in Procs : q # p =>
          /\ Fresh(inv'[q]) <=> Fresh(inv[q])
          /\ Carries(inv'[q]) <=> Carries(inv[q])
          /\ Loaded(inv'[q]) <=> Loaded(inv[q])
  BY <1>3 DEF Same, Fresh, Carries, Loaded
<1>6. TypeOK'
  <2>1. inv' \in [Procs -> Invocation] BY <1>2, <1>3, <1>4
  <2>2. disk' \in Config BY <1>1 DEF Invocation
  <2>3. clobber' \in BOOLEAN OBVIOUS
  <2> QED BY <1>1, <2>1, <2>2, <2>3 DEF TypeOK
<1>7. (\A q \in Procs : Shape(inv[q]))' BY <1>2, <1>3, <1>4
<1>8. NumberInv'
  <2>1. /\ disk'.dev # None => disk'.token # None
        /\ Below(inv[p].cfg.dev) /\ Below(inv[p].old) /\ Below(tun)
    BY <1>1 DEF Shape, AccountInv, NumberInv
  <2>2. \A q \in Procs : Below(inv'[q].cfg.dev) /\ Below(inv'[q].old)
    BY <1>2, <1>3, <1>4, <2>1, IdleFields DEF Same, Below, AccountInv, NumberInv
  <2> QED BY <2>1, <2>2 DEF NumberInv, Below
<1>9. FreshInv'
  <2> SUFFICES ASSUME NEW q \in Procs, Fresh(inv'[q])
               PROVE  /\ inv'[q].cfg.dev # disk'.dev /\ inv'[q].cfg.dev # tun'
                      /\ \A x \in Procs : /\ inv'[x].old # inv'[q].cfg.dev
                                          /\ x # q => inv'[x].cfg.dev # inv'[q].cfg.dev
    BY DEF FreshInv
  <2>1. q # p /\ Fresh(inv[q]) /\ inv'[q].cfg = inv[q].cfg
    BY <1>2, <1>3, <1>4, <1>5 DEF Same
  <2>2. inv[q].cfg.dev # None BY <2>1, AccountAssumption DEF AccountInv, Shape
  <2>3. /\ inv[q].cfg.dev # tun
        /\ \A x \in Procs : /\ inv[x].old # inv[q].cfg.dev
                            /\ x # q => inv[x].cfg.dev # inv[q].cfg.dev
    BY <2>1 DEF AccountInv, FreshInv
  <2>4. ASSUME NEW x \in Procs
        PROVE  /\ inv'[x].old # inv[q].cfg.dev
               /\ x # q => inv'[x].cfg.dev # inv[q].cfg.dev
    <3>1. CASE x = p BY <1>2, <1>4, <2>1, <2>2, <2>3, <3>1, IdleFields
    <3>2. CASE x # p
      <4>1. Same(inv[x], inv'[x]) BY <1>3, <3>2
      <4> QED BY <2>3, <4>1 DEF Same
    <3> QED BY <3>1, <3>2
  <2> QED BY <2>1, <2>3, <2>4
<1>10. CurrentInv'
  <2> SUFFICES ASSUME NEW q \in Procs, inv'[q].pc \notin {"idle", "revokeOld"},
                      ~inv'[q].stale
               PROVE  /\ inv'[q].old = disk'.dev
                      /\ Loaded(inv'[q]) => inv'[q].cfg = disk'
    BY DEF CurrentInv
  <2>1. CASE q = p
    <3>1. inv[p].verb = "connect" /\ r.cfg = inv[p].cfg /\ r.old = inv[p].old /\ ~inv[p].stale
      BY <1>2, <1>4, <2>1, IdleFields
    <3> QED BY <1>2, <2>1, <3>1, SaveKinds
  <2>2. CASE q # p
    <3>1. Same(inv[q], inv'[q]) /\ (Loaded(inv'[q]) <=> Loaded(inv[q]))
      BY <1>3, <1>5, <2>2
    <3>2. inv[q].pc \notin {"idle", "revokeOld"} BY <3>1 DEF Same
    <3>3. ~inv[q].stale /\ disk' = disk BY <1>3, <2>2, <3>2
    <3>4. CurrentInv BY DEF AccountInv
    <3> QED BY <3>1, <3>2, <3>3, <3>4 DEF Same, CurrentInv
  <2> QED BY <2>1, <2>2
<1>11. LogoutInv'
  BY <1>1, <1>2, <1>3, <1>4, IdleFields DEF Same, AccountInv, LogoutInv
<1>12. ASSUME ~clobber' PROVE OldInv' /\ UsableInv' /\ HeldInv'
  <2>1. ~clobber /\ ~inv[p].stale BY <1>12
  <2>2. OldInv'
    <3> SUFFICES ASSUME NEW q \in Procs, inv'[q].pc = "revokeOld",
                        inv'[q].old \notin excused'
                 PROVE  /\ inv'[q].old # disk'.dev
                        /\ inv'[q].old = Foreign =>
                              \A x \in Procs : inv'[x].verb = "import" => inv'[x].stale
      BY DEF OldInv
    <3>1. ASSUME NEW x \in Procs, inv'[x].verb = "import"
          PROVE  /\ x # p /\ inv[x].verb = "import"
                 /\ inv'[x].stale <=> inv[x].stale \/ disk' # disk
      <4>1. x # p BY <1>2, <1>4, <3>1, IdleFields
      <4>2. inv[x].verb = "import" BY <1>3, <3>1, <4>1 DEF Same
      <4>3. inv[x].pc # "idle" BY <4>2 DEF AccountInv, Shape, Stages
      <4> QED BY <1>3, <4>1, <4>2, <4>3
    <3>2. CASE q = p
      <4>1. inv[p].verb = "rotate" /\ r.old = inv[p].old BY <1>2, <1>4, <3>2, IdleFields
      <4>2. Fresh(inv[p]) BY <4>1 DEF Fresh
      <4>3. inv[p].old # inv[p].cfg.dev BY <4>2 DEF AccountInv, FreshInv
      <4>4. disk' # disk BY <2>1, <4>3, SaveKinds
      <4> QED BY <1>2, <3>1, <3>2, <4>1, <4>3, <4>4
    <3>3. CASE q # p
      <4>1. inv[q].pc = "revokeOld" /\ inv'[q].old = inv[q].old BY <1>3, <3>3 DEF Same
      <4>2. /\ inv[q].old # disk.dev
            /\ inv[q].old = Foreign => \A x \in Procs : inv[x].verb = "import" => inv[x].stale
        BY <1>1, <2>1, <4>1 DEF AccountInv, OldInv
      <4>3. inv[q].old # None BY <4>1, AccountAssumption DEF AccountInv, Shape, Stages
      <4>4. Fresh(inv[p]) => inv[q].old # inv[p].cfg.dev BY DEF AccountInv, FreshInv
      <4>5. inv[q].old # inv[p].cfg.dev BY <2>1, <4>2, <4>3, <4>4, SaveKinds
      <4> QED BY <3>1, <4>1, <4>2, <4>5
    <3> QED BY <3>2, <3>3
  <2>3. KeyUsable'
    <3>1. Carries(inv[p]) => \/ inv[p].cfg.dev \in excused
                             \/ inv[p].cfg.dev \in server[inv[p].cfg.token]
      BY <2>1 DEF AccountInv, UsableInv
    <3>2. KeyUsable BY <2>1 DEF AccountInv, UsableInv
    <3> QED BY <1>1, <2>1, <3>1, <3>2, SaveKinds DEF KeyUsable
  <2>4. ASSUME NEW q \in Procs, Carries(inv'[q])
        PROVE  \/ inv'[q].cfg.dev \in excused'
               \/ inv'[q].cfg.dev \in server'[inv'[q].cfg.token]
    <3>1. q # p BY <1>2, <1>4, <2>4
    <3>2. Carries(inv[q]) /\ inv'[q].cfg = inv[q].cfg BY <1>3, <1>5, <2>4, <3>1 DEF Same
    <3> QED BY <1>1, <2>1, <3>2 DEF AccountInv, UsableInv
  <2>5. ASSUME NEW a \in Accounts, NEW d \in server'[a] \ ({Foreign} \cup excused')
        PROVE  Held(d)'
    <3>1. Held(d) BY <1>1, <2>1, <2>5 DEF AccountInv, HeldInv
    <3>2. d # None BY <2>5, AccountAssumption DEF AccountInv, TypeOK
    <3>3. CASE d = disk.dev
      <4>1. inv[p].old = d BY <2>1, <3>3, SaveKinds
      <4>2. inv[p].verb \in {"login", "import"} => inv[p].cfg.dev = d BY <2>5, <3>2, <4>1
      <4>5. CASE inv[p].cfg.dev = d BY <4>5 DEF Held
      <4>3. CASE inv[p].verb = "rotate"
        <5>1. r.pc = "revokeOld" /\ r.old = d BY <1>4, <4>1, <4>3
        <5> QED BY <1>2, <5>1 DEF Held
      <4>4. CASE inv[p].verb # "rotate" /\ inv[p].cfg.dev # d
        <5>1. inv[p].cfg = disk
          BY <1>1, <2>1, <2>5, <3>2, <3>3, <4>2, <4>4, SaveKinds
        <5> QED BY <3>3, <5>1 DEF Held
      <4> QED BY <4>3, <4>4, <4>5
    <3>4. ASSUME NEW q \in Procs, Fresh(inv[q]) /\ inv[q].cfg.dev = d PROVE Held(d)'
      <4>1. CASE q = p BY <3>4, <4>1 DEF Held
      <4>2. CASE q # p BY <1>3, <1>5, <3>4, <4>2 DEF Held, Same
      <4> QED BY <4>1, <4>2
    <3>5. ASSUME NEW q \in Procs, inv[q].pc = "revokeOld" /\ inv[q].old = d PROVE Held(d)'
      <4>1. q # p BY <3>5
      <4> QED BY <1>3, <3>5, <4>1 DEF Held, Same
    <3> QED BY <3>1, <3>3, <3>4, <3>5 DEF Held
  <2> QED BY <2>2, <2>3, <2>4, <2>5 DEF UsableInv, HeldInv
<1>13. ASSUME ~raced' PROVE ExcludeInv' /\ ImportInv' /\ (~clobber' => RemoveInv')
  <2>1. ExcludeInv'
    <3>1. ExcludeInv BY <1>13 DEF AccountInv
    <3> QED BY <1>2, <1>3, <1>4, <3>1, IdleFields DEF Same, ExcludeInv
  <2>2. ImportInv'
    <3>1. ImportInv BY <1>13 DEF AccountInv
    <3> QED BY <1>2, <1>3, <1>4, <3>1, IdleFields DEF Same, ImportInv
  <2>3. ASSUME ~clobber' PROVE RemoveInv'
    <3>1. RemoveInv /\ ImportInv /\ ~inv[p].stale BY <1>13, <2>3 DEF AccountInv
    <3> SUFFICES ASSUME NEW x \in Procs, inv'[x].verb = "remove", Used(inv[x].key)'
                 PROVE  inv'[x].key # disk'.dev
      BY DEF RemoveInv
    <3>2. x # p BY <1>2, <1>4, IdleFields
    <3>3. inv[x].verb = "remove" /\ inv'[x].key = inv[x].key BY <1>3, <3>2 DEF Same
    <3>4. Used(inv[x].key)
      <4>1. CASE tun' = inv'[x].key BY <3>3, <4>1 DEF Used
      <4>2. ASSUME NEW y \in Procs, inv'[y].verb = "connect", inv'[y].cfg.dev = inv'[x].key
            PROVE  Used(inv[x].key)
        <5>1. CASE y = p BY <1>2, <1>4, <3>3, <4>2, <5>1, IdleFields DEF Used
        <5>2. CASE y # p
          <6>1. Same(inv[y], inv'[y]) BY <1>3, <5>2
          <6> QED BY <3>3, <4>2, <6>1 DEF Used, Same
        <5> QED BY <5>1, <5>2
      <4> QED BY <4>1, <4>2 DEF Used
    <3>5. inv[x].key # disk.dev /\ inv[x].key # None
      BY <3>1, <3>3, <3>4, AccountAssumption DEF RemoveInv, AccountInv, Shape
    <3>6. Fresh(inv[p]) => inv[x].key # inv[p].cfg.dev
      BY <3>4 DEF Used, AccountInv, FreshInv, Fresh
    <3>7. inv[p].verb = "import" => inv[p].key # inv[x].key BY <3>1, <3>3 DEF ImportInv
    <3> QED BY <3>1, <3>3, <3>5, <3>6, <3>7, SaveKinds
  <2> QED BY <2>1, <2>2, <2>3
<1> QED
  BY <1>6, <1>7, <1>8, <1>9, <1>10, <1>11, <1>12, <1>13 DEF AccountInv

LEMMA SaveInv ==
    ASSUME AccountInv, NEW p \in Procs, Save(p)
    PROVE  AccountInv'
<1>1. /\ inv[p].pc = "save" /\ inv[p] \in Invocation /\ Shape(inv[p])
      /\ UNCHANGED <<server, open, next, refuse, tun, raced>>
  BY DEF Save, AccountInv, TypeOK
<1>2. CASE /\ disk' = inv[p].cfg
           /\ clobber' = (clobber \/ inv[p].stale)
           /\ out' = CASE inv[p].verb = "logout" -> TRUE
                       [] inv[p].verb \in {"login", "import"} -> FALSE
                       [] OTHER -> out
           /\ excused' = IF inv[p].verb \in {"login", "import"}
                           THEN excused \cup ({inv[p].old} \ {None, inv[p].cfg.dev})
                           ELSE excused
           /\ inv' = [q \in Procs |->
                         CASE q = p -> Finished(p, AfterSave(p))
                           [] q # p /\ inv[q].pc = "idle" -> Idle
                           [] OTHER -> [inv[q] EXCEPT !.stale = @ \/ disk' # disk]]
           /\ UNCHANGED budget
  <2>1. out' \in BOOLEAN BY <1>2 DEF AccountInv, TypeOK
  <2> QED BY <1>1, <1>2, <2>1, SavedInv
<1>3. CASE /\ Spend("fault")
           /\ Set(p, Finished(p, OnSaveError(p)))
           /\ UNCHANGED <<disk, clobber, out, excused>>
  <2>1. budget' \in Budgets BY <1>3, SpendTyped DEF AccountInv, TypeOK, Budgets
  <2>2. CASE inv[p].verb \notin {"login", "rotate"}
    <3>1. Return(p) BY <1>3, <2>2 DEF Finished, OnSaveError, Return
    <3>2. Others BY <1>1, <1>3 DEF Others
    <3>3. Ends(p) BY <1>1, <2>2 DEF Ends, Fresh
    <3> QED BY <1>1, <1>3, <2>1, <3>1, <3>2, <3>3, Returns DEF AccountInv, TypeOK
  <2>3. CASE inv[p].verb \in {"login", "rotate"}
    <3> DEFINE r == [inv[p] EXCEPT !.pc = "undo", !.try = 1]
    <3>1. Set(p, r) BY <1>3, <2>3 DEF Finished, OnSaveError
    <3>2. "undo" \in Pcs /\ 1 \in {1, 2} BY DEF Pcs
    <3>3. /\ r \in Invocation /\ r.pc = "undo" /\ r.verb = inv[p].verb
          /\ r.cfg = inv[p].cfg /\ r.stale = inv[p].stale /\ r.acct = inv[p].acct
          /\ r.old = inv[p].old /\ r.key = inv[p].key
      BY <1>1, <3>2, GotoFields
    <3> HIDE DEF r
    <3>4. Quiet(p, r)
      BY <1>1, <1>3, <2>1, <3>1 DEF Quiet, Set, Budgets, AccountInv, TypeOK
    <3>5. Fresh(r) /\ Fresh(inv[p]) /\ ~Carries(r) /\ ~Loaded(r)
      BY <1>1, <2>3, <3>3 DEF Fresh, Carries, Loaded
    <3>6. Shape(r) BY <1>1, <2>3, <3>3, <3>5 DEF Shape, Stages
    <3>7. Goes(p, r) BY <1>1, <2>3, <3>3, <3>5, <3>6 DEF Goes
    <3> QED BY <3>4, <3>7, QuietGoes
  <2> QED BY <2>2, <2>3
<1> QED BY <1>2, <1>3, Zenon DEF Save

-----------------------------------------------------------------------------
(* The invariant holds *)

LEMMA InitInv == Init => AccountInv
<1> SUFFICES ASSUME Init PROVE AccountInv OBVIOUS
<1>1. /\ disk.token = None /\ disk.dev = None /\ disk \in Config
      /\ \A p \in Procs : inv[p] = Idle
      /\ inv \in [Procs -> Invocation]
  BY IdleShape DEF Init, Empty, Config
<1>2. /\ server \in [Accounts -> SUBSET Dev]
      /\ \A a \in Accounts : server[a] \subseteq {Foreign}
  BY AccountAssumption DEF Init, Dev, Foreign
<1>3. TypeOK
  <2>1. next \in 1..(MaxDev + 1) BY AccountAssumption DEF Init
  <2> QED BY <1>1, <1>2, <2>1, AccountAssumption DEF Init, TypeOK
<1>4. \A p \in Procs : Shape(inv[p]) BY <1>1, IdleShape
<1>5. NumberInv BY <1>1, IdleFields DEF Init, NumberInv, Below
<1>6. FreshInv BY <1>1, IdleShape DEF FreshInv
<1>7. CurrentInv /\ LogoutInv BY <1>1, IdleFields DEF CurrentInv, LogoutInv
<1>8. OldInv BY <1>1, IdleFields DEF OldInv
<1>9. UsableInv BY <1>1, IdleShape DEF UsableInv, KeyUsable
<1>10. HeldInv BY <1>2 DEF HeldInv
<1>11. ExcludeInv /\ ImportInv /\ RemoveInv
  BY <1>1, IdleFields DEF ExcludeInv, ImportInv, RemoveInv
<1> QED BY <1>3, <1>4, <1>5, <1>6, <1>7, <1>8, <1>9, <1>10, <1>11 DEF AccountInv

LEMMA CallInv ==
    ASSUME AccountInv, NEW p \in Procs, Call(p)
    PROVE  AccountInv'
<1>1. CASE CreateAccount(p) BY <1>1, CreateAccountInv
<1>2. CASE AccountExpiry(p) BY <1>2, AccountExpiryInv
<1>3. CASE ListDevices(p) BY <1>3, ListDevicesInv
<1>4. CASE RegisterDevice(p) BY <1>4, RegisterDeviceInv
<1>5. CASE Revoke(p) BY <1>5, RevokeInv
<1>6. CASE Undo(p)
  <2> DEFINE d == inv[p].cfg.dev
             pc == "undo"
  <2>1. pc \in {"undo", "revokeOld"} /\ d = IF pc = "undo" THEN inv[p].cfg.dev ELSE inv[p].old
    OBVIOUS
  <2>2. RevokeLast(p, pc, d) BY <1>6 DEF Undo
  <2> HIDE DEF d, pc
  <2> QED BY <2>1, <2>2, RevokeLastInv
<1>7. CASE RevokeOld(p)
  <2> DEFINE d == inv[p].old
             pc == "revokeOld"
  <2>1. pc \in {"undo", "revokeOld"} /\ d = IF pc = "undo" THEN inv[p].cfg.dev ELSE inv[p].old
    OBVIOUS
  <2>2. RevokeLast(p, pc, d) BY <1>7 DEF RevokeOld
  <2> HIDE DEF d, pc
  <2> QED BY <2>1, <2>2, RevokeLastInv
<1>8. CASE Relays(p) BY <1>8, RelaysInv
<1>9. CASE Save(p) BY <1>9, SaveInv
<1>10. CASE Up(p) BY <1>10, UpInv
<1> QED BY <1>1, <1>2, <1>3, <1>4, <1>5, <1>6, <1>7, <1>8, <1>9, <1>10 DEF Call

LEMMA NextInv == AccountInv /\ [Next]_vars => AccountInv'
<1> SUFFICES ASSUME AccountInv, [Next]_vars PROVE AccountInv' OBVIOUS
<1>1. ASSUME NEW p \in Procs,
             \/ Signup(p) \/ Login(p) \/ Logout(p) \/ RotateKey(p)
             \/ DevicesRemove(p) \/ Refresh(p) \/ Connect(p)
      PROVE  AccountInv'
  BY <1>1, VerbInv
<1>2. ASSUME NEW p \in Procs, Call(p) PROVE AccountInv' BY <1>2, CallInv
<1>3. ASSUME NEW p \in Procs, Kill(p) PROVE AccountInv' BY <1>3, KillInv
<1>4. CASE Disconnect BY <1>4, DisconnectInv
<1>5. CASE Toggle BY <1>5, ToggleInv
<1>6. CASE UNCHANGED vars
  BY <1>6
  DEF vars, AccountInv, TypeOK, NumberInv, Below, FreshInv, CurrentInv, LogoutInv, OldInv,
      UsableInv, KeyUsable, HeldInv, Held, ExcludeInv, ImportInv, RemoveInv, Used
<1> QED BY <1>1, <1>2, <1>3, <1>4, <1>5, <1>6 DEF Next

\* The configuration, the devices and the invocations stay well typed, and
\* the device on disk is registered unless its revocation was asked for, one
\* save undid another, or an import took the device back while rotate-key was
\* about to revoke it (login, logout, rotateKey).
THEOREM KeyStaysUsable == Spec => [](TypeOK /\ KeyUsable)
<1>1. AccountInv => TypeOK /\ KeyUsable
  BY DEF AccountInv, UsableInv, KeyUsable
<1> QED BY <1>1, InitInv, NextInv, PTL DEF Spec

\* A device that a verb registered is on disk, about to be, or about to be
\* revoked, unless an answer was lost, the verb was killed, a second login
\* replaced it or one save undid another (the revocations after a failed save
\* and after a rotation).
THEOREM NothingLeftBehind == Spec => []NoOrphan
<1>1. AccountInv => NoOrphan
  <2> SUFFICES ASSUME AccountInv, ~clobber, NEW a \in Accounts,
                      NEW d \in server[a] \ ({Foreign} \cup excused)
               PROVE  d = disk.dev \/ \E p \in Procs : d \in Pending(inv[p])
    BY DEF NoOrphan
  <2>1. Held(d) BY DEF AccountInv, HeldInv
  <2>2. ASSUME NEW p \in Procs, Fresh(inv[p]) PROVE inv[p].cfg.dev \in Pending(inv[p])
    BY <2>2 DEF Fresh, Pending
  <2>3. ASSUME NEW p \in Procs, inv[p].pc = "revokeOld" PROVE inv[p].old \in Pending(inv[p])
    BY <2>3 DEF Pending
  <2> QED BY <2>1, <2>2, <2>3 DEF Held
<1> QED BY <1>1, InitInv, NextInv, PTL DEF Spec

-----------------------------------------------------------------------------
(* The key of a session *)

\* Only revocations take a device off an account.
LEMMA Revocations ==
    ASSUME AccountInv, Next, NEW a \in Accounts, NEW d \in server[a], d \notin server'[a]
    PROVE  \E p \in Procs :
              \/ inv[p].pc = "revoke" /\ d = inv[p].key
              \/ inv[p].pc = "undo" /\ d = inv[p].cfg.dev
              \/ inv[p].pc = "revokeOld" /\ d = inv[p].old
<1>1. server \in [Accounts -> SUBSET Dev] BY DEF AccountInv, TypeOK
<1>2. server' # server OBVIOUS
<1>3. ASSUME NEW p \in Procs, NEW x, Revoked(p, x) PROVE d = x
  BY <1>1, <1>3 DEF Revoked
<1>4. ASSUME NEW p \in Procs, Registered(p) PROVE FALSE
  BY <1>1, <1>4 DEF Registered
<1>5. ASSUME NEW p \in Procs, Call(p)
      PROVE  \/ inv[p].pc = "revoke" /\ d = inv[p].key
             \/ inv[p].pc = "undo" /\ d = inv[p].cfg.dev
             \/ inv[p].pc = "revokeOld" /\ d = inv[p].old
  <2>1. CASE Revoke(p)
    BY <1>2, <1>3, <2>1 DEF Revoke, Authed, Unauthorized, world, Lost
  <2>2. CASE Undo(p) BY <1>2, <1>3, <2>2 DEF Undo, RevokeLast, Authed
  <2>3. CASE RevokeOld(p) BY <1>2, <1>3, <2>3 DEF RevokeOld, RevokeLast, Authed
  <2>4. CASE RegisterDevice(p)
    BY <1>2, <1>4, <2>4 DEF RegisterDevice, Unauthorized, world, Lost
  <2>5. CASE CreateAccount(p) BY <1>2, <2>5 DEF CreateAccount, world, Lost
  <2>6. CASE AccountExpiry(p) BY <1>2, <2>6 DEF AccountExpiry, Unauthorized, world, Lost
  <2>7. CASE ListDevices(p) BY <1>2, <2>7 DEF ListDevices, Unauthorized, world, Lost
  <2>8. CASE Relays(p) BY <1>2, <2>8 DEF Relays, world, Lost
  <2>9. CASE Save(p) BY <1>2, <2>9 DEF Save
  <2>10. CASE Up(p) BY <1>2, <2>10 DEF Up
  <2> QED
    BY <1>5, <2>1, <2>2, <2>3, <2>4, <2>5, <2>6, <2>7, <2>8, <2>9, <2>10 DEF Call
<1>6. ASSUME NEW p \in Procs,
             \/ Signup(p) \/ Login(p) \/ Logout(p) \/ RotateKey(p)
             \/ DevicesRemove(p) \/ Refresh(p) \/ Connect(p)
      PROVE  FALSE
  BY <1>2, <1>6
  DEF Signup, Login, Logout, RotateKey, DevicesRemove, Refresh, Connect, Begins
<1>7. ASSUME NEW p \in Procs, Kill(p) PROVE FALSE BY <1>2, <1>7 DEF Kill
<1>8. CASE Disconnect BY <1>2, <1>8 DEF Disconnect
<1>9. CASE Toggle BY <1>2, <1>9 DEF Toggle
<1> QED BY <1>5, <1>6, <1>7, <1>8, <1>9 DEF Next

LEMMA StepSessionKey ==
    ASSUME AccountInv, [Next]_vars,
           tun # None, tun = disk.dev, ~raced, ~clobber, tun \in server[disk.token]
    PROVE  tun \in server'[disk.token]
<1>1. CASE UNCHANGED vars BY <1>1 DEF vars
<1>2. CASE Next
  <2> SUFFICES ASSUME tun \notin server'[disk.token] PROVE FALSE OBVIOUS
  <2>1. disk.token \in Accounts
    BY DEF AccountInv, TypeOK, NumberInv, Config
  <2>2. PICK p \in Procs :
           \/ inv[p].pc = "revoke" /\ tun = inv[p].key
           \/ inv[p].pc = "undo" /\ tun = inv[p].cfg.dev
           \/ inv[p].pc = "revokeOld" /\ tun = inv[p].old
    BY <1>2, <2>1, Revocations
  <2>3. Shape(inv[p]) BY DEF AccountInv
  <2>4. ExcludeInv /\ RemoveInv /\ FreshInv BY DEF AccountInv
  <2>5. CASE inv[p].pc = "revoke" /\ tun = inv[p].key
    <3>1. inv[p].verb \in {"logout", "remove"} BY <2>3, <2>5 DEF Shape, Stages
    <3> QED BY <2>4, <2>5, <3>1 DEF ExcludeInv, RemoveInv, Used
  <2>6. CASE inv[p].pc = "undo" /\ tun = inv[p].cfg.dev
    <3>1. Fresh(inv[p]) BY <2>3, <2>6 DEF Shape, Stages, Fresh
    <3> QED BY <2>4, <2>6, <3>1 DEF FreshInv
  <2>7. CASE inv[p].pc = "revokeOld" /\ tun = inv[p].old
    <3>1. inv[p].verb = "rotate" BY <2>3, <2>7 DEF Shape, Stages
    <3> QED BY <2>4, <3>1 DEF ExcludeInv
  <2> QED BY <2>2, <2>5, <2>6, <2>7
<1> QED BY <1>1, <1>2

\* No verb revokes the device on disk while a session uses its key, unless
\* the verb and connect, or an import and a removal of the device, overlapped
\* (the checks of logout, rotateKey and devicesRemove).
THEOREM SessionKeyStays == Spec => SessionKey
<1>1. AccountInv /\ [Next]_vars =>
         [tun # None /\ tun = disk.dev /\ ~raced /\ ~clobber
          /\ tun \in server[disk.token] => tun \in server'[disk.token]]_vars
  BY StepSessionKey
<1> QED BY <1>1, InitInv, NextInv, PTL DEF Spec, SessionKey
=============================================================================
