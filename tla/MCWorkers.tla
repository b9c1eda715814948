----------------------------- MODULE MCWorkers -----------------------------
(***************************************************************************)
(* Instances of Workers for TLC.                                           *)
(***************************************************************************)
EXTENDS Workers

CONSTANTS c1, c2

MCRemotes == <<c1, c2>>

Account0(status, start, scan) ==
    [status |-> status, start |-> start, scan |-> scan,
     found |-> (start + 1)..scan]

\* One account and room for another; two at different heights; one of them
\* above the tip.
One == (1 :> Account0("active", 0, 0)) @@ (2 :> Account0("absent", 0, 0))
Two == (1 :> Account0("active", 0, 1)) @@ (2 :> Account0("active", 0, 0))
High == (1 :> Account0("active", 2, 2)) @@ (2 :> Account0("active", 0, 0))

Plain == [local |-> 0, threads |-> [c \in Client |-> IF c = c1 THEN 1 ELSE 2],
          balance |-> FALSE, rows |-> {One}, depth |-> FALSE, split |-> 0,
          splitDepth |-> 0, minDepth |-> 0, rogue |-> {},
          events |-> {"connect", "client", "add"}, bound |-> 4]

Single == [c \in Client |-> 1]

\* Threads of the daemon alone.
Threads(n) ==
    [Plain EXCEPT !.local = n, !.threads = [c \in Client |-> 0],
                  !.rows = {One, Two, High}, !.bound = 3,
                  !.events = {"add", "status", "extend", "rollback"}]

\* Clients of one and two threads; of one beside a local thread, whose
\* connections the server may close; clients of one thread and rollbacks;
\* a client without the password; local threads by number, balanced, by
\* depth, and with one kept for synced accounts.
SomeSetups ==
    {Plain,
     [Plain EXCEPT !.local = 1, !.threads = Single, !.rows = {Two},
                   !.events = {"connect", "close", "extend"}, !.bound = 3],
     [Plain EXCEPT !.threads = Single, !.rows = {Two},
                   !.events = {"connect", "client", "rollback"}],
     [Plain EXCEPT !.rogue = {c1}, !.threads = Single, !.rows = {Two},
                   !.events = {"connect", "rogue"}, !.bound = 3],
     Threads(2), [Threads(2) EXCEPT !.balance = TRUE],
     [Threads(3) EXCEPT !.depth = TRUE, !.minDepth = 1],
     [Threads(3) EXCEPT !.depth = TRUE, !.split = 1]}

\* Three accounts for one client of two threads.
Three == [a \in Account |-> Account0("active", 0, 0)]
LeftoverSetups == {[Plain EXCEPT !.rows = {Three}]}
=============================================================================
