------------------------------ MODULE Workers ------------------------------
(***************************************************************************)
(* How accounts reach the scan threads, and how results come back: the     *)
(* assignment of check_loop (src/scanner.cpp), the server that balances    *)
(* accounts over local threads and monero-lws-client processes             *)
(* (src/rpc/scanner/server.cpp, queue.cpp, connection.cpp), and the client *)
(* process (src/rpc/scanner/client.cpp, src/client_main.cpp).              *)
(*                                                                         *)
(* Clients connect, authenticate, die and come back at any point.  A       *)
(* message is a record in a FIFO channel; a broken connection loses what   *)
(* is in it.  The server's strand runs on one thread, so each of its       *)
(* handlers is one step.  The chain does not fork here (Scanner.tla has    *)
(* the reorganisations, and the ranges of blocks a thread fetches): a      *)
(* block is its height.                                                    *)
(***************************************************************************)
EXTENDS Naturals, FiniteSets, Sequences, SequencesExt

CONSTANTS
    Account,          \* account ids, 1..n
    MaxHeight,        \* bound: the highest block
    Client,           \* connections of client processes
    Remotes,          \* Client as a sequence: the order of remote_
    Local,            \* the owner of the local threads
    None,             \* no replacement
    Setups,           \* command lines, see Setup
    InitialTop,
    RemoteThreshold,  \* remote_threshold
    ReplaceThreshold, \* replace_threshold
    Width             \* 2^w of the unsigned block depths

ASSUME WorkersAssumption ==
    /\ Account \subseteq Nat /\ MaxHeight \in Nat
    /\ {Remotes[i] : i \in DOMAIN Remotes} = Client
    /\ Len(Remotes) = Cardinality(Client)
    /\ InitialTop \in 0..MaxHeight
    /\ RemoteThreshold \in Nat /\ ReplaceThreshold \in Nat
    /\ Width \in Nat \ {0}

VARIABLES
    db,      \* the account table: [status, start, scan, found]
    top,     \* the daemon's height
    setup,   \* options of the processes
    phase,   \* "down" between two runs of check_loop, "run"
    active,  \* server::active_
    next,    \* server::next_thread_
    expired, \* remote_ holds a connection that no longer exists
    conn,    \* conn[c]: both ends of a connection
    queue,   \* queue[w]: [replace, push] of a worker thread
    mem,     \* mem[w]: [pc, users] of a worker thread
    events   \* steps the environment has taken

serverVars == <<active, next, expired>>
vars == <<db, top, setup, phase, serverVars, conn, queue, mem, events>>

Height == 0..MaxHeight
User == [id : Account, scan : Height]

Row == [status : {"absent", "active", "inactive"}, start : Height,
        scan : Height, found : SUBSET Height]

\* [local: scan threads of the daemon; threads[c]: those of a client;
\*  rows: account tables to start with;
\*  balance: --balance-new-addresses; depth: --block-depth-threading;
\*  split: threads for synced accounts, ceil of --split-sync-threads times
\*  local, 0 when off; splitDepth, minDepth; rogue: clients without the
\*  password; events: what may happen;
\*  bound: and how often].
Kinds == {"connect", "client", "close", "rogue", "add", "status", "rollback",
          "extend"}
Setup == [local : Nat, threads : [Client -> Nat], balance : BOOLEAN,
          rows : SUBSET [Account -> Row], depth : BOOLEAN, split : Nat, splitDepth : Nat, minDepth : Nat,
          rogue : SUBSET Client, events : SUBSET Kinds, bound : Nat]

MaxThreads == 3   \* bound: of one process

Worker == (Client \cup {Local}) \X (0..MaxThreads - 1)
LocalWorker == {<<Local, i>> : i \in 0..setup.local - 1}

Fresh == [live |-> FALSE, client |-> FALSE, threads |-> 0, out |-> <<>>,
          in |-> <<>>, nextPush |-> 0]
Empty == [replace |-> None, push |-> {}]
Idle == [pc |-> "take", users |-> {}]

Init ==
    /\ setup \in Setups
    /\ db \in setup.rows
    /\ top = InitialTop
    /\ phase = "down"
    /\ active = {} /\ next = 0 /\ expired = FALSE
    /\ conn = [c \in Client |-> Fresh]
    /\ queue = [w \in Worker |-> Empty]
    /\ mem = [w \in Worker |-> Idle]
    /\ events = 0

Event(kind) ==
    /\ kind \in setup.events
    /\ events < setup.bound
    /\ events' = events + 1

Max2(a, b) == IF a >= b THEN a ELSE b
Min2(a, b) == IF a <= b THEN a ELSE b

-----------------------------------------------------------------------------
(* The accounts and their division. *)

ActiveIds == {a \in Account : db[a].status = "active"}

\* get_full_account
Loaded(ids) == {[id |-> a, scan |-> db[a].scan] : a \in ids}

\* by_height; accounts of the same height may come in any order.
ByHeight(us) ==
    {s \in [1..Cardinality(us) -> us] :
        /\ {s[i] : i \in DOMAIN s} = us
        /\ \A i, j \in DOMAIN s : i < j => s[i].scan <= s[j].scan}

\* n accounts dealt to m threads, each taking its share of what is left:
\* how many are left after the first k.
Split(n, m, k) ==
    LET left[i \in 0..k] ==
          IF i = 0 THEN n ELSE left[i - 1] - left[i - 1] \div (m - (i - 1))
    IN left[k]

\* A thread takes its accounts from the end of the list.
Share(s, before, after) == Reverse(SubSeq(s, after + 1, before))

-----------------------------------------------------------------------------
(* check_loop: the local threads and their first accounts. *)

\* Even division by height.
EvenAssignment(s) ==
    [w \in LocalWorker |->
        LET n == setup.local IN
        ToSet(Share(s, Split(Len(s), n, w[2]), Split(Len(s), n, w[2] + 1)))]

\* raw_blockdepth is unsigned: an account above the tip wraps around.
RawDepth(u) == (top + Width - u.scan) % Width
Depth(u) == Max2(RawDepth(u), setup.minDepth)

\* Even threads take one account too many, odd ones one too few.
Moves(acc, u, start, last, target) ==
    /\ acc.thread < last
    /\ IF (acc.thread - start) % 2 = 0
         THEN acc.depth >= target
         ELSE (acc.depth + Depth(u)) % Width > target

\* Accounts s, by depth, dealt to the threads start..start + n - 1; what is
\* left over when there are no threads for them goes to nobody.
ByDepth(s, start, n) ==
    LET target == FoldLeft(LAMBDA sum, u : (sum + Depth(u)) % Width, 0, s) \div n
        Step(acc, u) ==
            LET moves == Moves(acc, u, start, start + n - 1, target)
                t == IF moves THEN acc.thread + 1 ELSE acc.thread IN
            [thread |-> t,
             depth |-> ((IF moves THEN 0 ELSE acc.depth) + Depth(u)) % Width,
             out |-> [acc.out EXCEPT ![<<Local, t>>] = @ \cup {u}]]
        none == [thread |-> start, depth |-> 0,
                 out |-> [w \in LocalWorker |-> {}]]
    IN IF n = 0 THEN none.out ELSE FoldLeft(Step, none, s).out

\* Threads kept for synced accounts.
SyncedThreads(synced) == IF synced = <<>> THEN 0 ELSE setup.split

\* --block-depth-threading, with or without --split-sync-threads.
DepthAssignment(s) ==
    LET Synced(u) == setup.split > 0 /\ RawDepth(u) <= setup.splitDepth
        synced == SelectSeq(s, Synced)
        rest == SelectSeq(s, LAMBDA u : ~Synced(u))
        kept == SyncedThreads(synced)
        used == Min2(kept, Len(synced))
        others == ByDepth(rest, kept, setup.local - kept) IN
    [w \in LocalWorker |-> others[w] \cup
        {synced[i] : i \in {j \in DOMAIN synced :
                               kept > 0 /\ (j - 1) % used = w[2]}}]

\* account_depths
ByRawDepth(us) ==
    {s \in [1..Cardinality(us) -> us] :
        /\ {s[i] : i \in DOMAIN s} = us
        /\ \A i, j \in DOMAIN s : i < j => RawDepth(s[i]) <= RawDepth(s[j])}

FirstAssignments(us) ==
    IF setup.depth THEN {DepthAssignment(s) : s \in ByRawDepth(us)}
                   ELSE {EvenAssignment(s) : s \in ByHeight(us)}

\* run loads the accounts if there are local threads, and waits while there
\* are none; check_loop starts the threads and the server.
Load ==
    /\ phase = "down"
    /\ setup.local > 0 => ActiveIds # {}
    /\ IF setup.local = 0
         THEN mem' = [w \in Worker |-> Idle] /\ active' = {}
         ELSE /\ \E f \in FirstAssignments(Loaded(ActiveIds)) :
                    mem' = [w \in Worker |-> IF w \in LocalWorker
                              THEN [Idle EXCEPT !.users = f[w]] ELSE Idle]
              /\ active' = ActiveIds
    /\ queue' = [w \in Worker |-> Empty]
    /\ next' = 0 /\ expired' = FALSE
    /\ phase' = "run"
    /\ UNCHANGED <<db, top, setup, conn, events>>

\* A check-in was refused: the server closes every connection, all threads
\* end, and run starts over.
Reset ==
    /\ phase' = "down"
    /\ conn' = [c \in Client |-> Fresh]
    /\ queue' = [w \in Worker |-> Empty]
    /\ mem' = [w \in Worker |-> Idle]
    /\ active' = {} /\ next' = 0 /\ expired' = FALSE

-----------------------------------------------------------------------------
(* The server: accounts to local queues and remote clients. *)

LiveConns(cn) == SelectSeq(Remotes, LAMBDA c : cn[c].live)
ReadyConns(cn) == SelectSeq(LiveConns(cn), LAMBDA c : cn[c].threads > 0)

\* Threads before the k-th connection of cs, and in all.
Offset(cn, cs, k) ==
    LET before[i \in 1..k] ==
          IF i = 1 THEN setup.local ELSE before[i - 1] + cn[cs[i - 1]].threads
    IN before[k]
TotalThreads(cn) == Offset(cn, ReadyConns(cn), Len(ReadyConns(cn)) + 1)

\* replace_accounts of a queue
Replaced(us) == [replace |-> us, push |-> {}]

\* write_command: max_write_buffers is far away.
Send(end, message) == [end EXCEPT !.out = Append(@, message)]

\* What a client with so many threads gets of the accounts left.
RemoteShare(left, remaining, threads) ==
    Min2(left, Max2(1, left \div Max2(1, remaining)) * threads)

ResetThread == 0

\* do_replace_users: accounts are taken from the end of s, first by the local
\* threads, then by the clients.  Few accounts stay with the local threads.
ReplaceUsers(cn, s) ==
    LET cs == LiveConns(cn)
        few == setup.local > 0 /\ Len(s) \div setup.local < RemoteThreshold
        m == IF few THEN setup.local ELSE TotalThreads(cn)
        n == Split(Len(s), m, setup.local)
        deal[k \in 0..Len(cs)] ==
            IF k = 0 THEN [left |-> n, remaining |-> m - setup.local]
            ELSE LET d == deal[k - 1]  t == cn[cs[k]].threads IN
                 [left |-> d.left - RemoteShare(d.left, d.remaining, t),
                  remaining |-> d.remaining - Min2(d.remaining, t)]
        at(c) == CHOOSE k \in DOMAIN cs : cs[k] = c IN
    /\ queue' = [w \in Worker |-> IF w \in LocalWorker
          THEN Replaced(ToSet(Share(s, Split(Len(s), m, w[2]),
                                       Split(Len(s), m, w[2] + 1))))
          ELSE queue[w]]
    /\ conn' = [c \in Client |-> IF ~cn[c].live THEN cn[c] ELSE
          Send(cn[c], [kind |-> "replace",
                       users |-> Share(s, deal[at(c) - 1].left, deal[at(c)].left)])]
    /\ next' = ResetThread
    /\ active' = {u.id : u \in ToSet(s)}

\* Without threads the accounts wait for the first client.
DoReplaceUsers(cn) ==
    /\ expired' = FALSE
    /\ IF TotalThreads(cn) = 0
         THEN conn' = cn /\ UNCHANGED <<active, next, queue>>
         ELSE \E s \in ByHeight(Loaded(ActiveIds)) : ReplaceUsers(cn, s)

\* Mutant: lost connections are not looked for.
ReshuffleAccounts ==
    /\ TotalThreads(conn) > 0
    /\ \/ ~(active \subseteq ActiveIds)
       \/ Cardinality(ActiveIds \ active) > ReplaceThreshold

\* Some connection is gone, some account is no longer active, or too many
\* are new.
Reshuffle ==
    \/ expired
    \/ /\ TotalThreads(conn) > 0
       /\ \/ ~(active \subseteq ActiveIds)
          \/ Cardinality(ActiveIds \ active) > ReplaceThreshold

CheckUsersReplace ==
    /\ phase = "run"
    /\ Reshuffle
    /\ DoReplaceUsers(conn)
    /\ UNCHANGED <<db, top, setup, phase, mem, events>>

\* The client that next_thread_ falls to: the first whose offset is not
\* below it.
NextRemote(n) ==
    LET cs == ReadyConns(conn) IN
    CHOOSE k \in 1..Len(cs) + 1 :
        /\ k <= Len(cs) => n <= Offset(conn, cs, k)
        /\ \A j \in 1..k - 1 : n > Offset(conn, cs, j)

\* check_users hands out new accounts, from the end of their list: one to a
\* local thread, as many as it has threads to a client.  State of the loop:
\* the accounts left, next_thread_, and what was handed out.
Pushed(news) ==
    LET total == TotalThreads(conn)
        Local1(st) ==
            [st EXCEPT !.left = Front(@),
                       !.next = (@ + 1) % total,
                       !.push = @ \cup {<<st.next, Last(st.left)>>}]
        Remote1(st) ==
            LET c == ReadyConns(conn)[NextRemote(st.next)]
                n == Min2(Len(st.left), conn[c].threads)
                keep == Len(st.left) - n IN
            [st EXCEPT !.left = SubSeq(@, 1, keep),
                       !.next = (@ + conn[c].threads) % total,
                       !.out = [@ EXCEPT ![c] = Append(@, [kind |-> "push",
                                  users |-> SubSeq(st.left, keep + 1,
                                                   Len(st.left))])]]
        run[i \in 0..Len(news)] ==
            IF i = 0
              THEN [left |-> news, next |-> next % total, push |-> {},
                    out |-> [c \in Client |-> conn[c].out]]
              ELSE LET st == run[i - 1] IN
                   IF st.left = <<>> THEN st
                   ELSE IF st.next < setup.local THEN Local1(st)
                                                 ELSE Remote1(st)
    IN run[Len(news)]

PushRoundRobin(news) ==
    LET st == Pushed(news) IN
    /\ queue' = [w \in Worker |-> IF w[1] = Local
          THEN [queue[w] EXCEPT !.push = @ \cup
                   {p[2] : p \in {q \in st.push : q[1] = w[2]}}]
          ELSE queue[w]]
    /\ conn' = [c \in Client |-> [conn[c] EXCEPT !.out = st.out[c]]]
    /\ next' = st.next

\* --balance-new-addresses: each to the local thread whose height fits best
\* (the height of a thread is advisory: any thread).
PushBalanced(us) ==
    /\ \E f \in [us -> LocalWorker] :
          queue' = [w \in Worker |-> [queue[w] EXCEPT
                       !.push = @ \cup {u \in us : f[u] = w}]]
    /\ UNCHANGED <<conn, next>>

CheckUsersPush ==
    /\ phase = "run"
    /\ ~Reshuffle
    /\ TotalThreads(conn) > 0
    /\ active # ActiveIds
    /\ LET us == Loaded(ActiveIds \ active) IN
       IF setup.balance /\ setup.local > 0
         THEN PushBalanced(us)
         ELSE PushRoundRobin(SetToSortSeq(us, LAMBDA u, v : u.id < v.id))
    /\ active' = ActiveIds
    /\ UNCHANGED <<db, top, setup, phase, expired, mem, events>>

-----------------------------------------------------------------------------
(* storage::update, as in Storage.tla. *)

\* Mutant: a check-in ahead of the table is taken too.
CountsAny(u) == db[u.id].status # "absent"

Counts(u) == db[u.id].status # "absent" /\ u.scan <= db[u.id].scan

Updated(us, last) ==
    [a \in Account |->
        IF \E u \in us : u.id = a /\ Counts(u) /\ db[a].scan < last
          THEN [db[a] EXCEPT !.scan = last, !.found = @ \cup
                   UNION {(u.scan + 1)..last : u \in {v \in us : v.id = a}}]
          ELSE db[a]]

\* user_data::store returns false.
Refused(us) == \E u \in us : ~Counts(u)

-----------------------------------------------------------------------------
(* A connection, server side. *)

Dropped(c) ==
    /\ conn' = [conn EXCEPT ![c] = Fresh]
    /\ queue' = [w \in Worker |-> IF w[1] = c THEN Empty ELSE queue[w]]
    /\ mem' = [w \in Worker |-> IF w[1] = c THEN Idle ELSE mem[w]]
    /\ expired' = TRUE

Taken(c) == [conn[c] EXCEPT !.in = Tail(@)]

\* initialize: once, with threads and the right password.
Accepts(c) ==
    /\ conn[c].threads = 0
    /\ setup.threads[c] > 0
    /\ c \notin setup.rogue

\* server::acceptor: a client process connects and sends initialize.
Connect(c) ==
    /\ phase = "run"
    /\ Event("connect")
    /\ ~conn[c].live
    /\ setup.threads[c] > 0
    /\ conn' = [conn EXCEPT ![c] = [Fresh EXCEPT !.live = TRUE,
                  !.client = TRUE, !.in = <<[kind |-> "initialize"]>>]]
    /\ UNCHANGED <<db, top, setup, phase, serverVars, queue, mem>>

\* initialize_handler: the new client is given its part of the accounts, or
\* the connection is closed.
ReadInitialize(c) ==
    /\ Head(conn[c].in).kind = "initialize"
    /\ IF Accepts(c)
         THEN /\ DoReplaceUsers([conn EXCEPT ![c] =
                     [Taken(c) EXCEPT !.threads = setup.threads[c]]])
              /\ UNCHANGED mem
         ELSE Dropped(c) /\ UNCHANGED <<active, next>>
    /\ UNCHANGED <<db, phase>>

\* authenticated_, tested on the header of every message (next_size).
Known(c) == conn[c].threads > 0

\* update_accounts_handler and server::store.
ReadUpdate(c) ==
    LET m == Head(conn[c].in) IN
    /\ m.kind = "update"
    /\ IF ~Known(c)
         THEN Dropped(c) /\ UNCHANGED <<db, phase, active, next>>
         ELSE /\ db' = Updated(m.users, m.last)
              /\ IF Refused(m.users) THEN Reset
                 ELSE /\ conn' = [conn EXCEPT ![c] = Taken(c)]
                      /\ UNCHANGED <<phase, serverVars, queue, mem>>

\* The server reads one command, also of a client that has gone since.
ServerReads(c) ==
    /\ conn[c].live /\ conn[c].in # <<>>
    /\ ReadInitialize(c) \/ ReadUpdate(c)
    /\ UNCHANGED <<top, setup, events>>

\* A read or write error, a write timeout: base_cleanup.  The server hears of
\* a client that has gone at any time after it has.
ServerCloses(c) ==
    /\ conn[c].live
    /\ Dropped(c)
    /\ UNCHANGED <<db, top, setup, phase, active, next>>

-----------------------------------------------------------------------------
(* A client process. *)

ClientThreads(c) == {<<c, i>> : i \in 0..setup.threads[c] - 1}

\* client::replace_accounts
ClientReplace(c, s) ==
    LET n == setup.threads[c] IN
    /\ queue' = [w \in Worker |-> IF w \in ClientThreads(c)
          THEN Replaced(ToSet(Share(s, Split(Len(s), n, w[2]),
                                       Split(Len(s), n, w[2] + 1))))
          ELSE queue[w]]
    /\ conn' = [conn EXCEPT ![c].out = Tail(@), ![c].nextPush = 0]

\* client::push_accounts: round robin over the threads.
ClientPush(c, s) ==
    LET n == setup.threads[c]
        first == conn[c].nextPush IN
    /\ queue' = [w \in Worker |-> IF w \in ClientThreads(c)
          THEN [queue[w] EXCEPT !.push = @ \cup
                   {s[i] : i \in {j \in DOMAIN s : (first + j - 1) % n = w[2]}}]
          ELSE queue[w]]
    /\ conn' = [conn EXCEPT ![c].out = Tail(@),
                            ![c].nextPush = (first + Len(s)) % n]

ClientReads(c) ==
    /\ conn[c].client /\ conn[c].out # <<>>
    /\ LET m == Head(conn[c].out) IN
       IF m.kind = "replace" THEN ClientReplace(c, m.users)
                             ELSE ClientPush(c, m.users)
    /\ UNCHANGED <<db, top, setup, phase, serverVars, mem, events>>

\* The client process dies or loses its connection; a new one may connect
\* once the server has noticed.
ClientGone(c) ==
    /\ Event("client")
    /\ conn[c].client
    /\ conn' = [conn EXCEPT ![c].client = FALSE, ![c].out = <<>>]
    /\ queue' = [w \in Worker |-> IF w[1] = c THEN Empty ELSE queue[w]]
    /\ mem' = [w \in Worker |-> IF w[1] = c THEN Idle ELSE mem[w]]
    /\ UNCHANGED <<db, top, setup, phase, serverVars>>

\* A client that has not authenticated sends a check-in of its own.
RogueSends(c) ==
    /\ c \in setup.rogue
    /\ Event("rogue")
    /\ conn[c].client
    /\ \E u \in User, last \in Height :
          conn' = [conn EXCEPT ![c].in =
                     <<[kind |-> "update", users |-> {u}, last |-> last]>>]
    /\ UNCHANGED <<db, top, setup, phase, serverVars, queue, mem>>

-----------------------------------------------------------------------------
(* A scan thread: scanner::loop over either store function. *)

Lowest(us) == CHOOSE h \in {u.scan : u \in us} : \A u \in us : h <= u.scan

\* Mutant: accounts pushed after a replacement are dropped with it.
ReceivedReplacement(w) ==
    IF queue[w].replace = None THEN mem[w].users \cup queue[w].push
                               ELSE queue[w].replace

Received(w) ==
    (IF queue[w].replace = None THEN mem[w].users ELSE queue[w].replace)
        \cup queue[w].push

\* The thread reads its queue, and has the next blocks for its accounts
\* unless they are at the top.
Take(w) ==
    /\ phase = "run" /\ mem[w].pc = "take"
    /\ LET us == Received(w) IN
       /\ queue[w] # Empty \/ (us # {} /\ Lowest(us) < top)
       /\ mem' = [mem EXCEPT ![w] =
             [users |-> us,
              pc |-> IF us # {} /\ Lowest(us) < top THEN "store" ELSE "take"]]
    /\ queue' = [queue EXCEPT ![w] = Empty]
    /\ UNCHANGED <<db, top, setup, phase, serverVars, conn, events>>

Forward(us, last) == {[u EXCEPT !.scan = Max2(@, last)] : u \in us}

Stored(w, last) ==
    mem' = [mem EXCEPT ![w] = [pc |-> "take",
                               users |-> Forward(mem[w].users, last)]]

\* user_data: the thread of the daemon writes to the database.
LocalCheckIn(w, last) ==
    LET us == mem[w].users IN
    /\ w \in LocalWorker
    /\ db' = Updated(us, last)
    /\ IF Refused(us) THEN Reset
       ELSE Stored(w, last) /\ UNCHANGED <<phase, serverVars, conn, queue>>

\* send_users: the client carries on without waiting for the answer.
RemoteCheckIn(w, last) ==
    /\ w \notin LocalWorker
    /\ conn' = [conn EXCEPT ![w[1]].in = Append(@,
          [kind |-> "update", users |-> mem[w].users, last |-> last])]
    /\ Stored(w, last)
    /\ UNCHANGED <<db, phase, serverVars, queue>>

CheckIn(w) ==
    /\ phase = "run" /\ mem[w].pc = "store"
    /\ \E last \in Lowest(mem[w].users) + 1..top :
          LocalCheckIn(w, last) \/ RemoteCheckIn(w, last)
    /\ UNCHANGED <<top, setup, events>>

-----------------------------------------------------------------------------
(* The administrator and the daemon. *)

AddAccount ==
    /\ Event("add")
    /\ \E a \in Account :
          /\ db[a].status = "absent"
          /\ db' = [db EXCEPT ![a] = [status |-> "active", start |-> top,
                                     scan |-> top, found |-> {}]]
    /\ UNCHANGED <<top, setup, phase, serverVars, conn, queue, mem>>

ChangeStatus ==
    /\ Event("status")
    /\ \E a \in Account, s \in {"active", "inactive"} :
          /\ db[a].status \notin {"absent", s}
          /\ db' = [db EXCEPT ![a].status = s]
    /\ UNCHANGED <<top, setup, phase, serverVars, conn, queue, mem>>

Rollback ==
    /\ Event("rollback")
    /\ \E h \in 1..top :
          db' = [a \in Account |->
             IF db[a].scan < h THEN db[a]
             ELSE [db[a] EXCEPT !.scan = h - 1,
                                !.start = Min2(@, h - 1),
                                !.found = {b \in @ : b < h}]]
    /\ UNCHANGED <<top, setup, phase, serverVars, conn, queue, mem>>

DaemonExtend ==
    /\ Event("extend")
    /\ top < MaxHeight
    /\ top' = top + 1
    /\ UNCHANGED <<db, setup, phase, serverVars, conn, queue, mem>>

ServerStep ==
    Load \/ CheckUsersReplace \/ CheckUsersPush

Next ==
    \/ ServerStep
    \/ \E c \in Client : \/ Connect(c) \/ ServerReads(c) \/ ClientReads(c)
                         \/ ClientGone(c) \/ RogueSends(c)
                         \/ Event("close") /\ ServerCloses(c)
                         \/ ~conn[c].client /\ ServerCloses(c)
                               /\ UNCHANGED events
    \/ \E w \in Worker : Take(w) \/ CheckIn(w)
    \/ AddAccount \/ ChangeStatus \/ Rollback
    \/ DaemonExtend

Spec == Init /\ [][Next]_vars

(***************************************************************************)
(* Threads are scheduled, the timer of check_users fires, messages arrive, *)
(* and the operating system tells the server that a client's socket was    *)
(* closed.  Clients need not connect again, and the administrator and the  *)
(* daemon need not do anything.                                            *)
(***************************************************************************)
FairSpec ==
    /\ Spec
    /\ WF_vars(ServerStep)
    /\ \A c \in Client :
          /\ WF_vars(ServerReads(c))
          /\ WF_vars(ClientReads(c))
          /\ WF_vars(~conn[c].client /\ ServerCloses(c) /\ UNCHANGED events)
    /\ \A w \in Worker : WF_vars(Take(w) \/ CheckIn(w))

-----------------------------------------------------------------------------
(* Properties *)

TypeOK ==
    /\ setup \in Setups
    /\ top \in Height
    /\ phase \in {"down", "run"}
    /\ active \subseteq Account
    /\ next \in Nat /\ expired \in BOOLEAN
    /\ \A c \in Client :
          /\ conn[c].threads \in {0, setup.threads[c]}
          /\ conn[c].client => conn[c].live
          /\ ~conn[c].live => conn[c] = Fresh
    /\ \A w \in Worker :
          /\ mem[w].users \subseteq User /\ mem[w].pc \in {"take", "store"}
          /\ queue[w].push \subseteq User
          /\ queue[w].replace = None \/ queue[w].replace \subseteq User
          /\ mem[w] # Idle => w \in LocalWorker \/ w \in ClientThreads(w[1])
    /\ events \in 0..setup.bound

\* The abstract specification: its account table is the database's, its
\* height the daemon's; connections, queues and threads are not part of it.
Service == INSTANCE ScanService
           WITH Account <- Account, MaxHeight <- MaxHeight, db <- db, top <- top

\* Local threads and remote clients together implement ScanService: although
\* after a reshuffle two workers may hold the same account, a client checks
\* in blocks before it hears of a replacement, and late messages of a dead
\* client are still stored, no account ever misses a block and none is moved
\* by a client that has not authenticated (update_accounts_handler,
\* server::store, storage::update).
ImplementsService == Service!Spec

Holds(w, a) == \E u \in mem[w].users \cup Received(w) : u.id = a

\* Every account that check_users believes to be handed out (active_) is in
\* the memory or queue of a thread or on its way to one, or the connection it
\* was given to is broken, which check_users will find out.
NobodyForgotten ==
    phase = "run" /\ ~expired /\ TotalThreads(conn) > 0 =>
        \A a \in active :
            \/ \E w \in Worker : Holds(w, a)
            \/ \E c \in Client : conn[c].live /\
                  \/ ~conn[c].client
                  \/ \E i \in DOMAIN conn[c].out :
                        \E u \in ToSet(conn[c].out[i].users) : u.id = a

\* next_thread_ always points at a local thread or at the first thread of a
\* client while no connection was lost: the loop of check_users that looks
\* for the client never runs past the end of remotes.
NextThreadAligned ==
    phase = "run" /\ ~expired =>
        \/ next < setup.local
        \/ next = 0
        \/ \E k \in 1..Len(ReadyConns(conn)) :
              next = Offset(conn, ReadyConns(conn), k)

\* View keys leave the server only for clients that gave the password:
\* do_replace_users writes to every open connection, but with no accounts
\* for one that has not authenticated.
AccountsStayInside ==
    \A c \in setup.rogue :
        /\ \A i \in DOMAIN conn[c].out : conn[c].out[i].users = <<>>
        /\ \A w \in Worker : w[1] = c => mem[w].users \cup Received(w) = {}

\* A thread at the top of the chain learns only with its next block that an
\* account was rolled back.
AwaitsBlock(a) ==
    /\ "rollback" \in setup.events
    /\ \E w \in Worker : \E u \in mem[w].users : u.id = a /\ u.scan >= top

\* Once the environment is quiet every active account is scanned to the top
\* of the daemon's chain, as long as there is any thread to scan it; after a
\* rollback that may take one more block of the daemon.
EventuallyScanned ==
    <>[](\/ TotalThreads(conn) = 0
         \/ \A a \in ActiveIds : db[a].scan >= top \/ AwaitsBlock(a))
=============================================================================
