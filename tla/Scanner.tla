------------------------------ MODULE Scanner ------------------------------
(***************************************************************************)
(* The scanner of monero-lws (src/scanner.cpp, src/rpc/scanner/server.cpp, *)
(* src/rpc/scanner/queue.cpp) over the database of Storage.tla: the main   *)
(* loop that loads the active accounts, the scan threads that fetch blocks *)
(* from the daemon and check in what they find, the account queues by      *)
(* which the server hands accounts to running threads, and the             *)
(* synchronisation of the local block hashes after a reset.                *)
(*                                                                         *)
(* The daemon (monerod) and the administrator are the environment.  The    *)
(* daemon extends or reorganises its chain between any two steps; the      *)
(* administrator adds accounts, changes their status, and asks for rescans *)
(* and rollbacks while the threads run.                                    *)
(*                                                                         *)
(* Local threads, trusted daemon (no --untrusted-daemon), no subaddresses. *)
(***************************************************************************)
EXTENDS Storage

CONSTANTS
    Thread,       \* the scan threads
    None,         \* an absent reply, batch, replacement or sync
    InitialTop,   \* height of the daemon when the server starts
    Environment,  \* bound: the settings, each with the kinds of steps that the
                  \* environment takes, how many, who gets an account, and
                  \* the threads of the command line
    ReplaceThreshold  \* replace_threshold: new accounts pushed at once

ASSUME ScannerAssumption ==
    /\ Thread # {}
    /\ InitialTop \in Height
    /\ \A e \in Environment :
          /\ e.kinds \subseteq {"extend", "reorg", "error", "timeout", "crash",
                                "add", "status", "rescan", "rollback"}
          /\ e.steps \in Nat
          /\ e.addresses \subseteq Address
          /\ e.threads \subseteq Thread /\ e.threads # {}
    /\ ReplaceThreshold \in Nat

VARIABLES
    daemon,   \* [chain, top]: the daemon's main chain is chain[0..top]
    phase,    \* where scanner::run is: "start" (its first
              \* synchronisation), "sync", "load", "scan", "exit"
    stop,     \* scanner_sync: "no", "reset" (stop_) or "shutdown"
    thread,   \* thread[t]: [pc, users, asked, reply, batch]
    queue,    \* queue[t]: [replace, push], the accounts sent to the thread
    active,   \* server::active_, the ids handed to threads
    sync,     \* [known, front] of sync_quick, None before its first request
    events    \* the setting, with the steps that the environment has left

scanVars == <<daemon, phase, stop, thread, queue, active, sync, events>>
allVars == <<vars, scanVars>>

\* --scan-threads
Threads == events.threads

\* lws::account: an account in the memory of a thread, with the height it
\* was scanned to and the output ids known to be spendable by it.
MemAccount == [id : AccountId, address : Address, scan : Height,
               known : SUBSET OutputId]

\* Blocks start..last of a chain, as fetched from the daemon.
Blocks == [chain : Chains, start : Height, last : Height]

ScannerTypeOK ==
    /\ TypeOK
    /\ daemon \in [chain : Chains, top : Height]
    /\ phase \in {"start", "sync", "load", "scan", "exit"}
    /\ stop \in {"no", "reset", "shutdown"}
    /\ \A t \in Threads :
          /\ thread[t].pc \in {"fetch", "store", "wait", "idle", "done"}
          /\ thread[t].users \subseteq MemAccount
          /\ thread[t].asked \in Height
          /\ thread[t].reply \in Blocks \cup {None}
          /\ thread[t].batch \in Blocks \cup {None}
          /\ queue[t].replace = None \/ queue[t].replace \subseteq MemAccount
          /\ queue[t].push \subseteq MemAccount
    /\ active \subseteq AccountId
    /\ sync = None \/ sync.known \subseteq Hash
    /\ \E e \in Environment : /\ events = [e EXCEPT !.steps = events.steps]
                             /\ events.steps \in 0..e.steps

Max(a, b) == IF a >= b THEN a ELSE b

NoWork == [pc |-> "done", users |-> {}, asked |-> 0, reply |-> None,
           batch |-> None]
EmptyQueue == [replace |-> None, push |-> {}]

ScannerInit ==
    /\ Init
    /\ daemon \in [chain : Chains, top : {InitialTop}]
    /\ events \in Environment
    /\ phase = "start" /\ stop = "no"
    /\ thread = [t \in Threads |-> NoWork]
    /\ queue = [t \in Threads |-> EmptyQueue]
    /\ active = {} /\ sync = None

-----------------------------------------------------------------------------
(* The daemon, external. *)

Event(kind) ==
    /\ kind \in events.kinds
    /\ events.steps > 0
    /\ events' = [events EXCEPT !.steps = @ - 1]

DaemonExtend ==
    /\ Event("extend")
    /\ daemon.top < MaxHeight
    /\ daemon' = [daemon EXCEPT !.top = @ + 1]
    /\ UNCHANGED <<vars, phase, stop, thread, queue, active, sync>>

\* The new main chain is higher than the old one.
DaemonReorg ==
    /\ Event("reorg")
    /\ \E c \in Chains \ {daemon.chain}, top \in (daemon.top + 1)..MaxHeight :
          daemon' = [chain |-> c, top |-> top]
    /\ UNCHANGED <<vars, phase, stop, thread, queue, active, sync>>

\* get_blocks_fast: the blocks from the asked height on, at least two when
\* the daemon has them.  The request for the next blocks is sent before the
\* previous ones are scanned, so it may be answered before they are stored.
DaemonReply(t) ==
    /\ thread[t].pc \in {"fetch", "store"}
    /\ thread[t].reply = None
    /\ thread[t].asked \in 1..daemon.top
    /\ LET start == thread[t].asked IN
       \E last \in start..daemon.top :
          /\ last = start => daemon.top = start
          /\ thread' = [thread EXCEPT ![t].reply =
                [chain |-> daemon.chain, start |-> start, last |-> last]]
    /\ UNCHANGED <<vars, daemon, phase, stop, queue, active, sync, events>>

-----------------------------------------------------------------------------
(* scanner::run *)

ActiveAccounts == {a \in accounts : a.status = "active"}


\* storage_reader::get_full_account
FullAccount(a) ==
    [id |-> a.id, address |-> a.address, scan |-> a.scan,
     known |-> {o.output : o \in {r \in outputs : r.id = a.id}}]

\* An even spread by scan height, by block depth, or split by sync state:
\* each algorithm is some assignment of the accounts to the threads.  (Not
\* --split-sync-threads with all threads for synced accounts, which leaves
\* the other accounts to none.)
Assignments == [ActiveAccounts -> Threads]

Assigned(f, t) == {FullAccount(a) : a \in {b \in ActiveAccounts : f[b] = t}}

Lowest(us) == CHOOSE h \in {u.scan : u \in us} : \A u \in us : h <= u.scan

\* Mutant: block 0 is asked for.
BeginAtZero(us) ==
    IF us = {} THEN [NoWork EXCEPT !.pc = "idle"]
    ELSE [NoWork EXCEPT !.pc = "fetch", !.users = us, !.asked = Lowest(us)]

\* Entry of scanner::loop with the given accounts: the first request.
Begin(us) ==
    IF us = {} THEN [NoWork EXCEPT !.pc = "idle"]
    ELSE [NoWork EXCEPT !.pc = "fetch", !.users = us,
                        !.asked = Max(1, Lowest(us))]

\* run loads the active accounts; check_loop starts the threads.
Load ==
    /\ phase = "load"
    /\ ActiveAccounts # {}
    /\ \E f \in Assignments :
          thread' = [t \in Threads |-> Begin(Assigned(f, t))]
    /\ queue' = [t \in Threads |-> EmptyQueue]
    /\ active' = {a.id : a \in ActiveAccounts}
    /\ phase' = "scan" /\ stop' = "no"
    /\ UNCHANGED <<vars, daemon, sync, events>>

\* No active accounts: run waits for the poll timer, then synchronises.
LoadNone ==
    /\ phase = "load"
    /\ ActiveAccounts = {}
    /\ phase' = "sync"
    /\ UNCHANGED <<vars, daemon, stop, thread, queue, active, sync, events>>

\* All threads have been joined.
Join ==
    /\ phase = "scan"
    /\ \A t \in Threads : thread[t].pc = "done"
    /\ phase' = IF stop = "shutdown" THEN "exit" ELSE "sync"
    /\ UNCHANGED <<vars, daemon, stop, thread, queue, active, sync, events>>

-----------------------------------------------------------------------------
(* sync_quick *)

Syncing == phase \in {"start", "sync"}

\* The first request names the stored hashes (get_chain_sync: the last ten
\* rows and some older ones; every row, within this height bound).
SyncBegin ==
    /\ Syncing /\ sync = None
    /\ \E tip \in Height :
          /\ IsTip(tip)
          /\ sync' = [known |-> {blocks[h] : h \in {k \in Height : Stored(k)}},
                      front |-> blocks[tip]]
    /\ UNCHANGED <<vars, daemon, phase, stop, thread, queue, active, events>>

\* get_chain_sync fails on an empty table, which is not handled.
SyncBeginFails ==
    /\ Syncing /\ sync = None
    /\ \A h \in Height : ~Stored(h)
    /\ phase' = "exit"
    /\ UNCHANGED <<vars, daemon, stop, thread, queue, active, sync, events>>

\* get_hashes_fast answers from the best known hash on its chain.
BestMatch(m) ==
    /\ m \in 0..daemon.top
    /\ daemon.chain[m] \in sync.known
    /\ \A h \in (m + 1)..daemon.top : daemon.chain[h] \notin sync.known

Answer(m, last) ==
    /\ BestMatch(m)
    /\ last \in m..daemon.top
    /\ last = m => daemon.top = m

Synced(m, last) == last = m \/ daemon.chain[last] = sync.front

SyncDone ==
    /\ Syncing /\ sync # None
    /\ \E m, last \in Height : Answer(m, last) /\ Synced(m, last)
    /\ phase' = "load" /\ sync' = None
    /\ UNCHANGED <<vars, daemon, stop, thread, queue, active, events>>

\* One round.  Of the known hashes only genesis is kept; the last hash of the
\* answer is inserted before it.
SyncRound ==
    /\ Syncing /\ sync # None
    /\ \E m, last \in Height :
          /\ Answer(m, last)
          /\ ~Synced(m, last)
          /\ SyncChain(m, last, daemon.chain)
          /\ sync' = [known |-> {Genesis, daemon.chain[last]},
                      front |-> daemon.chain[last]]
    /\ UNCHANGED <<daemon, phase, stop, thread, queue, active, events>>

\* sync_chain returned bad_blockchain: run throws.
SyncRefused(m, last) ==
    \/ ~Stored(m)
    \/ blocks[m] # daemon.chain[m]
    \/ \E k \in Height :
          /\ FirstDivergence(daemon.chain, m, last, k)
          /\ ~Regtest /\ k <= Checkpoint

SyncFails ==
    /\ Syncing /\ sync # None
    /\ \E m, last \in Height :
          /\ Answer(m, last)
          /\ ~Synced(m, last)
          /\ SyncRefused(m, last)
    /\ phase' = "exit" /\ sync' = None
    /\ UNCHANGED <<vars, daemon, stop, thread, queue, active, events>>

\* The daemon does not answer.  The first synchronisation of a process must
\* succeed; after that run carries on with the chain it has.
SyncTimeout ==
    /\ Event("timeout")
    /\ Syncing
    /\ phase' = IF phase = "start" THEN "exit" ELSE "load"
    /\ sync' = None
    /\ UNCHANGED <<vars, daemon, stop, thread, queue, active>>
-----------------------------------------------------------------------------
(* scanner::loop, the body of a scan thread. *)

\* The thread ends.  Every end of a thread stops all of them; an exception
\* shuts the server down as well.
Stops(t, how) ==
    /\ thread' = [thread EXCEPT ![t] = NoWork]
    /\ stop' = IF stop = "shutdown" THEN stop ELSE how

\* The users after the account queue has been read.
Received(t) ==
    (IF queue[t].replace = None THEN thread[t].users ELSE queue[t].replace)
        \cup queue[t].push

Resort(t) == queue[t] # EmptyQueue

\* A reply arrives; the account queue is read before it is used.
Receive(t) ==
    /\ thread[t].pc = "fetch"
    /\ thread[t].reply # None
    /\ LET reply == thread[t].reply
           us == Received(t)
           next == [thread[t] EXCEPT !.users = us, !.reply = None] IN
       thread' = [thread EXCEPT ![t] =
          IF us = {} THEN Begin({})
          ELSE IF Resort(t) /\ Lowest(us) < reply.start
            THEN [next EXCEPT !.asked = Lowest(us)]
          ELSE IF reply.last = reply.start
            THEN [next EXCEPT !.asked = reply.last, !.pc = "wait"]
            ELSE [next EXCEPT !.asked = reply.last, !.pc = "store",
                              !.batch = reply]]
    /\ queue' = [queue EXCEPT ![t] = EmptyQueue]
    /\ UNCHANGED <<vars, daemon, phase, stop, active, sync, events>>

\* wait_for_block ends with a new block, new accounts or its timeout.
Wake(t) ==
    /\ thread[t].pc = "wait"
    /\ thread' = [thread EXCEPT ![t].pc = "fetch"]
    /\ UNCHANGED <<vars, daemon, phase, stop, queue, active, sync, events>>

\* Mutant: block 1 is skipped like any other first block.
OverlapFirst(b) == b.start

\* The first block of a batch overlaps with what was scanned before, except
\* that a batch from height 1 is scanned whole and stands for one from 0.
Overlap(b) == IF b.start = 1 THEN 0 ELSE b.start

\* What the blocks of a batch contain for the account u.
Scanned(u, b) ==
    LET from == IF Overlap(b) >= u.scan THEN Overlap(b) ELSE u.scan
        paid == PaidRows(u.id, u.address, b.chain, from, b.last) IN
    [id |-> u.id, address |-> u.address, scan |-> u.scan,
     outputs |-> paid,
     spends |-> {s \in SpentRows(u.id, b.chain, from, b.last, OutputId) :
                    \/ s.source \in u.known
                    \/ \E o \in paid : o.output = s.source
                                      /\ o.height < s.height}]

\* The hashes passed to storage::update, placed from the height of the first
\* user on, and the height they are taken to end at.
Placed(b, base) ==
    LET shift == base - Overlap(b)
        hashes == IF b.start = 1 THEN FromGenesis(b.chain) ELSE b.chain IN
    [k \in Height |-> IF k - shift \in Height THEN hashes[k - shift]
                                              ELSE NoBlock]

PlacedLast(b, base) == base + b.last - Overlap(b)

\* update returned blockchain_reorg
ReorgSeen(height, last, chain) ==
    /\ Verified(last)
    /\ \E tip \in Height :
          /\ IsTip(tip)
          /\ height <= tip
          /\ Stored(Min(tip, last))
          /\ blocks[Min(tip, last)] # chain[Min(tip, last)]

CheckIn(t, base, last, chain, users) ==
    \/ /\ Update(base, last, chain, users)
       /\ IF AllCounted(users)
            THEN /\ thread' = [thread EXCEPT ![t].pc = "fetch",
                       ![t].batch = None,
                       ![t].users = {[u EXCEPT !.scan = Max(@, last),
                          !.known = @ \cup {o.output : o \in UNION
                             {v.outputs : v \in {w \in users : w.id = u.id
                                                     /\ w.scan = u.scan}}}] :
                                     u \in thread[t].users}]
                 /\ stop' = stop
            ELSE Stops(t, "reset")
    \/ /\ ReorgSeen(base, last, chain)
       /\ Stops(t, "reset")
       /\ UNCHANGED vars
    \/ /\ ~ChainAccepted(base, last, chain) /\ ~ReorgSeen(base, last, chain)
       /\ Stops(t, "shutdown")
       /\ UNCHANGED vars

\* The blocks are scanned, and user_data::store checks them in.
Store(t) ==
    /\ thread[t].pc = "store"
    /\ LET b == thread[t].batch
           base == Lowest(thread[t].users) IN
       CheckIn(t, base, PlacedLast(b, base), Placed(b, base),
               {Scanned(u, b) : u \in thread[t].users})
    /\ UNCHANGED <<daemon, phase, queue, active, sync, events>>

\* An idle thread waits for accounts.
TakeWork(t) ==
    /\ thread[t].pc = "idle"
    /\ queue[t] # EmptyQueue
    /\ thread' = [thread EXCEPT ![t] = Begin(Received(t))]
    /\ queue' = [queue EXCEPT ![t] = EmptyQueue]
    /\ UNCHANGED <<vars, daemon, phase, stop, active, sync, events>>

\* The daemon refuses a height it does not have, and height 0.
DaemonRefuses(t) ==
    /\ thread[t].pc = "fetch" /\ thread[t].reply = None
    /\ thread[t].asked \notin 1..daemon.top
    /\ Stops(t, "reset")
    /\ UNCHANGED <<vars, daemon, phase, queue, active, sync, events>>

\* A request times out or is answered with an error.
FetchFails(t) ==
    /\ Event("error")
    /\ thread[t].pc = "fetch" /\ thread[t].reply = None
    /\ Stops(t, "reset")
    /\ UNCHANGED <<vars, daemon, phase, queue, active, sync>>

\* The abort signal, or the test of stop_ at the head of a loop.
Quit(t) ==
    /\ stop # "no"
    /\ thread[t].pc \in {"fetch", "wait", "idle"}
    /\ Stops(t, stop)
    /\ UNCHANGED <<vars, daemon, phase, queue, active, sync, events>>
-----------------------------------------------------------------------------
(* rpc::scanner::server: the account queues. *)

ActiveIds == {a.id : a \in ActiveAccounts}

\* Some account is no longer active, or too many are new.
Reshuffle ==
    \/ ~(active \subseteq ActiveIds)
    \/ Cardinality(ActiveIds \ active) > ReplaceThreshold

\* check_users, every account_poll_interval: new accounts are pushed to some
\* thread (round robin, or the best match by height).
CheckUsers ==
    /\ phase = "scan" /\ stop = "no"
    /\ ~Reshuffle
    /\ active # ActiveIds
    /\ \E f \in Assignments :
          queue' = [t \in Threads |-> [queue[t] EXCEPT !.push = @ \cup
                       {u \in Assigned(f, t) : u.id \notin active}]]
    /\ active' = ActiveIds
    /\ UNCHANGED <<vars, daemon, phase, stop, thread, sync, events>>

Count(f, t) == Cardinality({a \in ActiveAccounts : f[a] = t})

\* check_users calls do_replace_users, which deals all accounts out anew.
ReplaceUsers ==
    /\ phase = "scan" /\ stop = "no"
    /\ Reshuffle
    /\ \E f \in Assignments :
          /\ \A t, u \in Threads : Count(f, t) <= Count(f, u) + 1
          /\ queue' = [t \in Threads |->
                          [replace |-> Assigned(f, t), push |-> {}]]
    /\ active' = ActiveIds
    /\ UNCHANGED <<vars, daemon, phase, stop, thread, sync, events>>

-----------------------------------------------------------------------------
(* The administrator, and the process. *)

Admin ==
    /\ \E address \in Address :
          \/ /\ Event("add") /\ address \in events.addresses
             /\ AddAccount(address, "default_account")
          \/ Event("status") /\ \E s \in {"active", "inactive"} :
                                   ChangeStatus(s, address)
          \/ Event("rescan") /\ \E h \in AskedHeights : Rescan(h, address)
          \/ Event("rollback") /\ \E h \in AskedHeights : Rollback(h)
    /\ UNCHANGED <<daemon, phase, stop, thread, queue, active, sync>>

\* The process is killed at any point; LMDB transactions are atomic.
Crash ==
    /\ Event("crash")
    /\ phase # "exit"
    /\ phase' = "exit"
    /\ UNCHANGED <<vars, daemon, stop, thread, queue, active, sync>>

\* A new process: check_blockchain, then the first synchronisation.
Restart ==
    /\ phase = "exit"
    /\ IF \E h \in Height : Stored(h) THEN UNCHANGED vars ELSE Open
    /\ phase' = "start" /\ stop' = "no"
    /\ thread' = [t \in Threads |-> NoWork]
    /\ queue' = [t \in Threads |-> EmptyQueue]
    /\ active' = {} /\ sync' = None
    /\ UNCHANGED <<daemon, events>>

-----------------------------------------------------------------------------

\* A thread runs only while its process does.
ThreadStep(t) ==
    /\ t \in Threads /\ phase = "scan"
    /\ \/ Receive(t) \/ Wake(t) \/ Store(t) \/ TakeWork(t)
       \/ DaemonRefuses(t) \/ Quit(t)

MainStep ==
    \/ Load \/ LoadNone \/ Join
    \/ SyncBegin \/ SyncBeginFails \/ SyncDone \/ SyncRound \/ SyncFails

EnvironmentStep ==
    \/ DaemonExtend \/ DaemonReorg \/ SyncTimeout \/ Admin \/ Crash \/ Restart
    \/ \E t \in Threads : phase = "scan" /\ FetchFails(t)

ScannerNext ==
    \/ MainStep
    \/ CheckUsers \/ ReplaceUsers
    \/ \E t \in Threads : ThreadStep(t) \/ (phase = "scan" /\ DaemonReply(t))
    \/ EnvironmentStep

(***************************************************************************)
(* The operating system schedules every thread and the timers of the       *)
(* server fire; a thread that was told to stop does, because it tests      *)
(* stop_ before each fetch and is woken by the abort signal.  The daemon   *)
(* answers requests.  Nothing is assumed of the rest of the environment.   *)
(***************************************************************************)
Fairness ==
    /\ WF_allVars(MainStep)
    /\ WF_allVars(CheckUsers) /\ WF_allVars(ReplaceUsers)
    /\ \A t \in Thread :
          /\ WF_allVars(ThreadStep(t))
          /\ WF_allVars(t \in Threads /\ phase = "scan" /\ Quit(t))
          /\ WF_allVars(t \in Threads /\ phase = "scan" /\ DaemonReply(t))

ScannerSpec == ScannerInit /\ [][ScannerNext]_allVars

FairSpec == ScannerSpec /\ Fairness

-----------------------------------------------------------------------------
(* Properties *)

\* The batch of t was fetched for accounts below those it now has, or from
\* height 1, which stands for 0, for accounts at height 1: base_height is not
\* the height of its first hash.
Shifted(t) == Lowest(thread[t].users) > Overlap(thread[t].batch)

\* The check-in of t as a CallUpdate: the chain, the heights and the accounts
\* are the thread's own.
CheckInOfBatch(t) ==
    LET b == thread[t].batch
        us == thread[t].users
        some == {a \in accounts : \E u \in us : u.id = a.id}
        s == [a \in some |-> (CHOOSE u \in us : u.id = a.id).scan] IN
    \E known \in SUBSET OutputId :
       CheckInOf(b.chain, Lowest(us), b.last, some, known, s)

\* The scanner keeps to the contract of the database functions: whatever the
\* daemon, the administrator and the other threads do between the load of an
\* account, the fetch of a batch and its check-in, what scanner::loop hands
\* to storage::update are the rows of blocks on one chain, placed at their
\* own heights; the check-in of a shifted batch is the one exception.  While
\* no such check-in is accepted the database invariants hold of the server.
\* (CheckInOfBatch is an instance of Next, which TLC would have to search.)
ImplementsStorage ==
    /\ Init
    /\ [][\/ \E t \in Threads : /\ thread[t].pc = "store"
                                 /\ \/ CheckInOfBatch(t)
                                    \/ Shifted(t) /\ Store(t)
          \/ Next]_vars


\* get_address_info finds no receive for a spend of the account, and throws.
NoReceive(a) ==
    \E s \in spends :
        s.id = a.id /\ ~ \E o \in outputs : o.id = a.id /\ o.output = s.source

\* /get_address_info never meets a spend without its output ("Serious
\* database error, no receive for spend", which ends the server): what a
\* thread remembers of an account is not older than what rescans, rollbacks
\* and reorganisations left of it when it checks in.
EverySpendHasReceive == \A a \in accounts : ~NoReceive(a)

\* Every active account is scanned by some thread, or about to be: an account
\* that the server counts as handed out is in a thread's memory or queue.
ActiveAreScanned ==
    phase = "scan" /\ stop = "no" =>
        \A i \in active : \E t \in Threads :
            \E u \in thread[t].users \cup Received(t) : u.id = i

CaughtUp ==
    /\ \A a \in ActiveAccounts : a.scan >= daemon.top
    /\ ActiveAccounts # {} =>
          \A h \in 0..daemon.top : Stored(h) => blocks[h] = daemon.chain[h]

\* A thread at the top of the daemon's chain learns only from its next
\* check-in that an account was taken back by a rescan or rollback.
AwaitsBlock ==
    \E t \in Threads : \E u \in thread[t].users : \E a \in accounts :
        /\ a.id = u.id /\ a.scan < u.scan
        /\ u.scan = daemon.top

\* The batch from height 1 is checked in as one from 0, which for an account
\* at height 1 looks like a reorganisation: the threads are reset for ever.
StuckAtOne == \E a \in ActiveAccounts : a.scan = 1

\* Once the daemon's chain and the account list stop changing, every active
\* account is scanned to the top of the daemon's chain, through resets,
\* replacements and errors, unless the process has ended.  After a rescan or
\* rollback this may take one more block of the daemon; an account that is
\* taken back to height 1 keeps its thread from going on.
EventuallyCaughtUp ==
    <>[](phase = "exit" \/ CaughtUp \/ AwaitsBlock \/ StuckAtOne)

\* The same without the exception for height 1.
CatchesUpFromAnyHeight == <>[](phase = "exit" \/ CaughtUp \/ AwaitsBlock)

\* The server gives up only on a daemon that is not on the checkpointed chain,
\* or has not reached it yet (sync_chain: "Either the daemon is performing an
\* attack with a fake chain, or the daemon is still syncing").
ExitMeansBadDaemon ==
    phase = "exit" =>
        \/ daemon.top < Checkpoint
        \/ daemon.chain[Checkpoint] # CheckpointHash
=============================================================================
