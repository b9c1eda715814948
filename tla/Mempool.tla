------------------------------ MODULE Mempool ------------------------------
(***************************************************************************)
(* The copy of the daemon's transaction pool (mempool.cpp), the thread      *)
(* that keeps it (`pool_update_loop` over `client::event_loop`), the REST   *)
(* threads that add what they submitted themselves, and the readers that    *)
(* scan it for one account (`scan_account`, called by the REST handlers and *)
(* the feed's login).  One address is followed; the others only push its    *)
(* cache entry out.  The updater lives as long as one `check_loop`: the     *)
(* next one has sockets of its own, while the copy survives.                *)
(***************************************************************************)
EXTENDS Sequences, FiniteSets, Integers

CONSTANTS
    Txs,          \* transactions of the daemon's pool
    Subaddrs,     \* subaddresses of the account
    Pays,         \* the subaddress each transaction pays, or NoSub
    Rings,        \* the stored outputs each transaction spends
    NoSub,        \* no subaddress of this account
    Block,        \* a `minimal_chain_pub`, among the publications
    Readers,      \* threads that scan the pool for the account
    MaxBlocks     \* bound: blocks mined

ASSUME PaysAssumption == Pays \in [Txs -> Subaddrs \cup {NoSub}]
ASSUME BlockAssumption == Block \notin Txs

VARIABLES
    daemon,       \* the daemon's own pool
    blocks,       \* blocks mined so far
    unseen,       \* transactions the daemon has not received yet
    pubs,         \* publications waiting in `daemon_sub`
    rpc,          \* the REQ socket: `busy` since a request was sent
    answer,       \* answers on their way: the daemon's pool as it was
    up,           \* an updater thread runs, with its sockets
    submitted,    \* transactions submitted here and relayed, whose answer is
                  \* still to be handled by `submit_raw_tx`
    missed,       \* history: mined transactions of whose block neither a
                  \* publication, a request nor an answer is left to tell
    polled,       \* `poll_items` name the present socket
    state_,       \* the pool kept here
    snapshot_,    \* the shared copy, or NoCopy
    cache_,       \* the address' cache entry: [subs, txids], or NoEntry
    subs,         \* the account's subaddresses in the database
    outs,         \* the account's outputs in the database
    stored,       \* mined transactions whose rows are in the database
    scans         \* what each reader is doing, and what its reply owes: the
                  \* rows it read and what paid it from the pool at the lock

updater == <<pubs, rpc, answer, polled, up>>
copy == <<state_, snapshot_>>
poolVars == <<daemon, unseen, blocks, updater, submitted, missed, copy, cache_, scans>>
dbVars == <<subs, outs, stored>>
vars == <<poolVars, dbVars>>

NoCopy == <<>>
NoEntry == <<>>
NoScan == [pc |-> "idle"]

----------------------------------------------------------------------------
(* The daemon. *)

\* What the daemon's pool has let go.
Mined == Txs \ (unseen \cup daemon)

\* A publication reaches the subscriber, if there is one and it is not dropped
\* on the way.
Publish(x, told) == (told => up) /\ pubs' = IF told THEN Append(pubs, x) ELSE pubs

\* A transaction enters the daemon's pool and is published.  It came over the
\* network or, if `here`, from `submit_raw_tx`, which is told "relayed".
DaemonReceives(t, here) ==
    /\ t \in unseen
    /\ unseen' = unseen \ {t}
    /\ daemon' = daemon \cup {t}
    /\ submitted' = IF here THEN submitted \cup {t} ELSE submitted
    /\ Publish(t, up)
    /\ UNCHANGED <<blocks, rpc, answer, polled, up, missed, copy, cache_, scans>>

\* A block takes transactions out of the pool and is published.
DaemonMines(S, told) ==
    /\ blocks < MaxBlocks
    /\ blocks' = blocks + 1
    /\ daemon' = daemon \ S
    /\ Publish(Block, told)
    /\ missed' = IF told THEN {} ELSE Mined \cup S
    /\ UNCHANGED <<unseen, rpc, answer, polled, up, submitted, copy, cache_, scans>>

\* The daemon answers `get_transaction_pool` with its pool of that moment.
DaemonAnswers ==
    /\ rpc = "sent"
    /\ rpc' = "answered" /\ answer' = daemon
    /\ UNCHANGED <<daemon, unseen, blocks, pubs, polled, up, submitted, missed, copy, cache_, scans>>

\* A daemon that restarts forgets the request.
DaemonForgets ==
    /\ rpc \in {"sent", "answered"}
    /\ rpc' = "lost" /\ answer' = {}
    /\ missed' = Mined
    /\ UNCHANGED <<daemon, unseen, blocks, pubs, polled, up, submitted, copy, cache_, scans>>

----------------------------------------------------------------------------
(* The updater thread. *)

\* reset_txs: the table is replaced and the shared copy dropped.
reset_txs(S) == state_' = S /\ snapshot_' = NoCopy

\* add_txs: a transaction already present keeps its entry.
add_txs(S) == state_' = state_ \cup S /\ snapshot_' = NoCopy

\* on_rpc: the answer of the daemon replaces the pool.
OnRpc ==
    /\ polled /\ rpc = "answered"
    /\ reset_txs(answer)
    /\ rpc' = "idle" /\ answer' = {}
    /\ missed' = {t \in missed : t \in answer \/ \E i \in DOMAIN pubs : pubs[i] = t}
    /\ UNCHANGED <<daemon, unseen, blocks, pubs, polled, up, submitted, cache_, scans>>

\* An answer that cannot be read or parsed is used up; the thread's loop enters
\* `event_loop` again, and the pool stays as it is.
OnRpcFails ==
    /\ polled /\ rpc = "answered"
    /\ rpc' = "idle" /\ answer' = {}
    /\ missed' = Mined
    /\ UNCHANGED <<daemon, unseen, blocks, pubs, polled, up, submitted, copy, cache_, scans>>

\* Mutant: a request that cannot be sent is left to the one before it.
RequestUnlessBusy(sent) ==
    IF rpc = "idle" THEN rpc' = "sent" /\ UNCHANGED <<answer, polled>>
                    ELSE UNCHANGED <<rpc, answer, polled>>

\* A request on a REQ socket that still waits for an answer fails with EFSM;
\* the socket is then replaced, which forgets the answer, and the request sent
\* again.  `poll_items` keep the old socket until the loop is entered again.
\* No call waits (timeout 0): a socket that cannot take the request fails it.
Request(sent) ==
    /\ rpc' = (IF sent THEN "sent" ELSE "idle") /\ answer' = {}
    /\ polled' = (polled /\ rpc = "idle")

\* on_block: ask the daemon for its pool.
OnBlock(sent) ==
    /\ pubs # <<>> /\ Head(pubs) = Block
    /\ pubs' = Tail(pubs)
    /\ Request(sent)
    /\ missed' = IF sent THEN missed ELSE Mined
    /\ UNCHANGED <<daemon, unseen, blocks, up, submitted, copy, cache_, scans>>

\* on_txpool.
OnTxpool ==
    /\ pubs # <<>> /\ Head(pubs) # Block
    /\ pubs' = Tail(pubs)
    /\ add_txs({Head(pubs)})
    /\ UNCHANGED <<daemon, unseen, blocks, rpc, answer, polled, up, submitted, missed, cache_, scans>>

\* A publication that cannot be read or parsed is used up.
PubFails ==
    /\ pubs # <<>>
    /\ pubs' = Tail(pubs)
    /\ missed' = IF Head(pubs) = Block THEN Mined ELSE missed
    /\ UNCHANGED <<daemon, unseen, blocks, rpc, answer, polled, up, submitted, copy, cache_, scans>>

\* Mutant: an error ends the thread.
ReenterNever == FALSE

\* Polling the closed socket fails; the thread's loop enters `event_loop`
\* again, with the present socket.
Reenter ==
    /\ ~polled
    /\ polled' = TRUE
    /\ UNCHANGED <<daemon, unseen, blocks, pubs, rpc, answer, up, submitted, missed, copy, cache_, scans>>

\* check_loop ends: the thread is joined, and what its sockets held is gone.
StopScan ==
    /\ up
    /\ up' = FALSE /\ pubs' = <<>> /\ rpc' = "idle" /\ answer' = {} /\ polled' = TRUE
    /\ missed' = Mined
    /\ UNCHANGED <<daemon, unseen, blocks, submitted, copy, cache_, scans>>

\* The next check_loop connects a client of its own; `pool` is the same.
StartScan ==
    /\ ~up
    /\ up' = TRUE
    /\ UNCHANGED <<daemon, unseen, blocks, pubs, rpc, answer, polled, submitted, missed, copy, cache_, scans>>

----------------------------------------------------------------------------
(* The REST threads. *)

\* send_response of submit_raw_tx, for a transaction the daemon relayed: it is
\* added to the copy, whatever happened to it in the meantime.
SubmitRelayed(t) ==
    /\ t \in submitted
    /\ submitted' = submitted \ {t}
    /\ add_txs({t})
    /\ missed' = IF t \in daemon THEN missed ELSE missed \cup {t}
    /\ UNCHANGED <<daemon, unseen, blocks, updater, cache_, scans>>

----------------------------------------------------------------------------
(* The readers. *)

\* What `ownership_test` finds in t with the given subaddresses and outputs.
Owned(t, S, O) == Pays[t] \in S \/ Rings[t] \cap O # {}

\* Mutant: the entry is used whatever its subaddresses.
CacheGetAny(S) == IF cache_ # NoEntry THEN cache_.txids ELSE {}

\* address_cache::get: an entry of other subaddresses is not used.
CacheGet(S) == IF cache_ # NoEntry /\ cache_.subs = S THEN cache_.txids ELSE {}

\* get_address_txs_response::load: one read transaction gives the rows of the
\* account, then its subaddresses; the pool is read afterwards.
ScanOpen(r) ==
    /\ scans[r].pc \in {"idle", "done"}
    /\ scans' = [scans EXCEPT ![r] =
          [pc |-> "open", subs |-> subs, outs |-> outs, rows |-> stored]]
    /\ UNCHANGED <<daemon, unseen, blocks, updater, submitted, missed, copy, cache_>>

\* Under the lock: the transactions to skip, and the shared copy.
ScanLock(r) ==
    /\ scans[r].pc = "open"
    /\ snapshot_' = IF snapshot_ = NoCopy THEN [txs |-> state_] ELSE snapshot_
    /\ scans' = [scans EXCEPT ![r] =
          [pc |-> "locked", subs |-> @.subs, outs |-> @.outs, rows |-> @.rows,
           skip |-> CacheGet(@.subs), snap |-> snapshot_'.txs,
           owed |-> @.rows \cup {t \in state_ : Pays[t] \in scans[r].subs}]]
    /\ UNCHANGED <<daemon, unseen, blocks, updater, submitted, missed, state_, cache_>>

\* The transactions of the copy that are not skipped and are the account's.
Found(s) == {t \in s.snap \ s.skip : Owned(t, s.subs, s.outs)}

\* merge_into_txes: how often the reply lists t.  The output and the spend rows
\* of a stored transaction make one entry; one found in the pool adds an entry
\* unless it was stored, "mempool update after block could be delayed".
merge_into_txes(s, t) ==
    (IF t \in s.rows THEN 1 ELSE 0) + (IF t \in Found(s) \ s.rows THEN 1 ELSE 0)

\* The scan, address_cache::set of the transactions that are not found, and the
\* reply.
ScanEnd(r) ==
    LET s == scans[r] IN
    /\ s.pc = "locked"
    /\ cache_' = [subs |-> s.subs, txids |-> s.snap \ Found(s)]
    /\ scans' = [scans EXCEPT ![r] =
          [pc |-> "done", owed |-> s.owed,
           listed |-> [t \in Txs |-> merge_into_txes(s, t)]]]
    /\ UNCHANGED <<daemon, unseen, blocks, updater, submitted, missed, copy>>

\* Scans for other addresses push the entry of this one out.
CacheEvict ==
    /\ cache_ # NoEntry
    /\ cache_' = NoEntry
    /\ UNCHANGED <<daemon, unseen, blocks, updater, submitted, missed, copy, scans>>

----------------------------------------------------------------------------
(* The database under the readers. *)

\* upsert_subaddrs or a lookahead adds a subaddress.
AddSubaddress(x) ==
    /\ x \notin subs
    /\ subs' = subs \cup {x}
    /\ UNCHANGED <<poolVars, outs, stored>>

\* The scanner stores an output.
StoreOutput(o) ==
    /\ o \notin outs
    /\ outs' = outs \cup {o}
    /\ UNCHANGED <<poolVars, subs, stored>>

\* The scanner stores the rows of a mined transaction of the account.
StoreMined(t) ==
    /\ t \notin unseen \cup daemon \cup stored
    /\ Owned(t, subs, outs)
    /\ stored' = stored \cup {t}
    /\ UNCHANGED <<poolVars, subs, outs>>

----------------------------------------------------------------------------
Init ==
    /\ daemon = {} /\ unseen = Txs /\ blocks = 0 /\ pubs = <<>>
    /\ rpc = "idle" /\ answer = {} /\ polled = TRUE /\ up = FALSE
    /\ submitted = {} /\ missed = {}
    /\ state_ = {} /\ snapshot_ = NoCopy /\ cache_ = NoEntry
    /\ scans = [r \in Readers |-> NoScan]
    /\ subs = {} /\ outs = {} /\ stored = {}

Updater ==
    \/ OnRpc \/ OnRpcFails \/ OnTxpool \/ PubFails \/ Reenter
    \/ \E sent \in BOOLEAN : OnBlock(sent)

Pool ==
    \/ Updater \/ StopScan \/ StartScan \/ CacheEvict
    \/ \E t \in Txs, here \in BOOLEAN : DaemonReceives(t, here)
    \/ \E S \in SUBSET daemon, told \in BOOLEAN : DaemonMines(S, told)
    \/ DaemonAnswers \/ DaemonForgets
    \/ \E t \in Txs : SubmitRelayed(t)
    \/ \E r \in Readers : ScanOpen(r) \/ ScanLock(r) \/ ScanEnd(r)

Next ==
    \/ Pool /\ UNCHANGED dbVars
    \/ \E x \in Subaddrs : AddSubaddress(x)
    \/ \E o \in UNION {Rings[t] : t \in Txs} : StoreOutput(o)
    \/ \E t \in Txs : StoreMined(t)

Spec == Init /\ [][Next]_vars

\* The updater thread handles what its sockets hold, and the daemon answers.
FairSpec ==
    /\ Spec
    /\ WF_vars(Updater /\ UNCHANGED dbVars)
    /\ WF_vars(DaemonAnswers /\ UNCHANGED dbVars)

----------------------------------------------------------------------------
(* Properties. *)

\* A reply lists every transaction once that its read transaction found stored,
\* or that paid the account from the pool at the moment the lock was taken, and
\* none twice: although rows, pool and cache are read at three moments, neither
\* a shared copy that outlived an update nor the cache of transactions found not
\* to be the account's, filled by readers with other subaddresses, hides one.
RepliesExact ==
    \A r \in Readers : scans[r].pc = "done" =>
        \A t \in Txs :
            /\ scans[r].listed[t] <= 1
            /\ t \in scans[r].owed => scans[r].listed[t] = 1

\* With no publication, request or answer on its way, the copy holds no
\* transaction that the daemon's pool has let go, except those in `missed`: the
\* ones mined while no updater ran, or before a publication, a request or an
\* answer was lost on the way, could not be parsed or went with its socket, and
\* one submitted here whose "relayed" came after its block.  The copy keeps
\* those until the next block it hears of; nothing in the code asks sooner.  A
\* late answer or publication never brings a transaction back otherwise.
NoGhosts ==
    pubs = <<>> /\ rpc \notin {"sent", "answered"} => state_ \subseteq daemon \cup missed

\* A mined transaction leaves the copy without waiting for another block, also
\* when the answer to an earlier request was still due and its socket had to be
\* replaced, unless the news of its block is lost (see `missed` in NoGhosts).
MinedLeaves ==
    \A t \in Txs : (t \in state_ /\ t \notin daemon) ~> (t \notin state_ \/ t \in missed)

=============================================================================
