------------------------------ MODULE PowSync ------------------------------
(***************************************************************************)
(* Following a daemon that is not trusted (--untrusted-daemon): sync_full   *)
(* and the scan threads check the proof of work of every block above the    *)
(* last checkpoint, against difficulty and timestamp windows read from the  *)
(* `pows` table, which storage::sync_pow, update and rollback_chain keep    *)
(* beside the `blocks` table.                                               *)
(*                                                                          *)
(* A row of `pows` holds a timestamp and a cumulative difficulty; here it   *)
(* is the block they were computed for.  A window is the sequence of such   *)
(* rows.  next_difficulty, check_hash and the median are external: a block  *)
(* is Forged when they refuse it.                                           *)
(***************************************************************************)
EXTENDS Integers, Sequences, FiniteSets

CONSTANTS
    MaxHeight,
    Hash, NoBlock,
    Chains,          \* the chains a daemon may follow: [0..MaxHeight -> Hash]
    Forged,          \* blocks without the proof of work
    Checkpoint, CheckpointHash,   \* the last checkpoint
    Count,           \* DIFFICULTY_BLOCKS_COUNT
    Median,          \* BLOCKCHAIN_TIMESTAMP_CHECK_WINDOW
    Sizes,           \* numbers of blocks in one answer, the overlap not counted
    TrustedTop,      \* how far the database followed a trusted daemon before
    MaxEvents        \* bound: changes of the daemon's chain, rollbacks, resets, restarts

ASSUME PowAssumption ==
    /\ MaxHeight \in Nat
    /\ Chains \subseteq [0..MaxHeight -> Hash] /\ NoBlock \notin Hash
    /\ Forged \subseteq Hash
    /\ Checkpoint \in 2..MaxHeight /\ TrustedTop \in Checkpoint..MaxHeight
    /\ Sizes \subseteq Nat \ {0} /\ Count \in Nat \ {0} /\ Median \in Nat \ {0}
    /\ \A c \in Chains : c[Checkpoint] = CheckpointHash
    /\ \A c, d \in Chains, h \in 1..MaxHeight : c[h] = d[h] => c[h - 1] = d[h - 1]

VARIABLES
    chain, tip,      \* the daemon's chain
    blocks,          \* the blocks table, NoBlock where there is no row
    pows,            \* the pows table
    pc,              \* "start", "request", "verify" (sync_full), "synced", "scan", "exit"
    running,         \* the first synchronisation of the process is over
    known,           \* the hashes in req.block_ids, by height
    batch,           \* the answer being handled: [start, last, chain, diffs, times]
    job,             \* the batch of a scan thread
    last_pow,        \* the scan threads' copy of the last pow height
    stale,           \* an administrator rolled back below that copy
    short,           \* an answer ended one block below the checkpoint, and was stored
    events

vars == <<chain, tip, blocks, pows, pc, running, known, batch, job, last_pow,
          stale, short, events>>

NoBatch == [start |-> 0, last |-> 0, chain |-> CHOOSE c \in Chains : TRUE, diffs |-> <<>>, times |-> <<>>]

Heights == 0..MaxHeight
Stored(t) == {h \in Heights : t[h] # NoBlock}
Top(t) == CHOOSE h \in Stored(t) : \A k \in Stored(t) : k <= h
Lesser(a, b) == IF a <= b THEN a ELSE b

----------------------------------------------------------------------------
(* The windows. *)

Rows(t, a, b) == [i \in 1 .. b - a + 1 |-> t[a + i - 1]]

\* The cursor of get_pow_window: a .. b are counted, not compared, so the rows
\* are the first ones from a on.
Walk(a, b) ==
    LET at(i) == CHOOSE h \in Stored(pows) : Cardinality({k \in Stored(pows) : a <= k /\ k <= h}) = i
    IN [i \in 1 .. b - a + 1 |-> pows[at(i)]]

\* It fails when there is no row at a, or too few after it.
CanWalk(a, b) ==
    pows[a] # NoBlock /\ Cardinality({k \in Stored(pows) : a <= k}) > b - a

\* The last n of a sequence.
LastOf(s, n) == IF Len(s) <= n THEN s ELSE SubSeq(s, Len(s) - n + 1, Len(s))

\* Mutant: one row short.
FirstLate(last) == IF Count < last THEN last - Count + 2 ELSE 0

\* get_pow_window: where the rows begin that next_difficulty looks at.
First(last) == IF Count < last THEN last - (Count - 1) ELSE 0

\* The rows for the difficulty of the block after `last`.
pow_window(last) == IF last = 0 THEN <<>> ELSE Walk(First(last), last)

\* The rows for the median of the timestamps; none near the genesis block.
median_window(last) == IF last = 0 \/ last < Median THEN <<>> ELSE Walk(last - (Median - 1), last)

HasWindow(last) ==
    \/ last = 0
    \/ CanWalk(First(last), last) /\ (last < Median \/ CanWalk(last - (Median - 1), last))

\* The windows that judge the block at height h of a batch: what was read, then
\* the blocks before it in the batch, cut by update_window.
DiffsFor(b, h) == LastOf(b.diffs \o Rows(b.chain, b.start + 1, h - 1), Count)
TimesFor(b, h) == LastOf(b.times \o Rows(b.chain, b.start + 1, h - 1), Median)

----------------------------------------------------------------------------
(* sync_full. *)

\* An answer starts at the highest block of block_ids that the daemon has.
Answered(n) ==
    LET common == {h \in DOMAIN known : h <= tip /\ known[h] = chain[h]}
        s == CHOOSE h \in common : \A k \in common : k <= h
    IN [start |-> s, last |-> Lesser(s + n, tip), chain |-> chain, diffs |-> <<>>, times |-> <<>>]

WithWindows(b) == [b EXCEPT !.diffs = pow_window(b.start), !.times = median_window(b.start)]

\* get_pow_sync: hashes from the last row of `pows` down to the genesis block.
\* It fails when there is no row, or no block for the last one.
SyncStart ==
    /\ pc = "start"
    /\ IF Stored(pows) = {} \/ blocks[Top(pows)] = NoBlock
       THEN pc' = "exit" /\ UNCHANGED known
       ELSE pc' = "request" /\ known' = [h \in 0 .. Top(pows) |-> blocks[h]]
    /\ UNCHANGED <<chain, tip, blocks, pows, running, batch, job, last_pow, stale, short, events>>

\* The daemon's answer, and the windows read for it.  A single block ends the
\* synchronisation, if it is ours and not below the last checkpoint.
SyncAnswer(n) ==
    /\ pc = "request"
    /\ LET b == Answered(n)
           ends == b.start >= Checkpoint /\ blocks[b.start] = b.chain[b.start]
       IN
       IF b.last = b.start
       THEN /\ pc' = IF ends THEN "synced" ELSE "exit"
            /\ running' = (running \/ ends)
            /\ UNCHANGED batch
       ELSE /\ IF HasWindow(b.start) THEN pc' = "verify" /\ batch' = WithWindows(b)
                                     ELSE pc' = "exit" /\ UNCHANGED batch
            /\ UNCHANGED running
    /\ UNCHANGED <<chain, tip, blocks, pows, known, job, last_pow, stale, short, events>>

\* The daemon does not answer in time.  The first synchronisation fails with
\* that; a later one is left, and scanner::run goes on to the scan threads.
SyncTimesOut ==
    /\ pc = "request"
    /\ pc' = IF running THEN "synced" ELSE "exit"
    /\ UNCHANGED <<chain, tip, blocks, pows, running, known, batch, job, last_pow, stale, short, events>>

\* Mutant: a batch that starts below the checkpoint is not checked.
RefusedAbove(b) ==
    b.start > Checkpoint /\ \E h \in b.start + 1 .. b.last : b.chain[h] \in Forged

\* The proof of work of every block above the last checkpoint.
Refused(b) ==
    \E h \in b.start + 1 .. b.last : h > Checkpoint /\ b.chain[h] \in Forged

\* The first height the stored chain and the batch do not share: where rows
\* end, or are not the next ones (a checkpoint ahead), or differ.
Current(b) ==
    CHOOSE k \in b.start + 1 .. b.last + 1 :
        /\ k = b.last + 1 \/ blocks[k] # b.chain[k]
        /\ \A j \in b.start + 1 .. k - 1 : blocks[j] = b.chain[j]

\* A checkpoint that differs, or a rollback at or below it, is not stored.
BadChain(b) ==
    LET k == Current(b) IN
    \/ blocks[b.start] # b.chain[b.start]
    \/ Checkpoint \in b.start + 1 .. b.last /\ b.chain[Checkpoint] # CheckpointHash
    \/ k <= b.last /\ k <= Checkpoint /\ blocks[k] # NoBlock

\* rollback_chain: rows from height k on.
Cut(t, k) == [h \in Heights |-> IF h < k THEN t[h] ELSE NoBlock]

\* Mutant: the proof of work of the replaced blocks stays.
CutPowsNever(k) == pows

\* The pows table has a row at k, or none from k on.
CutPows(k) == IF pows[k] # NoBlock THEN Cut(pows, k) ELSE pows

\* append_block_hashes overwrites.
AppendBlocks(t, k, b) ==
    [h \in Heights |-> IF h \in k .. b.last THEN b.chain[h] ELSE t[h]]

\* append_pow leaves a row that is there.
AppendPow(t, k, b) ==
    [h \in Heights |-> IF h \in k .. b.last /\ t[h] = NoBlock THEN b.chain[h] ELSE t[h]]

\* Mutant: the request stays as it was.
KnownSame(b) == known

\* The next request: the batch, and the genesis block.
KnownNext(b) == [h \in {0} \cup b.start + 1 .. b.last |-> b.chain[h]]

\* The blocks are verified and storage::sync_pow stores them.
SyncStore ==
    /\ pc = "verify"
    /\ IF Refused(batch) \/ BadChain(batch)
       THEN pc' = "exit" /\ UNCHANGED <<blocks, pows, known, short>>
       ELSE LET k == Current(batch)
                replaces == k <= batch.last /\ blocks[k] # NoBlock
            IN
            /\ blocks' = AppendBlocks(IF replaces THEN Cut(blocks, k) ELSE blocks, k, batch)
            /\ pows' = AppendPow(IF replaces THEN CutPows(k) ELSE pows, k, batch)
            /\ known' = KnownNext(batch)
            /\ short' = (short \/ (batch.last = Checkpoint - 1 /\ blocks[Checkpoint] # NoBlock))
            /\ pc' = "request"
    /\ UNCHANGED <<chain, tip, running, batch, job, last_pow, stale, events>>

----------------------------------------------------------------------------
(* The scan threads. *)

\* A thread starts: it does not check again what sync_full checked.
ScanStart ==
    /\ pc = "synced"
    /\ IF Stored(pows) = {} THEN pc' = "exit" /\ UNCHANGED last_pow
                            ELSE pc' = "scan" /\ last_pow' = Top(pows)
    /\ UNCHANGED <<chain, tip, blocks, pows, running, known, batch, job, stale, short, events>>

\* The blocks after an account's scan height s, as the daemon has them now, and
\* the windows read at s.  The daemon is never asked for height 0; the answer
\* from height 1 is not overlapped, so that its first block's prev_id is
\* compared with its own hash, and the thread throws.
ScanFetch(s, n) ==
    /\ pc = "scan" /\ job = NoBatch
    /\ s < tip
    /\ IF s > 1 /\ HasWindow(s)
       THEN /\ job' = WithWindows([start |-> s, last |-> Lesser(s + n, tip), chain |-> chain,
                                   diffs |-> <<>>, times |-> <<>>])
            /\ UNCHANGED pc
       ELSE pc' = "exit" /\ UNCHANGED job
    /\ UNCHANGED <<chain, tip, blocks, pows, running, known, batch, last_pow, stale, short, events>>

\* Blocks above the copied height are checked.
ScanRefused(b) ==
    \E h \in b.start + 1 .. b.last : h > last_pow /\ b.chain[h] \in Forged

\* The last block storage::update and the batch both have.
LastSame(b) == Lesser(Top(blocks), b.last)

\* storage::update fails: a batch that ends below the last checkpoint is only
\* compared with the block stored where it ends, any other must meet the
\* stored blocks.
UpdateFails(b) ==
    IF b.last < Checkpoint
    THEN blocks[b.last] \notin {NoBlock, b.chain[b.last]}
    ELSE Stored(blocks) = {} \/ Top(blocks) < b.start

\* The last block both have must be the same, or the threads start again; what
\* is above it is appended to both tables.
ScanStore ==
    /\ pc = "scan" /\ job # NoBatch
    /\ IF ScanRefused(job) \/ UpdateFails(job)
       THEN pc' = "exit" /\ UNCHANGED <<blocks, pows>>
       ELSE IF job.last < Checkpoint
       THEN UNCHANGED <<pc, blocks, pows>>
       ELSE IF blocks[LastSame(job)] # job.chain[LastSame(job)]
       THEN pc' = "start" /\ UNCHANGED <<blocks, pows>>
       ELSE /\ blocks' = AppendBlocks(blocks, LastSame(job) + 1, job)
            /\ pows' = AppendPow(pows, LastSame(job) + 1, job)
            /\ UNCHANGED pc
    /\ job' = NoBatch
    /\ UNCHANGED <<chain, tip, running, known, batch, last_pow, stale, short, events>>

\* A thread leaves its loop (a timeout, a wrong answer, an account gone): all
\* are stopped and scanner::run synchronises again.
ScanReset ==
    /\ pc = "scan" /\ events < MaxEvents
    /\ pc' = "start" /\ job' = NoBatch
    /\ events' = events + 1
    /\ UNCHANGED <<chain, tip, blocks, pows, running, known, batch, last_pow, stale, short>>

----------------------------------------------------------------------------
(* The environment. *)

DaemonMoves(c, t) ==
    /\ events < MaxEvents
    /\ <<c, t>> # <<chain, tip>>
    /\ chain' = c /\ tip' = t
    /\ events' = events + 1
    /\ UNCHANGED <<blocks, pows, pc, running, known, batch, job, last_pow, stale, short>>

\* admin: rollback, at any moment and to any height that has a row.
Rollback(h) ==
    /\ events < MaxEvents
    /\ blocks[h] # NoBlock
    /\ blocks' = Cut(blocks, h)
    /\ pows' = CutPows(h)
    /\ stale' = (stale \/ (pc = "scan" /\ h <= last_pow))
    /\ events' = events + 1
    /\ UNCHANGED <<chain, tip, pc, running, known, batch, job, last_pow, short>>

\* check_blockchain and check_pow: a database without rows gets the genesis
\* block, which all chains share, and the last checkpoint.
NewBlocks == [h \in Heights |-> CASE h = 0 -> chain[0]
                                  [] h = Checkpoint -> CheckpointHash
                                  [] OTHER -> NoBlock]
NewPows == [h \in Heights |-> IF h = 0 THEN chain[0] ELSE NoBlock]

\* The process is started again.
Restart ==
    /\ events < MaxEvents
    /\ blocks' = IF Stored(blocks) = {} THEN NewBlocks ELSE blocks
    /\ pows' = IF Stored(pows) = {} THEN NewPows ELSE pows
    /\ pc' = "start" /\ running' = FALSE /\ job' = NoBatch
    /\ events' = events + 1
    /\ UNCHANGED <<chain, tip, known, batch, last_pow, stale, short>>

----------------------------------------------------------------------------
\* A new database, and what sync_quick stored without proofs of work.
Init ==
    /\ chain \in Chains /\ tip \in Heights
    /\ blocks = [h \in Heights |-> IF h \in Checkpoint..TrustedTop THEN chain[h] ELSE NewBlocks[h]]
    /\ pows = NewPows
    /\ pc = "start" /\ running = FALSE /\ known = <<>> /\ batch = NoBatch /\ job = NoBatch
    /\ last_pow = 0 /\ stale = FALSE /\ short = FALSE /\ events = 0

Sync == SyncStart \/ SyncTimesOut \/ SyncStore \/ \E n \in Sizes : SyncAnswer(n)

Next ==
    \/ Sync \/ ScanStart \/ ScanStore \/ ScanReset \/ Restart
    \/ \E s \in Heights, n \in Sizes : ScanFetch(s, n)
    \/ \E c \in Chains, t \in Heights : DaemonMoves(c, t)
    \/ \E h \in Heights : Rollback(h)

Spec == Init /\ [][Next]_vars

\* The main thread runs; the daemon answers, or its answer times out.
FairSpec == Spec /\ WF_vars(Sync)

----------------------------------------------------------------------------
(* Properties. *)

\* append_block_hashes overwrites "for pow case (where pows is catching up to
\* blocks)": once sync_pow has stored an answer, the blocks of the next request
\* must have their proofs of work, whatever rows `blocks` had before.  (Without
\* rollbacks, which may come between the two.)
PowsCatchUp == pc = "request" /\ events = 0 => \A h \in DOMAIN known : pows[h] # NoBlock

\* The two tables hold one chain: the rows of `pows` reach from the genesis
\* block without a gap, each computed for the block stored at its height, and
\* above the last checkpoint they end where the blocks end.  A reorganisation
\* or rollback that left a row behind would make every later window wrong.
\* The exception is an answer that ends one block below the last checkpoint
\* while that is stored already: sync_pow then finds the checkpoint as the next
\* stored block, and never writes its row of `pows`.
PowsFollowBlocks ==
    ~short =>
        /\ \A h \in Heights : pows[h] # NoBlock => /\ pows[h] = blocks[h]
                                                  /\ \A k \in 0..h : pows[k] # NoBlock
        /\ \A h \in Heights : h >= Checkpoint /\ pows[h] # NoBlock => Top(pows) = Top(blocks)

\* The windows of a block at height h as the consensus rules have them: the
\* blocks before it, without the genesis block.
ConsensusDiffs(c, h) == LastOf(Rows(c, 1, h - 1), Count)
ConsensusTimes(c, h) == LastOf(Rows(c, 0, h - 1), Median)

Exact(b) ==
    blocks[b.start] = b.chain[b.start] =>
        \A h \in b.start + 1 .. b.last :
            /\ b.start = 0 \/ h > Count => DiffsFor(b, h) = ConsensusDiffs(b.chain, h)
            /\ b.start >= Median \/ h > b.start + Median => TimesFor(b, h) = ConsensusTimes(b.chain, h)

\* Every block is judged by the windows of the consensus rules, whatever was
\* rolled back before and however the daemon cuts the chain into answers, but
\* for one cut: after an answer that ended one block below the last checkpoint
\* (`short`) the windows are counted across the missing row.
\* (An answer that starts above the genesis block but within the first window
\* takes the genesis row into its window, and one that starts within the first
\* median window starts without timestamps.)
WindowsExact ==
    ~short =>
        /\ pc = "verify" => Exact(batch)
        /\ pc = "scan" /\ job # NoBatch => Exact(job)

\* No forged block above the last checkpoint is stored, unless an administrator
\* rolled back below the height the running scan threads take as checked, or
\* the windows that judge it are not the right ones (`short`).
NoForgedStored ==
    ~stale /\ ~short => \A h \in Heights : h > Checkpoint => blocks[h] \notin Forged

\* sync_full ends: with the daemon's chain, refusing it, or by its timeout.
SyncEnds == pc = "start" ~> pc \in {"synced", "exit"}
=============================================================================
