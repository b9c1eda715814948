---------------------------- MODULE MempoolProofs ----------------------------
(***************************************************************************)
(* Proofs about Mempool: a transaction that left the daemon's pool does not *)
(* stay in the copy kept here, and the reply of a reader lists what it      *)
(* should, for any number of transactions, subaddresses, readers and        *)
(* blocks.                                                                  *)
(***************************************************************************)
EXTENDS Mempool, TLAPS

-----------------------------------------------------------------------------
(* The pool and the daemon. *)

PoolTypeOK ==
    /\ pubs \in Seq(Txs \cup {Block})
    /\ rpc \in {"idle", "sent", "answered", "lost"}

\* A block is among the publications from position i on.
BlockDue(i) == \E j \in DOMAIN pubs : j >= i /\ pubs[j] = Block

\* Unless the news of its block was lost, whatever could put a transaction that
\* left the daemon's pool into the copy, or keep it there, is followed by a
\* request for the pool: its own publication by that of its block, an answer
\* that still lists it by the publication of the block too, and the copy by one
\* or by a request that was sent.  No transaction left that never came.
LeaversFollowed ==
    \A t \in Txs \ (daemon \cup missed) :
        /\ \A i \in DOMAIN pubs : pubs[i] = t => BlockDue(i)
        /\ rpc = "answered" /\ t \in answer => BlockDue(1)
        /\ t \in state_ => rpc \in {"sent", "answered"} \/ BlockDue(1)

\* A transaction the daemon has not received is nowhere.
UnseenNowhere ==
    \A t \in unseen :
        /\ t \notin daemon \cup state_ \cup answer \cup submitted
        /\ \A i \in DOMAIN pubs : pubs[i] # t

PoolInv ==
    /\ PoolTypeOK
    /\ daemon \subseteq Txs /\ unseen \subseteq Txs
    /\ state_ \subseteq Txs /\ answer \subseteq Txs /\ submitted \subseteq Txs
    /\ UnseenNowhere
    /\ LeaversFollowed

\* A publication that is appended leaves the due blocks due.
LEMMA AppendKeepsDue ==
    ASSUME NEW x, PoolTypeOK, x \in Txs \cup {Block}, pubs' = Append(pubs, x)
    PROVE  /\ PoolTypeOK' \/ rpc' # rpc
           /\ \A i \in DOMAIN pubs : i \in DOMAIN pubs' /\ pubs'[i] = pubs[i]
           /\ \A i : BlockDue(i) => BlockDue(i)'
           /\ DOMAIN pubs' = DOMAIN pubs \cup {Len(pubs) + 1}
           /\ pubs'[Len(pubs) + 1] = x
<1>1. /\ \A i \in DOMAIN pubs : i \in DOMAIN pubs' /\ pubs'[i] = pubs[i]
      /\ DOMAIN pubs' = DOMAIN pubs \cup {Len(pubs) + 1}
      /\ pubs'[Len(pubs) + 1] = x
      /\ pubs' \in Seq(Txs \cup {Block})
  BY DEF PoolTypeOK
<1>2. ASSUME NEW i, BlockDue(i) PROVE BlockDue(i)'
  BY <1>1, <1>2 DEF BlockDue
<1> QED
  BY <1>1, <1>2 DEF PoolTypeOK

\* The first publication is taken: the others move up by one.
LEMMA TailKeepsDue ==
    ASSUME PoolTypeOK, pubs # <<>>, pubs' = Tail(pubs)
    PROVE  /\ pubs' \in Seq(Txs \cup {Block})
           /\ \A i \in DOMAIN pubs' : i + 1 \in DOMAIN pubs /\ pubs'[i] = pubs[i + 1]
           /\ \A i \in Nat \ {0} : BlockDue(i + 1) => BlockDue(i)'
           /\ Head(pubs) # Block /\ BlockDue(1) => BlockDue(1)'
<1>1. /\ pubs' \in Seq(Txs \cup {Block})
      /\ Len(pubs') = Len(pubs) - 1 /\ Len(pubs) \in Nat \ {0}
      /\ DOMAIN pubs = 1..Len(pubs) /\ DOMAIN pubs' = 1..Len(pubs')
      /\ \A i \in 1..Len(pubs') : pubs'[i] = pubs[i + 1]
      /\ Head(pubs) = pubs[1]
  BY DEF PoolTypeOK
<1>2. \A j \in DOMAIN pubs : j # 1 => j - 1 \in DOMAIN pubs' /\ pubs'[j - 1] = pubs[j]
  BY <1>1
<1>3. ASSUME NEW i \in Nat \ {0}, BlockDue(i + 1) PROVE BlockDue(i)'
  <2>1. PICK j \in DOMAIN pubs : j >= i + 1 /\ pubs[j] = Block
    BY <1>3 DEF BlockDue
  <2>2. j \in Int /\ j - 1 >= i /\ j # 1
    BY <1>1, <2>1
  <2>3. j - 1 \in DOMAIN pubs' /\ pubs'[j - 1] = Block
    BY <1>2, <2>1, <2>2
  <2> QED
    BY <2>2, <2>3 DEF BlockDue
<1>4. ASSUME Head(pubs) # Block, BlockDue(1) PROVE BlockDue(1)'
  <2>1. PICK j \in DOMAIN pubs : j >= 1 /\ pubs[j] = Block
    BY <1>4 DEF BlockDue
  <2>2. j \in Int /\ j # 1
    BY <1>1, <1>4, <2>1
  <2>3. j - 1 \in DOMAIN pubs' /\ pubs'[j - 1] = Block /\ j - 1 >= 1
    BY <1>1, <1>2, <2>1, <2>2
  <2> QED
    BY <2>3 DEF BlockDue
<1> QED
  BY <1>1, <1>3, <1>4

\* What the steps that leave the daemon, the publications, the socket and the
\* copy alone keep.
LEMMA PoolKept ==
    ASSUME PoolInv, UNCHANGED <<daemon, unseen, pubs, rpc, answer, submitted, missed, state_>>
    PROVE  PoolInv'
  BY DEF PoolInv, PoolTypeOK, UnseenNowhere, LeaversFollowed, BlockDue

\* The first publication is taken without being looked at.
LEMMA TailKeepsUnseen ==
    ASSUME PoolInv, pubs # <<>>, pubs' = Tail(pubs)
    PROVE  /\ pubs' \in Seq(Txs \cup {Block})
           /\ \A t \in unseen : \A i \in DOMAIN pubs' : pubs'[i] # t
           /\ \A t \in Txs \ (daemon \cup missed) :
                \A i \in DOMAIN pubs' : pubs'[i] = t => BlockDue(i)'
<1>t. PoolTypeOK /\ LeaversFollowed /\ UnseenNowhere
  BY DEF PoolInv
<1>1. /\ pubs' \in Seq(Txs \cup {Block})
      /\ \A i \in DOMAIN pubs' : i + 1 \in DOMAIN pubs /\ pubs'[i] = pubs[i + 1]
      /\ \A i \in Nat \ {0} : BlockDue(i + 1) => BlockDue(i)'
  BY <1>t, TailKeepsDue
<1>2. \A i \in DOMAIN pubs' : i \in Nat \ {0}
  BY <1>1
<1>3. \A t \in Txs \ (daemon \cup missed) :
        \A i \in DOMAIN pubs' : pubs'[i] = t => BlockDue(i)'
  BY <1>t, <1>1, <1>2 DEF LeaversFollowed
<1> QED
  BY <1>t, <1>1, <1>3 DEF UnseenNowhere

\* Everything that left the pool is excused when the news of a block is lost.
LEMMA AllMissed ==
    ASSUME PoolInv, missed' = Mined, UNCHANGED <<daemon, unseen, submitted, state_>>,
           PoolTypeOK', answer' \subseteq answer,
           \A t \in unseen : \A i \in DOMAIN pubs' : pubs'[i] # t
    PROVE  PoolInv'
<1>1. UnseenNowhere'
  BY DEF PoolInv, UnseenNowhere
<1>2. \A t \in Txs \ (daemon' \cup missed') : t \in unseen'
  BY DEF Mined
<1>3. LeaversFollowed'
  BY <1>1, <1>2 DEF LeaversFollowed, UnseenNowhere
<1> QED
  BY <1>1, <1>3 DEF PoolInv

\* Every step keeps a request or a block due for what left the daemon's pool,
\* or puts it among the missed.
LEMMA PoolStep == PoolInv /\ [Next]_vars => PoolInv'
<1> SUFFICES ASSUME PoolInv, [Next]_vars PROVE PoolInv'
  OBVIOUS
<1>t. PoolTypeOK /\ LeaversFollowed /\ UnseenNowhere
  BY DEF PoolInv
<1>1. ASSUME NEW t \in Txs, NEW here \in BOOLEAN, DaemonReceives(t, here) PROVE PoolInv'
  <2>1. /\ daemon' = daemon \cup {t} /\ unseen' = unseen \ {t}
        /\ submitted' \subseteq submitted \cup {t}
        /\ UNCHANGED <<rpc, answer, missed, state_>>
        /\ pubs' = pubs \/ pubs' = Append(pubs, t)
    BY <1>1 DEF DaemonReceives, Publish, copy
  <2>2. CASE pubs' = pubs
    BY <1>t, <2>1, <2>2 DEF PoolInv, PoolTypeOK, UnseenNowhere, LeaversFollowed, BlockDue
  <2>3. CASE pubs' = Append(pubs, t)
    <3>1. /\ PoolTypeOK'
          /\ \A i \in DOMAIN pubs : i \in DOMAIN pubs' /\ pubs'[i] = pubs[i]
          /\ \A i : BlockDue(i) => BlockDue(i)'
          /\ DOMAIN pubs' = DOMAIN pubs \cup {Len(pubs) + 1}
          /\ pubs'[Len(pubs) + 1] = t
      BY <1>t, <2>1, <2>3, AppendKeepsDue
    <3>2. LeaversFollowed'
      BY <1>t, <2>1, <3>1 DEF LeaversFollowed
    <3>3. UnseenNowhere'
      BY <1>t, <2>1, <3>1 DEF UnseenNowhere
    <3> QED
      BY <2>1, <3>1, <3>2, <3>3 DEF PoolInv
  <2> QED
    BY <2>1, <2>2, <2>3
<1>2. ASSUME NEW S \in SUBSET daemon, NEW told \in BOOLEAN, DaemonMines(S, told)
      PROVE  PoolInv'
  <2>1. /\ daemon' = daemon \ S
        /\ UNCHANGED <<unseen, rpc, answer, submitted, state_>>
    BY <1>2 DEF DaemonMines, copy
  <2>2. CASE told
    <3>1. pubs' = Append(pubs, Block)
      BY <1>2, <2>2 DEF DaemonMines, Publish
    <3>2. /\ PoolTypeOK'
          /\ \A i \in DOMAIN pubs : i \in DOMAIN pubs' /\ pubs'[i] = pubs[i]
          /\ DOMAIN pubs' = DOMAIN pubs \cup {Len(pubs) + 1}
          /\ pubs'[Len(pubs) + 1] = Block
      BY <1>t, <2>1, <3>1, AppendKeepsDue
    <3>3. /\ \A i \in DOMAIN pubs : i <= Len(pubs) + 1
          /\ 1 <= Len(pubs) + 1 /\ Len(pubs) + 1 \in Nat
      BY <1>t DEF PoolTypeOK
    <3>4. BlockDue(1)' /\ \A i \in DOMAIN pubs' : BlockDue(i)'
      BY <3>2, <3>3 DEF BlockDue
    <3>5. LeaversFollowed'
      BY <3>4 DEF LeaversFollowed
    <3>6. UnseenNowhere'
      BY <1>t, <2>1, <3>2, BlockAssumption DEF UnseenNowhere, PoolInv
    <3> QED
      BY <2>1, <3>2, <3>5, <3>6 DEF PoolInv
  <2>3. CASE ~told
    <3>1. pubs' = pubs /\ missed' = Mined \cup S
      BY <1>2, <2>3 DEF DaemonMines, Publish
    <3>2. UnseenNowhere'
      BY <1>t, <2>1, <3>1 DEF UnseenNowhere
    <3>3. \A t \in Txs \ (daemon' \cup missed') : t \in unseen'
      BY <2>1, <3>1 DEF Mined
    <3>4. LeaversFollowed'
      BY <3>2, <3>3 DEF LeaversFollowed, UnseenNowhere
    <3> QED
      BY <2>1, <3>1, <3>2, <3>4 DEF PoolInv, PoolTypeOK
  <2> QED
    BY <2>2, <2>3
<1>3. CASE DaemonAnswers
  BY <1>3 DEF PoolInv, PoolTypeOK, UnseenNowhere, LeaversFollowed, BlockDue, DaemonAnswers, copy
<1>4. CASE DaemonForgets \/ OnRpcFails
  <2>1. /\ missed' = Mined /\ UNCHANGED <<daemon, unseen, submitted, state_, pubs>>
        /\ rpc' \in {"lost", "idle"} /\ answer' = {}
    BY <1>4 DEF DaemonForgets, OnRpcFails, copy
  <2> QED
    BY <1>t, <2>1, AllMissed DEF PoolTypeOK, UnseenNowhere
<1>5. CASE OnRpc
  BY <1>5 DEF PoolInv, PoolTypeOK, UnseenNowhere, LeaversFollowed, BlockDue, OnRpc, reset_txs
<1>6. ASSUME NEW sent \in BOOLEAN, OnBlock(sent) PROVE PoolInv'
  <2>1. /\ pubs # <<>> /\ pubs' = Tail(pubs) /\ answer' = {}
        /\ UNCHANGED <<daemon, unseen, submitted, state_>>
        /\ rpc' \in {"sent", "idle"}
        /\ (rpc' = "sent" /\ missed' = missed) \/ missed' = Mined
    BY <1>6 DEF OnBlock, Request, copy
  <2>2. /\ pubs' \in Seq(Txs \cup {Block})
        /\ \A t \in unseen : \A i \in DOMAIN pubs' : pubs'[i] # t
        /\ \A t \in Txs \ (daemon \cup missed) :
             \A i \in DOMAIN pubs' : pubs'[i] = t => BlockDue(i)'
    BY <2>1, TailKeepsUnseen
  <2>3. CASE rpc' = "sent" /\ missed' = missed
    <3>1. LeaversFollowed'
      BY <2>1, <2>2, <2>3 DEF LeaversFollowed
    <3>2. UnseenNowhere'
      BY <1>t, <2>1, <2>2 DEF UnseenNowhere
    <3> QED
      BY <2>1, <2>2, <3>1, <3>2 DEF PoolInv, PoolTypeOK
  <2>4. CASE missed' = Mined
    BY <2>1, <2>2, <2>4, AllMissed DEF PoolTypeOK
  <2> QED
    BY <2>1, <2>3, <2>4
<1>7. CASE OnTxpool
  <2>1. /\ pubs # <<>> /\ Head(pubs) # Block /\ pubs' = Tail(pubs)
        /\ state_' = state_ \cup {Head(pubs)}
        /\ UNCHANGED <<daemon, unseen, rpc, answer, submitted, missed>>
    BY <1>7 DEF OnTxpool, add_txs
  <2>2. /\ pubs' \in Seq(Txs \cup {Block})
        /\ \A t \in unseen : \A i \in DOMAIN pubs' : pubs'[i] # t
        /\ \A t \in Txs \ (daemon \cup missed) :
             \A i \in DOMAIN pubs' : pubs'[i] = t => BlockDue(i)'
    BY <2>1, TailKeepsUnseen
  <2>3. BlockDue(1) => BlockDue(1)'
    BY <1>t, <2>1, TailKeepsDue
  <2>4. Head(pubs) = pubs[1] /\ 1 \in DOMAIN pubs /\ Head(pubs) \in Txs
    BY <1>t, <2>1 DEF PoolTypeOK
  <2>5. LeaversFollowed'
    BY <1>t, <2>1, <2>2, <2>3, <2>4 DEF LeaversFollowed
  <2>6. UnseenNowhere'
    BY <1>t, <2>1, <2>2, <2>4 DEF UnseenNowhere
  <2> QED
    BY <1>t, <2>1, <2>2, <2>4, <2>5, <2>6 DEF PoolInv, PoolTypeOK
<1>8. CASE PubFails
  <2>1. /\ pubs # <<>> /\ pubs' = Tail(pubs)
        /\ UNCHANGED <<daemon, unseen, rpc, answer, submitted, state_>>
        /\ missed' = IF Head(pubs) = Block THEN Mined ELSE missed
    BY <1>8 DEF PubFails, copy
  <2>2. /\ pubs' \in Seq(Txs \cup {Block})
        /\ \A t \in unseen : \A i \in DOMAIN pubs' : pubs'[i] # t
        /\ \A t \in Txs \ (daemon \cup missed) :
             \A i \in DOMAIN pubs' : pubs'[i] = t => BlockDue(i)'
    BY <2>1, TailKeepsUnseen
  <2>3. CASE Head(pubs) = Block
    BY <1>t, <2>1, <2>2, <2>3, AllMissed DEF PoolTypeOK
  <2>4. CASE Head(pubs) # Block
    <3>1. BlockDue(1) => BlockDue(1)'
      BY <1>t, <2>1, <2>4, TailKeepsDue
    <3>2. LeaversFollowed'
      BY <1>t, <2>1, <2>2, <2>4, <3>1 DEF LeaversFollowed
    <3>3. UnseenNowhere'
      BY <1>t, <2>1, <2>2 DEF UnseenNowhere
    <3> QED
      BY <1>t, <2>1, <2>2, <3>2, <3>3 DEF PoolInv, PoolTypeOK
  <2> QED
    BY <2>3, <2>4
<1>9. CASE StopScan
  <2>1. /\ missed' = Mined /\ UNCHANGED <<daemon, unseen, submitted, state_>>
        /\ rpc' = "idle" /\ answer' = {} /\ pubs' = <<>>
    BY <1>9 DEF StopScan, copy
  <2> QED
    BY <2>1, AllMissed DEF PoolTypeOK
<1>10. ASSUME NEW t \in Txs, SubmitRelayed(t) PROVE PoolInv'
  <2>1. /\ t \in submitted /\ submitted' = submitted \ {t} /\ state_' = state_ \cup {t}
        /\ missed' = IF t \in daemon THEN missed ELSE missed \cup {t}
        /\ UNCHANGED <<daemon, unseen, pubs, rpc, answer>>
    BY <1>10 DEF SubmitRelayed, add_txs, updater
  <2>2. UnseenNowhere'
    BY <1>t, <2>1 DEF UnseenNowhere
  <2>3. LeaversFollowed'
    BY <1>t, <2>1 DEF LeaversFollowed, BlockDue
  <2> QED
    BY <2>1, <2>2, <2>3 DEF PoolInv, PoolTypeOK
<1>11. CASE UNCHANGED <<daemon, unseen, pubs, rpc, answer, submitted, missed, state_>>
  BY <1>11, PoolKept
<1>12. CASE Reenter \/ StartScan \/ CacheEvict
           \/ \E r \in Readers : ScanOpen(r) \/ ScanLock(r) \/ ScanEnd(r)
  BY <1>11, <1>12 DEF Reenter, StartScan, CacheEvict, ScanOpen, ScanLock, ScanEnd, updater, copy
<1>13. CASE \/ \E x \in Subaddrs : AddSubaddress(x)
            \/ \E o \in UNION {Rings[t] : t \in Txs} : StoreOutput(o)
            \/ \E t \in Txs : StoreMined(t)
  BY <1>11, <1>13 DEF AddSubaddress, StoreOutput, StoreMined, poolVars, updater, copy
<1>14. CASE UNCHANGED vars
  BY <1>11, <1>14 DEF vars, poolVars, updater, copy
<1> QED
  BY <1>1, <1>2, <1>3, <1>4, <1>5, <1>6, <1>7, <1>8, <1>9, <1>10, <1>12, <1>13, <1>14
     DEF Next, Pool, Updater

\* With no publication waiting and no request under way, every transaction of
\* the copy is in the daemon's pool or among the missed, those of whose block
\* the news was lost: a mined one is never brought back by a publication or an
\* answer that was late, for any number of blocks, losses and restarts.
THEOREM NoGhostStays == Spec => []NoGhosts
<1>1. Init => PoolInv
  BY DEF Init, PoolInv, PoolTypeOK, UnseenNowhere, LeaversFollowed
<1>2. PoolInv => NoGhosts
  BY DEF PoolInv, LeaversFollowed, BlockDue, NoGhosts
<1> QED
  BY <1>1, <1>2, PoolStep, PTL DEF Spec

-----------------------------------------------------------------------------
(* The readers. *)

\* The shared copy is the pool, whenever there is one.
SnapshotIsPool == snapshot_ = NoCopy \/ snapshot_ = [txs |-> state_]

\* No transaction of T pays one of the subaddresses S: T may be skipped.
Skippable(T, S) == \A t \in T : Pays[t] \notin S

CacheInv == cache_ # NoEntry => Skippable(cache_.txids, cache_.subs)

\* What a reader holds at each of its steps.
ScanInv(s) ==
    /\ s.pc \in {"idle", "open", "locked", "done"}
    /\ s.pc = "locked" => /\ s.owed = s.rows \cup {t \in s.snap : Pays[t] \in s.subs}
                          /\ Skippable(s.skip, s.subs)
    /\ s.pc = "done" =>
         \A t \in Txs : s.listed[t] <= 1 /\ (t \in s.owed => s.listed[t] = 1)

ReaderInv ==
    /\ SnapshotIsPool /\ CacheInv
    /\ DOMAIN scans = Readers /\ scans = [r \in Readers |-> scans[r]]
    /\ \A r \in Readers : ScanInv(scans[r])

\* Every step of the pool and of the readers keeps what the readers rely on.
LEMMA ReaderStep == ReaderInv /\ [Next]_vars => ReaderInv'
<1> SUFFICES ASSUME ReaderInv, [Next]_vars PROVE ReaderInv'
  OBVIOUS
<1>1. ASSUME NEW r \in Readers, ScanOpen(r) PROVE ReaderInv'
  <2>1. UNCHANGED <<state_, snapshot_, cache_>>
    BY <1>1 DEF ScanOpen, copy
  <2>2. scans' = [scans EXCEPT ![r] =
          [pc |-> "open", subs |-> subs, outs |-> outs, rows |-> stored]]
    BY <1>1 DEF ScanOpen
  <2> QED
    BY <2>1, <2>2 DEF ReaderInv, SnapshotIsPool, CacheInv, ScanInv, Skippable
<1>2. ASSUME NEW r \in Readers, ScanLock(r) PROVE ReaderInv'
  <2>1. /\ UNCHANGED <<state_, cache_>>
        /\ snapshot_' = IF snapshot_ = NoCopy THEN [txs |-> state_] ELSE snapshot_
    BY <1>2 DEF ScanLock
  <2>2. snapshot_' = [txs |-> state_] /\ snapshot_'.txs = state_
    BY <2>1 DEF ReaderInv, SnapshotIsPool
  <2>3. Skippable(CacheGet(scans[r].subs), scans[r].subs)
    BY DEF ReaderInv, CacheInv, Skippable, CacheGet
  <2>4. scans' = [scans EXCEPT ![r] =
          [pc |-> "locked", subs |-> scans[r].subs, outs |-> scans[r].outs,
           rows |-> scans[r].rows, skip |-> CacheGet(scans[r].subs),
           snap |-> snapshot_'.txs,
           owed |-> scans[r].rows \cup {t \in state_ : Pays[t] \in scans[r].subs}]]
    BY <1>2 DEF ScanLock
  <2>5. ScanInv(scans'[r])
    BY <2>2, <2>3, <2>4 DEF ReaderInv, ScanInv
  <2> QED
    BY <2>1, <2>2, <2>4, <2>5 DEF ReaderInv, SnapshotIsPool, CacheInv
<1>3. ASSUME NEW r \in Readers, ScanEnd(r) PROVE ReaderInv'
  <2> DEFINE s == scans[r]
  <2>1. /\ UNCHANGED <<state_, snapshot_>> /\ s.pc = "locked"
        /\ cache_' = [subs |-> s.subs, txids |-> s.snap \ Found(s)]
        /\ scans' = [scans EXCEPT ![r] =
             [pc |-> "done", owed |-> s.owed,
              listed |-> [t \in Txs |-> merge_into_txes(s, t)]]]
    BY <1>3 DEF ScanEnd, copy
  <2>2. /\ s.owed = s.rows \cup {t \in s.snap : Pays[t] \in s.subs}
        /\ Skippable(s.skip, s.subs)
    BY <2>1 DEF ReaderInv, ScanInv
  <2>3. Skippable(s.snap \ Found(s), s.subs)
    BY <2>2 DEF Skippable, Found, Owned
  <2>4. CacheInv'
    BY <2>1, <2>3 DEF CacheInv
  <2>5. ASSUME NEW t \in Txs
        PROVE  /\ merge_into_txes(s, t) <= 1
               /\ t \in s.owed => merge_into_txes(s, t) = 1
    BY <2>2 DEF Skippable, merge_into_txes, Found, Owned
  <2>6. ScanInv(scans'[r])
    BY <2>1, <2>5 DEF ReaderInv, ScanInv
  <2> QED
    BY <2>1, <2>4, <2>6 DEF ReaderInv, SnapshotIsPool
<1>4. CASE OnRpc \/ OnTxpool \/ \E t \in Txs : SubmitRelayed(t)
  BY <1>4 DEF OnRpc, OnTxpool, SubmitRelayed, reset_txs, add_txs, ReaderInv,
              SnapshotIsPool, CacheInv
<1>5. CASE CacheEvict
  BY <1>5 DEF CacheEvict, copy, ReaderInv, SnapshotIsPool, CacheInv
<1>6. CASE UNCHANGED <<state_, snapshot_, cache_, scans>>
  BY <1>6 DEF ReaderInv, SnapshotIsPool, CacheInv
<1>7. CASE \/ OnRpcFails \/ PubFails \/ Reenter \/ StopScan \/ StartScan
           \/ DaemonAnswers \/ DaemonForgets
           \/ \E sent \in BOOLEAN : OnBlock(sent)
           \/ \E t \in Txs, here \in BOOLEAN : DaemonReceives(t, here)
           \/ \E S \in SUBSET daemon, told \in BOOLEAN : DaemonMines(S, told)
  BY <1>6, <1>7 DEF OnRpcFails, PubFails, OnBlock, Reenter, StopScan, StartScan,
                    DaemonAnswers, DaemonForgets, DaemonReceives, DaemonMines, copy
<1>8. CASE \/ \E x \in Subaddrs : AddSubaddress(x)
           \/ \E o \in UNION {Rings[t] : t \in Txs} : StoreOutput(o)
           \/ \E t \in Txs : StoreMined(t)
  BY <1>6, <1>8 DEF AddSubaddress, StoreOutput, StoreMined, poolVars, copy
<1>9. CASE UNCHANGED vars
  BY <1>6, <1>9 DEF vars, poolVars, copy
<1> QED
  BY <1>1, <1>2, <1>3, <1>4, <1>5, <1>7, <1>8, <1>9 DEF Next, Pool, Updater

\* The reply of a reader lists what its read transaction found stored and what
\* paid the account from the pool when the lock was taken, once each, for any
\* number of readers with whatever subaddresses filling the same cache.
THEOREM RepliesAreExact == Spec => []RepliesExact
<1>1. Init => ReaderInv
  BY DEF Init, ReaderInv, SnapshotIsPool, CacheInv, ScanInv, NoScan
<1>2. ReaderInv => RepliesExact
  BY DEF ReaderInv, ScanInv, RepliesExact
<1> QED
  BY <1>1, <1>2, ReaderStep, PTL DEF Spec
=============================================================================
